----------------------------- MODULE HostProofs -----------------------------
(***************************************************************************)
(* What holds of ModelBudget for all limits, prices, messages and requested*)
(* sizes, if a token stands for at least the four bytes the estimate       *)
(* assumes: the budget is not overspent.  And of WebSessions for any       *)
(* clients, any room in the table and any number of requests: no agent     *)
(* works at two turns, no session stays busy without a turn and no lock    *)
(* stays held without a request, every agent that was made is in the table *)
(* or closed, and the table keeps within its bound.  Of SandboxedCommand   *)
(* for any commands, hooks and threads: commands are contained.  Of        *)
(* Governance for any processes, members and command lines, killed         *)
(* anywhere: the files of the teams tell what happened.  Of ToolServer for *)
(* any callers and processes: an answer belongs to its call.  Of           *)
(* ExtensionPlatform for any extensions and commands: a permission given   *)
(* once allows one call, and ends with its extension.  Of CliSession for   *)
(* any arguments, reports and bounds: a code of 0 is earned, a session     *)
(* stops its jobs, and noryx rollback takes back its own run's changes.    *)
(***************************************************************************)
EXTENDS ModelBudget, WebSessions, SandboxedCommand, Governance, ToolServer, ExtensionPlatform,
    CliSession, FiniteSetTheorems, SequenceTheorems, WellFoundedInduction, TLAPS

\* Multiplication by a price or a length keeps the order.
LEMMA TimesMonotone ==
  ASSUME NEW a \in Nat, NEW b \in Nat, NEW k \in Nat, a <= b
  PROVE  a * k <= b * k /\ a * k \in Nat
  OBVIOUS

\* A quotient never buys more than the dividend.
LEMMA Quotient ==
  ASSUME NEW x \in Int, NEW d \in Nat \ {0}
  PROVE  x \div d \in Int /\ (x \div d) * d <= x /\ x < (x \div d) * d + d
  OBVIOUS

\* What more prompt and more completion cost.
LEMMA CostMonotone ==
  ASSUME NEW p \in Nat, NEW q \in Nat, NEW c \in Nat, NEW e \in Nat, p <= q, c <= e
  PROVE  Cost(p, c) <= Cost(q, e) /\ Cost(p, c) \in Nat
  <1>1. p * InPrice <= q * InPrice /\ p * InPrice \in Nat /\ q * InPrice \in Nat
    BY TimesMonotone, BudgetAssumption
  <1>2. c * OutPrice <= e * OutPrice /\ c * OutPrice \in Nat /\ e * OutPrice \in Nat
    BY TimesMonotone, BudgetAssumption
  <1> QED
    BY <1>1, <1>2 DEF Cost

\* A text has no more tokens than bytes.
LEMMA TokensOfSize ==
  ASSUME NEW s \in Nat
  PROVE  Tokens(s) \in Nat /\ Tokens(s) <= s
  <1> DEFINE t == TokenBytes
             q == (s + t - 1) \div t
  <1>1. t \in Nat \ {0}
    BY BudgetAssumption
  <1>2. q \in Int /\ q * t <= s + t - 1 /\ s + t - 1 < q * t + t
    BY <1>1, Quotient
  <1> HIDE DEF q
  <1>3. q >= 0
    <2>1. SUFFICES ASSUME q <= -1 PROVE FALSE
      BY <1>2
    <2>2. q * t <= -t
      BY <2>1, <1>1, <1>2
    <2> QED
      BY <2>2, <1>1, <1>2
  <1>4. q <= s
    <2>1. SUFFICES ASSUME q >= s + 1 PROVE FALSE
      BY <1>2
    <2>2. (s + 1) * t <= q * t
      BY <2>1, <1>1, <1>2, TimesMonotone
    <2>3. s <= s * t
      BY <1>1
    <2>4. (s + 1) * t = s * t + t
      BY <1>1
    <2>5. s * t \in Int /\ q * t \in Int
      BY <1>1, <1>2
    <2> QED
      BY <2>2, <2>3, <2>4, <2>5, <1>1, <1>2
  <1> QED
    BY <1>1, <1>2, <1>3, <1>4 DEF q, Tokens

\* The estimate of a text is not below its tokens.
LEMMA EstimateCovers ==
  ASSUME TokenBytes >= 4, NEW s \in Nat
  PROVE  Estimate(s) \in Nat /\ Tokens(s) <= Estimate(s)
  <1> DEFINE t == TokenBytes
             q == (s + t - 1) \div t
  <1>1. t \in Nat \ {0}
    BY BudgetAssumption
  <1>2. q \in Int /\ q * t <= s + t - 1 /\ s + t - 1 < q * t + t
    BY <1>1, Quotient
  <1>3. q \in Nat
    BY TokensOfSize DEF Tokens
  <1>4. (s + 3) \div 4 \in Nat
    OBVIOUS
  <1> HIDE DEF q
  <1>5. q <= (s + 3) \div 4
    <2>1. CASE q = 0
      BY <2>1, <1>4
    <2>2. CASE q >= 1
      <3>1. (q - 1) * 4 <= (q - 1) * t
        BY <2>2, <1>1, <1>3
      <3>2. (q - 1) * t = q * t - t
        BY <1>1, <1>3
      <3>3. q * t \in Int
        BY <1>1, <1>3
      <3>4. q * 4 <= s + 3
        BY <3>1, <3>2, <3>3, <1>1, <1>2, <1>3
      <3> QED
        BY <3>4, <1>3
    <2> QED
      BY <2>1, <2>2, <1>3
  <1> QED
    BY <1>4, <1>5 DEF q, Tokens, Estimate

\* The estimate of a completion is not below its tokens.
LEMMA EstimateOfCompletion ==
  ASSUME TokenBytes >= 4, NEW u \in Nat
  PROVE  Estimate(u * TokenBytes) \in Nat /\ u <= Estimate(u * TokenBytes)
  <1>1. u * TokenBytes \in Nat /\ u * 4 <= u * TokenBytes
    BY BudgetAssumption
  <1> DEFINE w == u * TokenBytes
  <1> HIDE DEF w
  <1>2. w \in Nat /\ u * 4 <= w
    BY <1>1 DEF w
  <1>3. (w + 3) \div 4 \in Nat /\ u <= (w + 3) \div 4
    BY <1>2
  <1> QED
    BY <1>3 DEF w, Estimate

-----------------------------------------------------------------------------
\* The accounting never falls behind what was spent, and what a call in
\* progress may still spend is set aside.
Covered ==
    /\ pc \in {"idle", "calling"}
    /\ calls \in Nat /\ prompt \in Nat /\ completion \in Nat
    /\ size \in Nat /\ allowed \in Nat
    /\ spentPrompt \in Nat /\ spentCompletion \in Nat
    /\ spentPrompt <= prompt /\ spentCompletion <= completion
    /\ SpentWithinLimits
    /\ pc = "calling" => UsageWithin(spentPrompt + Tokens(size), spentCompletion + allowed)

\* Nothing is spent at first.
LEMMA CoveredInit == Init => Covered
  BY BudgetAssumption
  DEF Init, Covered, SpentWithinLimits, UsageWithin, Within, Cost, Limits

\* An authorised call fits into what is left of each limit.
LEMMA AuthorisedFits ==
  ASSUME Covered, NEW requested \in Requests, NEW bytes \in Sizes,
         Authorise(requested, bytes)
  PROVE  /\ allowed' \in Nat
         /\ UsageWithin(spentPrompt + Tokens(bytes), spentCompletion + allowed')
  <1> USE BudgetAssumption DEF Limits
  <1>1. bytes \in Nat /\ requested \in Nat
    OBVIOUS
  <1>2. Tokens(bytes) \in Nat /\ Tokens(bytes) <= bytes
    BY <1>1, TokensOfSize
  <1>3. /\ prompt \in Nat /\ completion \in Nat
        /\ spentPrompt \in Nat /\ spentCompletion \in Nat
        /\ spentPrompt <= prompt /\ spentCompletion <= completion
    BY DEF Covered
  <1>4. PICK most \in Ceilings(requested, bytes) :
          /\ \A other \in Ceilings(requested, bytes) : most <= other
          /\ most > 0 /\ allowed' = most
    BY DEF Authorise
  <1>5. /\ CompletionLimit # NoLimit =>
              CompletionLimit \in Nat /\ CompletionLimit - completion \in Int
        /\ CostLimit # NoLimit => Remaining(bytes) \in Int
    BY <1>1, <1>3 DEF Remaining, Cost
  <1>6. most \in Int
    <2>1. CostLimit # NoLimit /\ OutPrice # 0 => Remaining(bytes) \div OutPrice \in Int
      BY <1>5, Quotient
    <2> QED
      BY <1>1, <1>4, <1>5, <2>1 DEF Ceilings
  <1>7. most \in Nat
    BY <1>4, <1>6
  <1>8. Within(spentPrompt + Tokens(bytes), PromptLimit)
    BY <1>1, <1>2, <1>3 DEF Authorise, Within
  <1>9. Within(spentCompletion + most, CompletionLimit)
    <2>1. SUFFICES ASSUME CompletionLimit # NoLimit
                   PROVE  spentCompletion + most <= CompletionLimit
      BY DEF Within
    <2>2. most <= CompletionLimit - completion
      BY <1>4, <2>1 DEF Ceilings
    <2> QED
      BY <1>3, <1>5, <1>7, <2>1, <2>2
  <1>10. Within(Cost(spentPrompt + Tokens(bytes), spentCompletion + most), CostLimit)
    <2>1. SUFFICES ASSUME CostLimit # NoLimit
                   PROVE  Cost(spentPrompt + Tokens(bytes), spentCompletion + most) <= CostLimit
      BY DEF Within
    <2>2. Remaining(bytes) > 0 /\ Remaining(bytes) \in Int
      BY <2>1, <1>5 DEF Authorise
    <2>3. most * OutPrice <= Remaining(bytes) /\ most * OutPrice \in Nat
      <3>1. CASE OutPrice = 0
        BY <3>1, <2>2, <1>7
      <3>2. CASE OutPrice # 0
        <4>1. most <= Remaining(bytes) \div OutPrice
          BY <1>4, <2>1, <3>2 DEF Ceilings
        <4>2. /\ Remaining(bytes) \div OutPrice \in Int
              /\ (Remaining(bytes) \div OutPrice) * OutPrice <= Remaining(bytes)
          BY <2>2, <3>2, Quotient
        <4>3. Remaining(bytes) \div OutPrice \in Nat
          BY <4>1, <4>2, <1>7
        <4>4. most * OutPrice <= (Remaining(bytes) \div OutPrice) * OutPrice
          BY <4>1, <4>3, <1>7, TimesMonotone
        <4>5. /\ most * OutPrice \in Nat
              /\ (Remaining(bytes) \div OutPrice) * OutPrice \in Nat
          BY <4>3, <1>7
        <4> QED
          BY <4>2, <4>4, <4>5, <2>2
      <3> QED
        BY <3>1, <3>2
    <2>4. Cost(spentPrompt + Tokens(bytes), spentCompletion + most)
            <= Cost(prompt + bytes, completion + most)
      <3>1. /\ spentPrompt + Tokens(bytes) \in Nat /\ prompt + bytes \in Nat
            /\ spentCompletion + most \in Nat /\ completion + most \in Nat
            /\ spentPrompt + Tokens(bytes) <= prompt + bytes
            /\ spentCompletion + most <= completion + most
        BY <1>1, <1>2, <1>3, <1>7
      <3> QED
        BY ONLY <3>1, CostMonotone
    <2>5. Cost(prompt + bytes, completion + most)
            = Cost(prompt, completion) + bytes * InPrice + most * OutPrice
      BY <1>1, <1>3, <1>7 DEF Cost
    <2>6. /\ Cost(prompt, completion) \in Nat /\ bytes * InPrice \in Nat
          /\ Cost(spentPrompt + Tokens(bytes), spentCompletion + most) \in Nat
      BY <1>1, <1>2, <1>3, <1>7 DEF Cost
    <2> QED
      BY <2>1, <2>2, <2>3, <2>4, <2>5, <2>6 DEF Remaining
  <1> QED
    BY <1>4, <1>7, <1>8, <1>9, <1>10 DEF UsageWithin

\* Every step keeps the spending covered.
LEMMA CoveredStep ==
  ASSUME TokenBytes >= 4, Covered, [Next]_vars
  PROVE  Covered'
  <1> USE BudgetAssumption
  <1>0. Tokens(size) \in Nat /\ Estimate(size) \in Nat /\ Tokens(size) <= Estimate(size)
    BY TokensOfSize, EstimateCovers DEF Covered
  <1>1. ASSUME NEW requested \in Requests, NEW bytes \in Sizes, Authorise(requested, bytes)
        PROVE  Covered'
    <2>1. /\ allowed' \in Nat
          /\ UsageWithin(spentPrompt + Tokens(bytes), spentCompletion + allowed')
      BY <1>1, AuthorisedFits
    <2>2. Within(calls + 1, CallLimit)
      BY <1>1 DEF Authorise
    <2> QED
      BY <1>1, <2>1, <2>2
      DEF Authorise, Covered, SpentWithinLimits, UsageWithin, Within, Tokens, Cost
  <1>2. ASSUME NEW used \in 0..allowed, Spend(used)
        PROVE  /\ pc' = "idle" /\ used \in Nat
               /\ spentPrompt' \in Nat /\ spentCompletion' \in Nat
               /\ SpentWithinLimits'
    <2>1. used \in Nat /\ used <= allowed /\ pc = "calling"
      BY <1>2 DEF Covered, Spend
    <2>7. /\ spentPrompt + Tokens(size) \in Nat
          /\ spentCompletion + used \in Nat /\ spentCompletion + allowed \in Nat
          /\ spentPrompt + Tokens(size) <= spentPrompt + Tokens(size)
          /\ spentCompletion + used <= spentCompletion + allowed
          /\ spentCompletion + allowed <= spentCompletion + allowed
      BY <1>0, <2>1 DEF Covered
    <2>2. /\ Cost(spentPrompt + Tokens(size), spentCompletion + used)
               <= Cost(spentPrompt + Tokens(size), spentCompletion + allowed)
          /\ Cost(spentPrompt + Tokens(size), spentCompletion + used) \in Nat
      BY ONLY <2>7, CostMonotone
    <2>3. Cost(spentPrompt + Tokens(size), spentCompletion + allowed) \in Nat
      BY ONLY <2>7, CostMonotone
    <2>4. UsageWithin(spentPrompt + Tokens(size), spentCompletion + used)
      BY <1>0, <2>1, <2>2, <2>3 DEF Covered, UsageWithin, Within, Limits
    <2>5. spentPrompt' = spentPrompt + Tokens(size) /\ spentCompletion' = spentCompletion + used
      BY <1>2 DEF Spend
    <2>6. UsageWithin(spentPrompt', spentCompletion')
      BY <2>4, <2>5
    <2> QED
      BY <1>0, <1>2, <2>1, <2>5, <2>6
      DEF Spend, Covered, SpentWithinLimits, UsageWithin, Within, Cost
  <1>3. ASSUME NEW used \in 0..allowed, NEW reports \in 1..MaxReports, Reported(used, reports)
        PROVE  Covered'
    <2>1. /\ pc' = "idle" /\ used \in Nat
          /\ spentPrompt' \in Nat /\ spentCompletion' \in Nat
          /\ SpentWithinLimits'
      BY <1>2, <1>3 DEF Reported
    <2>2. Estimate(used * TokenBytes) \in Nat
      BY <2>1, EstimateOfCompletion
    <2>3. reports \in Nat /\ reports >= 1
      OBVIOUS
    <2>4. /\ reports * Tokens(size) \in Nat /\ reports * Tokens(size) >= Tokens(size)
          /\ reports * used \in Nat /\ reports * used >= used
      BY <1>0, <2>1, <2>3
    <2>5. /\ prompt' \in Nat /\ prompt' >= prompt + Tokens(size)
          /\ completion' \in Nat /\ completion' >= completion + used
      BY <1>0, <1>3, <2>1, <2>2, <2>4 DEF Reported, Covered
    <2>6. /\ spentPrompt' = spentPrompt + Tokens(size)
          /\ spentCompletion' = spentCompletion + used
          /\ calls' = calls /\ size' = size /\ allowed' = allowed
      BY <1>3 DEF Reported, Spend
    <2> QED
      BY <1>0, <2>1, <2>5, <2>6 DEF Covered
  <1>4. ASSUME NEW used \in 0..allowed, NotReported(used)
        PROVE  Covered'
    <2>1. /\ pc' = "idle" /\ used \in Nat
          /\ spentPrompt' \in Nat /\ spentCompletion' \in Nat
          /\ SpentWithinLimits'
      BY <1>2, <1>4 DEF NotReported
    <2>2. Estimate(used * TokenBytes) \in Nat /\ used <= Estimate(used * TokenBytes)
      BY <2>1, EstimateOfCompletion
    <2>3. /\ prompt' = prompt + Estimate(size)
          /\ completion' = completion + Estimate(used * TokenBytes)
          /\ spentPrompt' = spentPrompt + Tokens(size)
          /\ spentCompletion' = spentCompletion + used
          /\ calls' = calls /\ size' = size /\ allowed' = allowed
      BY <1>4 DEF NotReported, Spend
    <2> QED
      BY <1>0, <2>1, <2>2, <2>3 DEF Covered
  <1>5. CASE Refused
    BY <1>5 DEF Refused, Covered, SpentWithinLimits, UsageWithin, Within, Cost
  <1>6. CASE Reset
    BY <1>6 DEF Reset, Covered, SpentWithinLimits, UsageWithin, Within, Cost, Limits
  <1>7. CASE UNCHANGED vars
    BY <1>7 DEF vars, Covered, SpentWithinLimits, UsageWithin, Within, Cost, Tokens
  <1> QED
    BY <1>1, <1>3, <1>4, <1>5, <1>6, <1>7 DEF Next

\* Whatever the limits, prices and messages are: if a token stands for four
\* bytes or more, the provider never spends more in a run than the limits of
\* BudgetLimits allow, although an authorisation reserves no tokens.
THEOREM SpentWithinLimitsHolds == TokenBytes >= 4 => (Spec => []SpentWithinLimits)
  <1> SUFFICES ASSUME TokenBytes >= 4 PROVE Spec => []SpentWithinLimits
    OBVIOUS
  <1>1. Covered /\ [Next]_vars => Covered'
    BY CoveredStep
  <1>2. Covered => SpentWithinLimits
    BY DEF Covered
  <1> QED
    BY CoveredInit, <1>1, <1>2, PTL DEF Spec

-----------------------------------------------------------------------------
-----------------------------------------------------------------------------
(* The inductive invariant. *)

\* Every turn that runs holds the run lock of its agent.
Claimed == \A i \in DOMAIN requests : requests[i].at = "running" => requests[i].agent \in running

\* A request that has found its session's lock has one.
HasLock == \A i \in DOMAIN requests : requests[i].at # "queued" => requests[i].lock # 0

\* The table is finite, and no two entries are of one session.
Orderly ==
    /\ IsFiniteSet(table) /\ Cardinality(table) <= MaxAgents
    /\ \A d, e \in table : d.sid = e.sid => d = e

\* No agent is lost from sight.
Kept == \A a \in 1..made : a \in closed \/ \E e \in table : e.agent = a

WebInv == WebTypeOK /\ HasLock /\ Claimed /\ OneTurnPerAgent /\ BusyEnds /\ Orderly /\ Kept

-----------------------------------------------------------------------------
(* The table of agents. *)

\* A set of numbers that is not empty has a least element: the oldest agent
\* of a table exists.
LEMMA LeastNumber ==
    ASSUME NEW S \in SUBSET Nat, S # {}
    PROVE  \E m \in S : \A n \in S : m <= n
<1>1. PICK m \in S : \A n \in S : <<n, m>> \notin OpToRel(<, Nat)
  BY NatLessThanWellFounded, WFMin, Zenon
<1>2. \A n \in S : ~(n < m)
  BY <1>1, Zenon DEF OpToRel
<1> QED
  BY <1>2

\* The agent of a session is the one of its entry.
LEMMA AgentOfEntry ==
    ASSUME Orderly, NEW e \in table
    PROVE  AgentOf(e.sid) = e.agent
<1> DEFINE d == CHOOSE x \in table : x.sid = e.sid
<1>1. d \in table /\ d.sid = e.sid
  OBVIOUS
<1>2. d = e
  BY <1>1 DEF Orderly
<1> QED
  BY <1>2 DEF AgentOf

\* A listed session has an agent that was made.
LEMMA AgentOfListed ==
    ASSUME WebTypeOK, Orderly, NEW s \in Listed
    PROVE  AgentOf(s) \in 1..made
<1>1. PICK e \in table : e.sid = s
  BY DEF Listed
<1> QED
  BY <1>1, AgentOfEntry DEF WebTypeOK

\* When the table is full exactly one entry gives way, and it is there.
LEMMA OneVictim ==
    ASSUME WebInv
    PROVE  \/ Victims = {} /\ Cardinality(table) < MaxAgents
           \/ \E e \in table : Victims = {e.sid}
<1>1. Cardinality(table) \in Nat /\ MaxAgents \in Nat \ {0}
  BY FS_CardinalityType, WebAssumption DEF WebInv, Orderly
<1>2. CASE Cardinality(table) >= MaxAgents
  <2>1. table # {}
    BY <1>1, <1>2, FS_EmptySet
  <2> DEFINE S == {e.agent : e \in table}
  <2>2. S \in SUBSET Nat /\ S # {}
    BY <2>1 DEF WebInv, WebTypeOK
  <2>3. PICK m \in S : \A n \in S : m <= n
    <3> HIDE DEF S
    <3> QED BY <2>2, LeastNumber
  <2>4. PICK e \in table : e.agent = m
    OBVIOUS
  <2>5. \A d \in table : e.agent <= d.agent
    BY <2>3, <2>4
  <2>6. (CHOOSE x \in table : \A d \in table : x.agent <= d.agent) \in table
    BY <2>5
  <2> QED
    BY <1>2, <2>6 DEF Victims
<1>3. CASE ~(Cardinality(table) >= MaxAgents)
  BY <1>1, <1>3 DEF Victims
<1> QED
  BY <1>2, <1>3

\* The sessions that give way are listed.
LEMMA VictimsListed ==
    ASSUME WebInv
    PROVE  Victims \subseteq Listed
BY OneVictim DEF Listed

\* Entries go: what is left is a table, and there is room for one more when
\* the oldest one has gone.
LEMMA DroppedTable ==
    ASSUME WebInv, NEW S
    PROVE  /\ Without(S) \subseteq table
           /\ IsFiniteSet(Without(S)) /\ Cardinality(Without(S)) <= MaxAgents
           /\ \A d, e \in Without(S) : d.sid = e.sid => d = e
<1>1. Without(S) \subseteq table
  BY DEF Without
<1>2. IsFiniteSet(Without(S)) /\ Cardinality(Without(S)) <= Cardinality(table)
  BY <1>1, FS_Subset DEF WebInv, Orderly
<1>3. Cardinality(Without(S)) \in Nat /\ Cardinality(table) \in Nat /\ MaxAgents \in Nat
  BY <1>2, FS_CardinalityType, WebAssumption DEF WebInv, Orderly
<1> QED
  BY <1>1, <1>2, <1>3 DEF WebInv, Orderly

LEMMA RoomForOne ==
    ASSUME WebInv
    PROVE  Cardinality(Without(Victims)) < MaxAgents
<1>1. IsFiniteSet(table) /\ Cardinality(table) \in Nat /\ MaxAgents \in Nat
  BY FS_CardinalityType, WebAssumption DEF WebInv, Orderly
<1>2. CASE Victims = {} /\ Cardinality(table) < MaxAgents
  <2>1. Without(Victims) = table
    BY <1>2 DEF Without
  <2> QED
    BY <1>2, <2>1
<1>3. ASSUME NEW e \in table, Victims = {e.sid}
      PROVE  Cardinality(Without(Victims)) < MaxAgents
  <2>1. Without(Victims) = table \ {e}
    BY <1>3 DEF Without, WebInv, Orderly
  <2>2. Cardinality(table \ {e}) = Cardinality(table) - 1
    BY <1>1, FS_RemoveElement
  <2> QED
    BY <1>1, <2>1, <2>2 DEF WebInv, Orderly
<1> QED
  BY <1>2, <1>3, OneVictim

\* An agent whose entry goes is closed.
LEMMA DroppedClosed ==
    ASSUME WebInv, NEW S \in SUBSET Listed
    PROVE  /\ ClosedWith(S) \subseteq 1..made
           /\ \A a \in 1..made : a \in ClosedWith(S) \/ \E e \in Without(S) : e.agent = a
<1>1. ClosedWith(S) \subseteq 1..made
  <2>1. \A s \in S : AgentOf(s) \in 1..made
    BY AgentOfListed DEF WebInv
  <2>2. closed \subseteq 1..made
    BY DEF WebInv, WebTypeOK
  <2> QED
    BY <2>1, <2>2, Zenon DEF ClosedWith
<1>2. ASSUME NEW a \in 1..made
      PROVE  a \in ClosedWith(S) \/ \E e \in Without(S) : e.agent = a
  <2>1. CASE a \in closed
    BY <2>1 DEF ClosedWith
  <2>2. ASSUME NEW e \in table, e.agent = a
        PROVE  a \in ClosedWith(S) \/ \E d \in Without(S) : d.agent = a
    <3>1. CASE e.sid \in S
      <4>1. AgentOf(e.sid) = a
        BY <2>2, AgentOfEntry DEF WebInv
      <4> QED
        BY <3>1, <4>1 DEF ClosedWith
    <3>2. CASE e.sid \notin S
      BY <2>2, <3>2 DEF Without
    <3> QED
      BY <3>1, <3>2
  <2> QED
    BY <2>1, <2>2 DEF WebInv, Kept
<1> QED
  BY <1>1, <1>2

\* The marks of the sessions that go are forgotten, the others stay.
LEMMA ForgottenMarks ==
    ASSUME WebInv, NEW S
    PROVE  /\ Forgotten(busy, S, "none") \in [Sessions -> {"none", "no", "yes"}]
           /\ \A s \in Sessions : Forgotten(busy, S, "none")[s] = "yes" => busy[s] = "yes"
           /\ Forgotten(lockOf, S, 0) \in [Sessions -> 0..locks]
<1>1. locks \in Nat /\ lockOf \in [Sessions -> 0..locks] /\ busy \in [Sessions -> {"none", "no", "yes"}]
  BY DEF WebInv, WebTypeOK
<1> QED
  BY <1>1 DEF Forgotten

-----------------------------------------------------------------------------
(* What the steps do to the table. *)

\* The table after a step: the parts of the invariant that speak of it.
TableInv ==
    /\ table \subseteq [sid : Sessions, agent : 1..made] /\ made \in 0..MaxMade
    /\ closed \subseteq 1..made
    /\ busy \in [Sessions -> {"none", "no", "yes"}]
    /\ locks \in Nat /\ lockOf \in [Sessions -> 0..locks]
    /\ Orderly /\ Kept

LEMMA TableNow == WebInv => TableInv
BY DEF WebInv, TableInv, WebTypeOK

\* Entries that go and nothing else: a failed construction, a new chat, the
\* end of the server.
LEMMA DropKeepsTable ==
    ASSUME WebInv, NEW S \in SUBSET Listed,
           table' = Without(S), closed' = ClosedWith(S), UNCHANGED <<made, locks>>,
           busy' \in [Sessions -> {"none", "no", "yes"}], lockOf' \in [Sessions -> 0..locks]
    PROVE  TableInv'
<1>1. Orderly'
  BY DroppedTable DEF Orderly
<1>2. Kept'
  BY DroppedClosed DEF Kept
<1>3. table' \subseteq [sid : Sessions, agent : 1..made']
  BY DroppedTable DEF WebInv, WebTypeOK
<1>4. closed' \subseteq 1..made'
  BY DroppedClosed
<1> QED
  BY <1>1, <1>2, <1>3, <1>4 DEF TableInv, WebInv, WebTypeOK

\* A new agent takes the place of the oldest one.
LEMMA MakeKeepsTable ==
    ASSUME WebInv, NEW s \in Sessions, Makes(s)
    PROVE  /\ TableInv' /\ made' >= made /\ locks' >= locks
           /\ \A t \in Sessions : busy'[t] = "yes" => busy[t] = "yes"
           /\ s \in Listed'
<1> DEFINE new == [sid |-> s, agent |-> made + 1]
<1>0. /\ locks \in Nat /\ made \in 0..MaxMade /\ made < MaxMade /\ MaxMade \in Nat /\ made' = made + 1
      /\ locks' = locks + 1 /\ s \notin Listed /\ table' = Without(Victims) \union {new}
      /\ table \subseteq [sid : Sessions, agent : 1..made]
  BY WebAssumption DEF WebInv, WebTypeOK, Makes
<1>1. /\ busy' \in [Sessions -> {"none", "no", "yes"}]
      /\ \A t \in Sessions : busy'[t] = "yes" => busy[t] = "yes"
  BY DEF WebInv, WebTypeOK, Makes, Forgotten
<1>2. lockOf' \in [Sessions -> 0..locks']
  BY <1>0 DEF WebInv, WebTypeOK, Makes, Forgotten
<1>3. table' \subseteq [sid : Sessions, agent : 1..made'] /\ new \notin Without(Victims)
  <2>1. new \in [sid : Sessions, agent : 1..made']
    BY <1>0
  <2>2. \A e \in table : e.sid \in Sessions /\ e.agent \in 1..made'
    BY <1>0
  <2>3. \A e \in table : e.sid # s
    BY <1>0 DEF Listed
  <2> QED
    BY <1>0, <2>1, <2>2, <2>3, DroppedTable
<1>4. IsFiniteSet(table') /\ Cardinality(table') <= MaxAgents
  <2>1. IsFiniteSet(Without(Victims)) /\ Cardinality(Without(Victims)) \in Nat
    BY DroppedTable, FS_CardinalityType
  <2>2. IsFiniteSet(table') /\ Cardinality(table') = Cardinality(Without(Victims)) + 1
    BY <1>0, <1>3, <2>1, FS_AddElement
  <2> QED
    BY <2>1, <2>2, RoomForOne, WebAssumption
<1>5. \A d, e \in table' : d.sid = e.sid => d = e
  <2>1. \A e \in Without(Victims) : e.sid # s
    BY <1>0, DroppedTable DEF Listed
  <2> QED
    BY <1>0, <2>1, DroppedTable
<1>6. closed' \subseteq 1..made'
  BY <1>0, DroppedClosed, VictimsListed DEF Makes
<1>7. Kept'
  <2>1. SUFFICES ASSUME NEW a \in 1..made' PROVE a \in closed' \/ \E e \in table' : e.agent = a
    BY DEF Kept
  <2>2. CASE a \in 1..made
    BY <1>0, <2>2, DroppedClosed, VictimsListed DEF Makes
  <2>3. CASE a = made + 1
    <3>1. new \in table' /\ new.agent = made + 1
      BY <1>0
    <3> QED
      BY <2>3, <3>1
  <2> QED
    BY <1>0, <2>2, <2>3
<1>8. s \in Listed'
  BY <1>0 DEF Listed
<1> QED
  BY <1>0, <1>1, <1>2, <1>3, <1>4, <1>5, <1>6, <1>7, <1>8 DEF TableInv, Orderly

-----------------------------------------------------------------------------
(* What the steps do to the requests. *)

\* A request when m agents and k locks have been made.
Row(m, k) ==
    [from : Sockets \union {Http}, sid : Sessions, agent : 1..m, lock : 0..k,
     at : {"queued", "found", "leased", "running", "ended", "refused"}]

\* What is known of the requests in a state.
LEMMA RowsNow ==
    ASSUME WebTypeOK
    PROVE  /\ requests \in Seq(Row(made, locks)) /\ Len(requests) \in Nat
           /\ DOMAIN requests = 1..Len(requests)
           /\ \A i \in DOMAIN requests : requests[i] \in Row(made, locks)
<1>1. requests \in Seq(Row(made, locks))
  BY DEF WebTypeOK, Row
<1> QED
  BY <1>1, LenProperties, ElementOfSeq

LEMMA RowsGrow ==
    ASSUME WebTypeOK, NEW m \in Nat, NEW k \in Nat, made <= m, locks <= k
    PROVE  requests \in Seq(Row(m, k)) /\ Row(made, locks) \subseteq Row(m, k)
<1>1. made \in Nat /\ locks \in Nat
  BY WebAssumption DEF WebTypeOK
<1>2. Row(made, locks) \subseteq Row(m, k)
  <2>1. 1..made \subseteq 1..m /\ 0..locks \subseteq 0..k
    BY <1>1
  <2> QED
    BY <2>1 DEF Row
<1> QED
  BY <1>2, RowsNow, SeqMonotonic

\* A step of a thread changes its own request.
Changed(i, l, place) == [requests EXCEPT ![i].lock = l, ![i].at = place]

LEMMA RowChanges ==
    ASSUME WebTypeOK, NEW i \in DOMAIN requests, NEW k \in Nat, locks <= k,
           NEW l \in 0..k, NEW place \in {"queued", "found", "leased", "running", "ended", "refused"},
           requests' = Changed(i, l, place)
    PROVE  /\ requests' \in Seq(Row(made, k))
           /\ DOMAIN requests' = DOMAIN requests
           /\ \A j \in DOMAIN requests : j # i => requests'[j] = requests[j]
           /\ requests'[i].at = place /\ requests'[i].lock = l
           /\ requests'[i].agent = requests[i].agent /\ requests'[i].sid = requests[i].sid
<1>0. made \in Nat
  BY WebAssumption DEF WebTypeOK
<1>1. requests \in Seq(Row(made, k)) /\ requests[i] \in Row(made, k) /\ i \in 1..Len(requests)
  BY <1>0, RowsGrow, RowsNow
<1> DEFINE r == [requests[i] EXCEPT !.lock = l, !.at = place]
<1>2. /\ r \in Row(made, k) /\ r.at = place /\ r.lock = l
      /\ r.agent = requests[i].agent /\ r.sid = requests[i].sid
  BY <1>1 DEF Row
<1>3. requests' = [requests EXCEPT ![i] = r]
  BY <1>1 DEF Row, Changed
<1> HIDE DEF r
<1>4. /\ [requests EXCEPT ![i] = r] \in Seq(Row(made, k))
      /\ Len([requests EXCEPT ![i] = r]) = Len(requests)
      /\ \A j \in 1..Len(requests) : [requests EXCEPT ![i] = r][j] = IF j = i THEN r ELSE requests[j]
  BY <1>1, <1>2, ExceptSeq
<1>5. DOMAIN requests' = DOMAIN requests
  BY <1>3
<1>6. DOMAIN requests = 1..Len(requests)
  BY RowsNow
<1> QED
  BY <1>1, <1>2, <1>3, <1>4, <1>5, <1>6

\* The same, when only the place of the request changes.
LEMMA MoveChanges ==
    ASSUME WebTypeOK, NEW i \in DOMAIN requests,
           NEW place \in {"queued", "found", "leased", "running", "ended", "refused"}, Moves(i, place)
    PROVE  /\ requests' \in Seq(Row(made, locks))
           /\ DOMAIN requests' = DOMAIN requests
           /\ \A j \in DOMAIN requests : j # i => requests'[j] = requests[j]
           /\ requests'[i].at = place /\ requests'[i].lock = requests[i].lock
           /\ requests'[i].agent = requests[i].agent /\ requests'[i].sid = requests[i].sid
<1>1. requests[i] \in Row(made, locks) /\ locks \in Nat
  BY RowsNow DEF WebTypeOK
<1>2. requests[i].lock \in 0..locks /\ locks <= locks
  BY <1>1 DEF Row
<1>3. requests' = Changed(i, requests[i].lock, place)
  BY <1>1 DEF Moves, Row, Changed
<1> QED
  BY <1>1, <1>2, <1>3, RowChanges

\* A new request comes last.
LEMMA AppendChanges ==
    ASSUME WebTypeOK, NEW m \in Nat, NEW k \in Nat, made <= m, locks <= k,
           NEW r \in Row(m, k), requests' = Append(requests, r)
    PROVE  /\ requests' \in Seq(Row(m, k))
           /\ DOMAIN requests' = DOMAIN requests \union {Len(requests) + 1}
           /\ \A j \in DOMAIN requests : requests'[j] = requests[j]
           /\ requests'[Len(requests) + 1] = r
<1>1. requests \in Seq(Row(m, k)) /\ Len(requests) \in Nat /\ DOMAIN requests = 1..Len(requests)
  BY RowsGrow, RowsNow
<1>2. /\ requests' \in Seq(Row(m, k)) /\ DOMAIN requests' = 1..(Len(requests) + 1)
      /\ \A j \in 1..Len(requests) : requests'[j] = requests[j]
      /\ requests'[Len(requests) + 1] = r
  BY <1>1
<1> QED
  BY <1>1, <1>2

-----------------------------------------------------------------------------
(* The steps keep the invariant. *)

\* No turn starts or ends when the requests there are stay as they are.
LEMMA QuietTurns ==
    ASSUME WebInv, DOMAIN requests \subseteq DOMAIN requests',
           \A j \in DOMAIN requests : requests'[j] = requests[j],
           \A j \in DOMAIN requests' \ DOMAIN requests : requests'[j].at = "queued",
           UNCHANGED <<running, held>>,
           \A s \in Sessions : busy'[s] = "yes" => busy[s] = "yes"
    PROVE  HasLock' /\ Claimed' /\ OneTurnPerAgent' /\ BusyEnds'
<1>1. \A j \in DOMAIN requests' : requests'[j].at = "running" => j \in DOMAIN requests
  OBVIOUS
<1>2. Claimed' /\ HasLock'
  BY <1>1 DEF WebInv, Claimed, HasLock
<1>3. OneTurnPerAgent'
  BY <1>1 DEF WebInv, OneTurnPerAgent
<1>4. \A s \in Sessions : busy'[s] = "yes" =>
          \E i \in DOMAIN requests' : requests'[i].sid = s /\ requests'[i].at = "running"
  BY DEF WebInv, BusyEnds
<1>5. \A k \in held' : \E i \in DOMAIN requests' :
          requests'[i].lock = k /\ requests'[i].at \in {"leased", "running"}
  BY DEF WebInv, BusyEnds
<1> QED
  BY <1>2, <1>3, <1>4, <1>5 DEF BusyEnds

\* The handlers of the event loop.
LEMMA HandlersKeep ==
    ASSUME WebInv,
           \/ \E s \in Sessions : Touch(s) \/ TouchFails(s) \/ \E from \in Sockets \union {Http} : Submit(from, s)
           \/ \E c \in Sockets : \E s \in Sessions : NewChat(c, s)
           \/ Shutdown
    PROVE  WebInv'
<1> USE DEF WebInv
<1>0. WebTypeOK /\ locks \in Nat /\ made \in Nat
  BY WebAssumption DEF WebTypeOK
\* What is left to show when the table is in order and the requests are as they were.
<1>1. ASSUME TableInv', made' >= made, locks' >= locks, UNCHANGED <<held, running, cancelled, requests>>,
             socket' \in [Sockets -> [sid : Sessions, left : BOOLEAN]], up' \in BOOLEAN,
             \A s \in Sessions : busy'[s] = "yes" => busy[s] = "yes"
      PROVE  WebInv'
  <2>1. HasLock' /\ Claimed' /\ OneTurnPerAgent' /\ BusyEnds'
    BY <1>1, QuietTurns
  <2>2. made' \in Nat /\ locks' \in Nat
    BY <1>1, WebAssumption DEF TableInv
  <2>3. requests' \in Seq(Row(made', locks'))
    BY <1>0, <1>1, <2>2, RowsGrow
  <2>4. running' \subseteq 1..made' /\ cancelled' \subseteq 1..made' /\ held' \subseteq 1..locks'
    BY <1>0, <1>1, <2>2 DEF WebTypeOK
  <2>5. WebTypeOK'
    BY <1>1, <2>2, <2>3, <2>4 DEF WebTypeOK, TableInv, Row
  <2> QED
    BY <1>1, <2>1, <2>5 DEF TableInv
<1>2. ASSUME NEW s \in Sessions, Touch(s)
      PROVE  WebInv'
  <2>1. Makes(s)
    BY <1>2 DEF Touch, Gets, Finds
  <2>2. socket' = socket /\ up' = up /\ UNCHANGED <<held, running, cancelled, requests>>
    BY <1>2 DEF Touch
  <2> QED
    BY <1>0, <1>1, <2>1, <2>2, MakeKeepsTable DEF WebTypeOK
<1>3. ASSUME NEW s \in Sessions, TouchFails(s)
      PROVE  WebInv'
  <2>1. /\ TableInv' /\ made' = made /\ locks' = locks
        /\ \A t \in Sessions : busy'[t] = "yes" => busy[t] = "yes"
    BY <1>3, VictimsListed, ForgottenMarks, DropKeepsTable DEF TouchFails, Fails
  <2>2. socket' = socket /\ up' = up /\ UNCHANGED <<held, running, cancelled, requests>>
    BY <1>3 DEF TouchFails
  <2> QED
    BY <1>0, <1>1, <2>1, <2>2 DEF WebTypeOK
<1>4. ASSUME NEW c \in Sockets, NEW s \in Sessions, NewChat(c, s)
      PROVE  WebInv'
  <2> DEFINE old == {socket[c].sid} \intersect Listed
  <2>1. /\ TableInv' /\ made' = made /\ locks' = locks
        /\ \A t \in Sessions : busy'[t] = "yes" => busy[t] = "yes"
    <3>1. old \in SUBSET Listed /\ table' = Without(old) /\ closed' = ClosedWith(old)
          /\ busy' = Forgotten(busy, old, "none") /\ lockOf' = Forgotten(lockOf, old, 0)
          /\ made' = made /\ locks' = locks
      BY <1>4 DEF NewChat
    <3> HIDE DEF old
    <3> QED
      BY <3>1, ForgottenMarks, DropKeepsTable
  <2>2. up' = up /\ UNCHANGED <<held, running, cancelled, requests>>
    BY <1>4 DEF NewChat
  <2>3. socket' \in [Sockets -> [sid : Sessions, left : BOOLEAN]]
    BY <1>0, <1>4 DEF NewChat, WebTypeOK
  <2>4. made' >= made /\ locks' >= locks /\ up' \in BOOLEAN
    BY <1>0, <2>1, <2>2 DEF WebTypeOK
  <2> QED
    BY <1>1, <2>1, <2>2, <2>3, <2>4
<1>5. CASE Shutdown
  <2>1. /\ TableInv' /\ made' = made /\ locks' = locks
        /\ \A t \in Sessions : busy'[t] = "yes" => busy[t] = "yes"
    <3>1. Without(Listed) = {}
      BY DEF Without, Listed
    <3>2. 0 \in 0..locks
      BY <1>0
    <3>3. [s \in Sessions |-> "none"] \in [Sessions -> {"none", "no", "yes"}]
          /\ [s \in Sessions |-> 0] \in [Sessions -> 0..locks]
      BY <3>2
    <3> QED
      BY <3>1, <3>3, <1>5, DropKeepsTable DEF Shutdown
  <2>2. up' \in BOOLEAN /\ socket' = socket /\ UNCHANGED <<held, running, cancelled, requests>>
    BY <1>5 DEF Shutdown
  <2> QED
    BY <1>0, <1>1, <2>1, <2>2 DEF WebTypeOK
<1>6. ASSUME NEW s \in Sessions, NEW from \in Sockets \union {Http}, Submit(from, s)
      PROVE  WebInv'
  <2> DEFINE new == [from |-> from, sid |-> s, agent |-> AgentOf(s)', lock |-> 0, at |-> "queued"]
  <2>1. /\ TableInv' /\ made' >= made /\ locks' >= locks /\ s \in Listed'
        /\ \A t \in Sessions : busy'[t] = "yes" => busy[t] = "yes"
    <3>1. CASE Makes(s)
      BY <3>1, MakeKeepsTable
    <3>2. CASE Finds(s)
      <4>1. UNCHANGED <<table, made, closed, busy, lockOf, locks>> /\ s \in Listed
        BY <3>2 DEF Finds
      <4>2. TableInv
        BY TableNow
      <4>3. TableInv' /\ Listed' = Listed
        BY <4>1, <4>2 DEF TableInv, Orderly, Kept, Listed
      <4> QED
        BY <1>0, <4>1, <4>3
    <3> QED
      BY <1>6, <3>1, <3>2 DEF Submit, Gets
  <2>2. /\ socket' = socket /\ up' = up /\ UNCHANGED <<held, running, cancelled>>
        /\ requests' = Append(requests, new)
    BY <1>6 DEF Submit
  <2>3. made' \in Nat /\ locks' \in Nat
    BY <2>1, WebAssumption DEF TableInv
  <2>4. AgentOf(s)' \in 1..made'
    <3>1. PICK e \in table' : e.sid = s
      BY <2>1 DEF Listed
    <3>2. (CHOOSE x \in table' : x.sid = s) \in table'
      BY <3>1
    <3> QED
      BY <2>1, <3>2 DEF AgentOf, TableInv
  <2>5. new \in Row(made', locks') /\ new.at = "queued"
    BY <2>3, <2>4 DEF Row
  <2> HIDE DEF new
  <2>6. PICK m \in Nat, k \in Nat : m = made' /\ k = locks'
    BY <2>3
  <2>7. PICK r : r = new
    OBVIOUS
  <2>8. /\ requests' \in Seq(Row(m, k))
        /\ DOMAIN requests' = DOMAIN requests \union {Len(requests) + 1}
        /\ \A j \in DOMAIN requests : requests'[j] = requests[j]
        /\ requests'[Len(requests) + 1] = r
    <3>1. made <= m /\ locks <= k /\ r \in Row(m, k) /\ requests' = Append(requests, r)
      BY <1>0, <2>1, <2>2, <2>5, <2>6, <2>7
    <3> QED
      BY <1>0, <3>1, AppendChanges
  <2>9. HasLock' /\ Claimed' /\ OneTurnPerAgent' /\ BusyEnds'
    BY <2>1, <2>2, <2>5, <2>7, <2>8, QuietTurns
  <2>10. running' \subseteq 1..made' /\ cancelled' \subseteq 1..made' /\ held' \subseteq 1..locks'
    BY <1>0, <2>1, <2>2, <2>3 DEF WebTypeOK
  <2>11. WebTypeOK'
    BY <1>0, <2>1, <2>2, <2>3, <2>6, <2>8, <2>10 DEF WebTypeOK, TableInv, Row
  <2> QED
    BY <2>1, <2>9, <2>11 DEF TableInv
<1> QED
  BY <1>2, <1>3, <1>4, <1>5, <1>6

\* A step that leaves the table alone keeps what is said of it, when the
\* marks keep their shape.
LEMMA TableStays ==
    ASSUME WebInv, UNCHANGED <<table, made, closed>>
    PROVE  Orderly' /\ Kept'
BY DEF WebInv, Orderly, Kept

\* The connections: no agent, lock or turn is touched.
LEMMA ConnectionsKeep ==
    ASSUME WebInv, NEW c \in Sockets, Leave(c) \/ Notice(c) \/ \E s \in Sessions : SetSession(c, s)
    PROVE  WebInv'
<1>1. UNCHANGED <<table, made, closed, busy, lockOf, locks, held, running, requests, up>>
  BY DEF Leave, Notice, SetSession
<1>2. socket' \in [Sockets -> [sid : Sessions, left : BOOLEAN]]
  BY DEF Leave, Notice, SetSession, WebInv, WebTypeOK
<1>3. cancelled' \subseteq 1..made
  <2>1. CASE cancelled' = cancelled
    BY <2>1 DEF WebInv, WebTypeOK
  <2>2. CASE Notice(c)
    BY <2>2, AgentOfListed DEF Notice, WebInv, WebTypeOK
  <2> QED
    BY <2>1, <2>2 DEF Leave, SetSession
<1>4. WebTypeOK'
  BY <1>1, <1>2, <1>3 DEF WebInv, WebTypeOK
<1>5. HasLock' /\ Claimed' /\ OneTurnPerAgent' /\ BusyEnds'
  BY <1>1, QuietTurns
<1> QED
  BY <1>1, <1>4, <1>5, TableStays DEF WebInv

\* The worker threads, one step each.
LEMMA FindLockKeeps ==
    ASSUME WebInv, NEW i \in DOMAIN requests, FindLock(i)
    PROVE  WebInv'
<1>1. /\ requests[i].at = "queued" /\ requests[i].sid \in Sessions /\ locks \in Nat
      /\ lockOf \in [Sessions -> 0..locks] /\ held \subseteq 1..locks /\ WebTypeOK
  BY RowsNow DEF FindLock, WebInv, WebTypeOK, Row
<1>2. PICK k \in 1..(locks + 1) :
          /\ lockOf' = [lockOf EXCEPT ![requests[i].sid] = k]
          /\ locks' = IF k > locks THEN k ELSE locks
          /\ requests' = Changed(i, k, "found")
  <2> DEFINE k == IF lockOf[requests[i].sid] = 0 THEN locks + 1 ELSE lockOf[requests[i].sid]
  <2>1. k \in 1..(locks + 1)
    BY <1>1
  <2>2. /\ lockOf' = [lockOf EXCEPT ![requests[i].sid] = k]
        /\ locks' = IF k > locks THEN k ELSE locks
        /\ requests' = Changed(i, k, "found")
    BY DEF FindLock, Changed
  <2> QED
    BY <2>1, <2>2
<1>3. /\ locks' \in Nat /\ locks <= locks' /\ k \in 0..locks'
      /\ UNCHANGED <<table, made, closed, busy, held, running, cancelled, socket, up>>
  BY <1>1, <1>2 DEF FindLock
<1>4. PICK n \in Nat : n = locks'
  BY <1>3
<1>5. /\ requests' \in Seq(Row(made, n))
      /\ DOMAIN requests' = DOMAIN requests
      /\ \A j \in DOMAIN requests : j # i => requests'[j] = requests[j]
      /\ requests'[i].at = "found" /\ requests'[i].lock = k
  <2>1. locks <= n /\ k \in 0..n
    BY <1>3, <1>4
  <2> QED
    BY <1>1, <1>2, <2>1, RowChanges
<1>6. lockOf' \in [Sessions -> 0..locks'] /\ held' \subseteq 1..locks'
  BY <1>1, <1>2, <1>3
<1>7. WebTypeOK'
  BY <1>1, <1>3, <1>4, <1>5, <1>6 DEF WebTypeOK, Row
<1>8. Claimed' /\ OneTurnPerAgent' /\ HasLock'
  <2>1. k # 0
    BY <1>1, <1>2
  <2> QED
    BY <1>3, <1>5, <2>1 DEF WebInv, Claimed, OneTurnPerAgent, HasLock
<1>9. BusyEnds'
  <2>1. BusyEnds /\ busy' = busy /\ held' = held
    BY <1>3 DEF WebInv
  <2>2. \A j \in DOMAIN requests : requests[j].at \in {"leased", "running"} =>
            j \in DOMAIN requests' /\ requests'[j] = requests[j]
    BY <1>1, <1>5
  <2>3. ASSUME NEW s \in Sessions, busy'[s] = "yes"
        PROVE  \E j \in DOMAIN requests' : requests'[j].sid = s /\ requests'[j].at = "running"
    <3>1. PICK j \in DOMAIN requests : requests[j].sid = s /\ requests[j].at = "running"
      BY <2>1, <2>3 DEF BusyEnds
    <3> QED
      BY <2>2, <3>1
  <2>4. ASSUME NEW l \in held'
        PROVE  \E j \in DOMAIN requests' : requests'[j].lock = l /\ requests'[j].at \in {"leased", "running"}
    <3>1. PICK j \in DOMAIN requests : requests[j].lock = l /\ requests[j].at \in {"leased", "running"}
      BY <2>1, <2>4 DEF BusyEnds
    <3> QED
      BY <2>2, <3>1
  <2> QED
    BY <2>3, <2>4 DEF BusyEnds
<1> QED
  BY <1>3, <1>7, <1>8, <1>9, TableStays DEF WebInv

\* What every other step of a thread does: its request moves.
LEMMA ThreadKeepsType ==
    ASSUME WebInv, NEW i \in DOMAIN requests, Lease(i) \/ StartTurn(i) \/ Refuse(i) \/ End(i)
    PROVE  WebTypeOK' /\ Orderly' /\ Kept'
<1>1. WebTypeOK /\ requests[i] \in Row(made, locks)
  BY RowsNow DEF WebInv
<1>2. PICK place \in {"refused", "leased", "running", "ended"} : Moves(i, place)
  BY DEF Lease, StartTurn, Refuse, End, ReleasedOn
<1>3. requests' \in Seq(Row(made, locks))
  BY <1>1, <1>2, MoveChanges
<1>4. UNCHANGED <<table, made, closed, lockOf, locks, socket, up>>
  BY DEF Lease, StartTurn, Refuse, End
<1>5. busy' \in [Sessions -> {"none", "no", "yes"}] /\ cancelled' \subseteq 1..made
  BY <1>1 DEF Lease, StartTurn, Refuse, End, ReleasedOn, WebTypeOK
<1>6. running' \subseteq 1..made
  <2>1. requests[i].agent \in 1..made /\ running \subseteq 1..made
    BY <1>1 DEF WebTypeOK, Row
  <2>2. running' \in {running, running \union {requests[i].agent}, running \ {requests[i].agent}}
    BY DEF Lease, StartTurn, Refuse, End
  <2> QED
    BY <2>1, <2>2
<1>7. held' \subseteq 1..locks
  <2>1. CASE held' \subseteq held
    BY <1>1, <2>1 DEF WebTypeOK
  <2>2. CASE Lease(i)
    <3>1. requests[i].lock \in 1..locks
      BY <1>1, <2>2 DEF Lease, WebInv, HasLock, Row
    <3> QED
      BY <1>1, <2>2, <3>1 DEF Lease, WebTypeOK
  <2> QED
    BY <2>1, <2>2 DEF StartTurn, Refuse, End, ReleasedOn
<1>8. WebTypeOK'
  BY <1>1, <1>3, <1>4, <1>5, <1>6, <1>7 DEF WebTypeOK, Row
<1> QED
  BY <1>4, <1>8, TableStays

\* The turns: an agent starts one only while its run lock is free, and what
\* ends gives back exactly what it had.
LEMMA ThreadKeepsTurns ==
    ASSUME WebInv, NEW i \in DOMAIN requests, Lease(i) \/ StartTurn(i) \/ Refuse(i) \/ End(i)
    PROVE  HasLock' /\ Claimed' /\ OneTurnPerAgent' /\ BusyEnds'
<1>0. /\ WebTypeOK /\ HasLock /\ Claimed /\ OneTurnPerAgent /\ BusyEnds
      /\ busy \in [Sessions -> {"none", "no", "yes"}] /\ requests[i].sid \in Sessions
  BY RowsNow DEF WebInv, WebTypeOK, Row
\* How the requests look afterwards.
<1>1. ASSUME NEW place \in {"queued", "found", "leased", "running", "ended", "refused"}, Moves(i, place)
      PROVE  /\ DOMAIN requests' = DOMAIN requests
             /\ \A j \in DOMAIN requests : j # i => requests'[j] = requests[j]
             /\ requests'[i].at = place /\ requests'[i].lock = requests[i].lock
             /\ requests'[i].agent = requests[i].agent /\ requests'[i].sid = requests[i].sid
  BY <1>0, <1>1, MoveChanges
<1>2. CASE Lease(i)
  <2>1. requests[i].at = "found" /\ UNCHANGED <<busy, running>>
    BY <1>2 DEF Lease
  <2>2. CASE requests[i].lock \in held /\ Moves(i, "refused") /\ held' = held
    <3>1. HasLock' /\ Claimed' /\ OneTurnPerAgent'
      BY <1>0, <1>1, <2>1, <2>2 DEF HasLock, Claimed, OneTurnPerAgent
    <3>2. BusyEnds'
      BY <1>0, <1>1, <2>1, <2>2 DEF BusyEnds
    <3> QED
      BY <3>1, <3>2
  <2>3. CASE Moves(i, "leased") /\ held' = held \union {requests[i].lock}
    <3>1. HasLock' /\ Claimed' /\ OneTurnPerAgent'
      BY <1>0, <1>1, <2>1, <2>3 DEF HasLock, Claimed, OneTurnPerAgent
    <3>2. BusyEnds'
      BY <1>0, <1>1, <2>1, <2>3 DEF BusyEnds
    <3> QED
      BY <3>1, <3>2
  <2> QED
    BY <1>2, <2>2, <2>3 DEF Lease
<1>3. CASE StartTurn(i)
  <2>1. /\ requests[i].at = "leased" /\ requests[i].agent \notin running
        /\ busy' = [busy EXCEPT ![requests[i].sid] = "yes"]
        /\ running' = running \union {requests[i].agent} /\ held' = held
        /\ Moves(i, "running")
    BY <1>3 DEF StartTurn, BusyAgent
  <2>2. HasLock' /\ Claimed'
    BY <1>0, <1>1, <2>1 DEF HasLock, Claimed
  <2>3. OneTurnPerAgent'
    BY <1>0, <1>1, <2>1 DEF Claimed, OneTurnPerAgent
  <2>4. BusyEnds'
    BY <1>0, <1>1, <2>1 DEF BusyEnds
  <2> QED
    BY <2>2, <2>3, <2>4
<1>4. CASE Refuse(i)
  <2>1. /\ requests[i].at = "leased" /\ running' = running
        /\ busy' = [busy EXCEPT ![requests[i].sid] = "no"]
        /\ held' = held \ {requests[i].lock}
        /\ Moves(i, "refused")
    BY <1>4 DEF Refuse, ReleasedOn
  <2>2. HasLock' /\ Claimed' /\ OneTurnPerAgent'
    BY <1>0, <1>1, <2>1 DEF HasLock, Claimed, OneTurnPerAgent
  <2>3. BusyEnds'
    BY <1>0, <1>1, <2>1 DEF BusyEnds
  <2> QED
    BY <2>2, <2>3
<1>5. CASE End(i)
  <2>1. /\ requests[i].at = "running" /\ running' = running \ {requests[i].agent}
        /\ busy' = [busy EXCEPT ![requests[i].sid] = "no"]
        /\ held' = held \ {requests[i].lock}
        /\ Moves(i, "ended")
    BY <1>5 DEF End
  <2>2. HasLock' /\ Claimed' /\ OneTurnPerAgent'
    BY <1>0, <1>1, <2>1 DEF HasLock, Claimed, OneTurnPerAgent
  <2>3. BusyEnds'
    BY <1>0, <1>1, <2>1 DEF BusyEnds
  <2> QED
    BY <2>2, <2>3
<1> QED
  BY <1>2, <1>3, <1>4, <1>5

-----------------------------------------------------------------------------
(* The theorems. *)

\* The invariant holds when the server starts.
LEMMA WebInvInit ==
    WebInit => WebInv
<1>1. SUFFICES ASSUME WebInit PROVE WebInv
  OBVIOUS
<1>2. WebTypeOK
  BY <1>1, WebAssumption DEF WebInit, WebTypeOK
<1>3. HasLock /\ Claimed /\ OneTurnPerAgent /\ BusyEnds /\ Kept
  BY <1>1 DEF WebInit, HasLock, Claimed, OneTurnPerAgent, BusyEnds, Kept
<1>4. Orderly
  BY <1>1, FS_EmptySet, WebAssumption DEF WebInit, Orderly
<1> QED
  BY <1>2, <1>3, <1>4 DEF WebInv

\* Every step keeps it.
LEMMA WebInvStep ==
    WebInv /\ [WebNext]_webVars => WebInv'
<1>1. SUFFICES ASSUME WebInv, [WebNext]_webVars PROVE WebInv'
  OBVIOUS
<1>2. CASE UNCHANGED webVars
  BY <1>1, <1>2 DEF webVars, WebInv, WebTypeOK, HasLock, Claimed, OneTurnPerAgent, BusyEnds, Orderly, Kept
<1>3. ASSUME NEW i \in DOMAIN requests, FindLock(i) \/ Lease(i) \/ StartTurn(i) \/ Refuse(i) \/ End(i)
      PROVE  WebInv'
  BY <1>1, <1>3, FindLockKeeps, ThreadKeepsType, ThreadKeepsTurns DEF WebInv
<1>4. ASSUME NEW c \in Sockets, Leave(c) \/ Notice(c) \/ \E s \in Sessions : SetSession(c, s)
      PROVE  WebInv'
  BY <1>1, <1>4, ConnectionsKeep
<1> QED
  BY <1>1, <1>2, <1>3, <1>4, HandlersKeep DEF WebNext

THEOREM WebInvHolds ==
    WebSpec => []WebInv
BY WebInvInit, WebInvStep, PTL DEF WebSpec

\* No agent ever works at two turns at once, however sessions, locks and
\* table entries are forgotten and made again while requests are on their
\* way; a session that is marked busy has a turn that will clear the mark,
\* and a lock that is held has a request that will release it; no agent is
\* lost from sight without being closed, and the table keeps within its
\* bound (server.py: _get_agent, _run_agent_locked, core.py: the run lock).
THEOREM WebSessionsSoundHolds ==
    WebSpec => []WebSessionsSound
<1>1. WebInv => WebSessionsSound
  BY DEF WebInv, WebSessionsSound, AgentsAccounted, Orderly, Kept
<1> QED
  BY <1>1, WebInvHolds, PTL

-----------------------------------------------------------------------------
(***************************************************************************)
(* SandboxedCommand: commands are contained.                               *)
(***************************************************************************)

RunPoints == {"off", "waiting", "grace", "reaping", "joining", "closing"}
FiredResults == [success : BOOLEAN, blocked : BOOLEAN, policy : Policies]
Services ==
    [process : {"none", "live", "dead"}, kind : {"plain", "stubborn", "unkillable"}, made : BOOLEAN,
     registered : BOOLEAN, finalized : BOOLEAN, profile : BOOLEAN, lock : Threads \union {"free"},
     at : [Threads -> {"idle", "terminating", "killing", "killed"}],
     exit : {"no", "taken", "termed", "done"}, taken : BOOLEAN, failed : BOOLEAN]

\* The shape of the state.
RunTypes ==
    /\ backend \in Backends /\ hooks \in Seq(HookRecords) /\ fired \in Seq(FiredResults)
    /\ op.command \in Commands /\ op.before # "own" /\ op.after # "own"
    /\ at \in Nat \ {0} /\ runPc \in RunPoints /\ cmd \in Commands
    /\ leader \in {"none", "live", "gone"} /\ code \in {"none", "zero", "nonzero", "signal"}
    /\ child \in BOOLEAN /\ late \in BOOLEAN /\ stuck \in BOOLEAN
    /\ reader \in [Streams -> {"reading", "draining", "done"}]

\* What is left of an operation: nothing, or the rest of its three parts and of what follows a
\* command that failed.
OperationShape ==
    \/ todo = <<>>
    \/ todo = <<op.before, "own", op.after>>
    \/ todo = <<"own", op.after>>
    \/ todo = <<op.after>>
    \/ todo = <<op.after, "on_error">>
    \/ todo = <<"on_error">>

\* A blocking hook before the operation has blocked it once fire has passed it.
Blocks(h) == h.kind = "block" /\ h.enabled /\ op.before \in h.events
HooksHeard ==
    /\ OperationShape
    /\ runPc # "off" => todo # <<>>
    /\ runPc # "off" /\ Head(todo) # "own" => at \in DOMAIN hooks /\ hooks[at].kind = "shell"
    /\ todo = <<op.before, "own", op.after>> =>
           \A i \in DOMAIN hooks : i < at /\ Blocks(hooks[i]) => Blocked
    /\ BlockedStaysOut

\* The process and its profile, where run stands.
ProcessFollowed ==
    /\ NothingLeft /\ SuccessIsEarned
    /\ runPc \in {"joining", "closing"} => leader = "gone"
    /\ runPc # "off" =>
           /\ profiles = ProfileOf(cmd)
           /\ CommandOf[cmd].isolation = "required" => backend # "unisolated"

\* The service that is registered is the one that was made.
ServiceKept ==
    /\ service \in Services /\ ServicesFollowed
    /\ service.made => service.process # "none"

SandboxInv == RunTypes /\ HooksHeard /\ ProcessFollowed /\ ServiceKept

-----------------------------------------------------------------------------
\* What Head, Tail and concatenation make of a short sequence.
LEMMA ShortSequences ==
    ASSUME NEW a, NEW b, NEW c
    PROVE  /\ Len(<<a, b, c>>) = 3 /\ Head(<<a, b, c>>) = a /\ Tail(<<a, b, c>>) = <<b, c>>
           /\ Len(<<a, b>>) = 2 /\ Head(<<a, b>>) = a /\ Tail(<<a, b>>) = <<b>>
           /\ Len(<<a>>) = 1 /\ Head(<<a>>) = a /\ Tail(<<a>>) = <<>>
           /\ <<a>> \o <<>> = <<a>>
           /\ <<a, b, c>> # <<>> /\ <<a, b>> # <<>> /\ <<a>> # <<>>
           /\ <<a, b, c>>[2] = b /\ <<a, b>>[2] = b
<1>1. /\ Len(<<a, b, c>>) = 3 /\ Head(<<a, b, c>>) = a
      /\ Len(<<a, b>>) = 2 /\ Head(<<a, b>>) = a
      /\ Len(<<a>>) = 1 /\ Head(<<a>>) = a
      /\ <<a, b, c>>[2] = b /\ <<a, b>>[2] = b
  OBVIOUS
<1>2. <<a, b, c>> # <<>> /\ <<a, b>> # <<>> /\ <<a>> # <<>>
  BY Len(<<a, b, c>>) # Len(<<>>), Len(<<a, b>>) # Len(<<>>), Len(<<a>>) # Len(<<>>)
<1>3. Tail(<<a, b, c>>) = <<b, c>>
  OBVIOUS
<1>4. Tail(<<a, b>>) = <<b>>
  OBVIOUS
<1>5. Tail(<<a>>) = <<>>
  OBVIOUS
<1>6. <<a>> \o <<>> = <<a>>
  OBVIOUS
<1> QED BY <1>1, <1>2, <1>3, <1>4, <1>5, <1>6

LEMMA OneAndOne ==
    ASSUME NEW a, NEW b
    PROVE  <<a>> \o <<b>> = <<a, b>>
<1> DEFINE s == <<a>> \o <<b>>
<1>0. <<a>> \in Seq({a, b}) /\ <<b>> \in Seq({a, b}) /\ Len(<<a>>) = 1 /\ Len(<<b>>) = 1
  OBVIOUS
<1>1. s \in Seq({a, b}) /\ <<a, b>> \in Seq({a, b}) /\ Len(s) = 2 /\ Len(<<a, b>>) = 2
  <2>1. <<a, b>> \in Seq({a, b}) /\ Len(<<a, b>>) = 2
    OBVIOUS
  <2>2. s \in Seq({a, b}) /\ Len(s) = Len(<<a>>) + Len(<<b>>)
    BY <1>0, ConcatProperties
  <2> QED BY <1>0, <2>1, <2>2
<1>2. s[1] = a /\ s[2] = b
  OBVIOUS
<1> HIDE DEF s
<1>3. \A i \in 1..Len(s) : s[i] = <<a, b>>[i]
  BY <1>1, <1>2
<1>4. s = <<a, b>>
  BY <1>1, <1>3, SeqEqual
<1> QED BY <1>4 DEF s

\* Where an operation stands, its next part, and what follows.
LEMMA OperationParts ==
    ASSUME OperationShape, todo # <<>>, op.before # "own", op.after # "own"
    PROVE  /\ Head(todo) = "own" => todo = <<"own", op.after>> /\ Tail(todo) = <<op.after>>
           /\ Head(todo) # "own" =>
                  \/ /\ todo = <<op.before, "own", op.after>> /\ Tail(todo) = <<"own", op.after>>
                     /\ Len(todo) = 3 /\ todo[2] = "own"
                  \/ todo = <<op.after>> /\ Tail(todo) = <<>> /\ Len(todo) = 1
                  \/ /\ todo = <<op.after, "on_error">> /\ Tail(todo) = <<"on_error">>
                     /\ Len(todo) = 2 /\ todo[2] = "on_error"
                  \/ todo = <<"on_error">> /\ Tail(todo) = <<>> /\ Len(todo) = 1
<1>1. CASE todo = <<op.before, "own", op.after>>
  BY <1>1, ShortSequences
<1>2. CASE todo = <<"own", op.after>>
  BY <1>2, ShortSequences
<1>3. CASE todo = <<op.after>>
  BY <1>3, ShortSequences
<1>4. CASE todo = <<op.after, "on_error">>
  BY <1>4, ShortSequences
<1>5. CASE todo = <<"on_error">>
  BY <1>5, ShortSequences
<1> QED BY <1>1, <1>2, <1>3, <1>4, <1>5 DEF OperationShape

\* A result collected is one more; what has blocked, blocks.
LEMMA ResultCollected ==
    ASSUME fired \in Seq(FiredResults), NEW e \in FiredResults, fired' = Append(fired, e)
    PROVE  /\ fired' \in Seq(FiredResults) /\ Blocked => Blocked'
           /\ e.blocked => Blocked'
<1>1. /\ fired' \in Seq(FiredResults) /\ Len(fired') = Len(fired) + 1 /\ Len(fired) \in Nat
      /\ fired'[Len(fired) + 1] = e
      /\ \A i \in DOMAIN fired : fired'[i] = fired[i] /\ i \in DOMAIN fired'
  OBVIOUS
<1>2. Len(fired) + 1 \in DOMAIN fired'
  BY <1>1
<1> QED BY <1>1, <1>2 DEF Blocked

-----------------------------------------------------------------------------
\* Steps that leave the operation alone.
LEMMA HooksStay ==
    ASSUME HooksHeard, UNCHANGED <<op, todo, at, fired, hooks>>, runPc' # "off" => runPc # "off"
    PROVE  HooksHeard'
BY DEF HooksHeard, OperationShape, Blocks, Blocked, BlockedStaysOut

\* The caller goes on with a result.
LEMMA AnswerHeard ==
    ASSUME RunTypes, HooksHeard, NEW r, r.success \in BOOLEAN, todo # <<>>,
           Head(todo) # "own" => at \in DOMAIN hooks /\ hooks[at].kind = "shell",
           Answered(r), UNCHANGED <<op, hooks>>
    PROVE  HooksHeard' /\ fired' \in Seq(FiredResults) /\ at' \in Nat \ {0} /\ runPc' = "off"
<1>1. runPc' = "off" /\ op' = op /\ hooks' = hooks
  BY DEF Answered
<1>2. OperationShape /\ op.before # "own" /\ op.after # "own" /\ at \in Nat \ {0}
      /\ fired \in Seq(FiredResults) /\ hooks \in Seq(HookRecords)
  BY DEF RunTypes, HooksHeard
<1>3. CASE Head(todo) = "own"
  <2>1. Tail(todo) = <<op.after>> /\ UNCHANGED <<fired, at>>
        /\ todo' = Tail(todo) \o (IF r.success THEN <<>> ELSE <<"on_error">>)
    BY <1>2, <1>3, OperationParts DEF Answered
  <2>2. todo' = <<op.after>> \/ todo' = <<op.after, "on_error">>
    <3>1. CASE r.success
      BY <2>1, <3>1, ShortSequences
    <3>2. CASE ~r.success
      <4>1. <<op.after>> \o <<"on_error">> = <<op.after, "on_error">>
        BY OneAndOne, Zenon
      <4> QED BY <2>1, <3>2, <4>1
    <3> QED BY <3>1, <3>2
  <2>3. Head(todo') = op.after /\ todo' # <<op.before, "own", op.after>>
    BY <2>2, ShortSequences
  <2>4. OperationShape'
    BY <2>2, <1>1 DEF OperationShape
  <2> QED BY <1>1, <1>2, <2>1, <2>3, <2>4 DEF HooksHeard, BlockedStaysOut
<1>4. CASE Head(todo) # "own"
  <2> DEFINE e == [success |-> r.success, blocked |-> FALSE, policy |-> hooks[at].policy]
  <2>1. fired' = Append(fired, e) /\ at' = at + 1 /\ todo' = todo
    BY <1>4 DEF Answered
  <2>2. at \in DOMAIN hooks /\ hooks[at] \in HookRecords /\ hooks[at].kind = "shell"
    BY <1>2, <1>4
  <2>3. e \in FiredResults
    BY <2>2 DEF FiredResults, HookRecords
  <2> HIDE DEF e
  <2>4. fired' \in Seq(FiredResults) /\ (Blocked => Blocked')
    BY <1>2, <2>1, <2>3, ResultCollected
  <2>5. ASSUME todo' = <<op.before, "own", op.after>>, NEW i \in DOMAIN hooks, i < at + 1, Blocks(hooks[i])
        PROVE  Blocked'
    <3>1. i # at
      BY <2>2, <2>5 DEF Blocks
    <3>2. i < at
      BY <3>1, <2>5, <1>2
    <3>3. Blocked
      BY <3>2, <2>1, <2>5 DEF HooksHeard
    <3> QED BY <3>3, <2>4
  <2>6. OperationShape' /\ BlockedStaysOut'
    BY <1>1, <1>2, <1>4, <2>1 DEF OperationShape, BlockedStaysOut
  <2>7. \A i \in DOMAIN hooks : Blocks(hooks[i])' <=> Blocks(hooks[i])
    BY <1>1 DEF Blocks
  <2> QED BY <1>1, <1>2, <2>1, <2>4, <2>5, <2>6, <2>7 DEF HooksHeard
<1> QED BY <1>3, <1>4

\* A result of a command that was not run is no success, and the caller goes on with it.
LEMMA NotRunFails ==
    ASSUME NEW k, NEW x
    PROVE  NotRun(k).success = FALSE /\ [NotRun(k) EXCEPT !.enforced = x].success = FALSE
BY DEF NotRun

\* The command is refused, cannot be started or runs.
LEMMA StartFollowed ==
    ASSUME RunTypes, HooksHeard, ProcessFollowed, NEW c \in Commands, StartCommand(c), todo # <<>>,
           Head(todo) # "own" => at \in DOMAIN hooks /\ hooks[at].kind = "shell",
           UNCHANGED <<hooks, backend>>
    PROVE  RunTypes' /\ HooksHeard' /\ ProcessFollowed'
<1>1. runPc = "off" /\ op' = op /\ hooks' = hooks /\ backend' = backend
  BY DEF StartCommand
<1>2. ASSUME NEW r, Answered(r), r.success = FALSE,
             UNCHANGED <<cmd, leader, code, child, reader, cut, late, stuck, profiles>>
      PROVE  RunTypes' /\ HooksHeard' /\ ProcessFollowed'
  <2>1. HooksHeard' /\ fired' \in Seq(FiredResults) /\ at' \in Nat \ {0} /\ runPc' = "off"
    <3>1. r.success \in BOOLEAN
      BY <1>2, Zenon
    <3> QED BY <1>1, <1>2, <3>1, AnswerHeard
  <2>2. RunTypes'
    BY <1>1, <1>2, <2>1 DEF RunTypes, RunPoints
  <2>3. last' = r
    BY <1>2 DEF Answered
  <2> QED BY <1>1, <1>2, <2>1, <2>2, <2>3 DEF ProcessFollowed, NothingLeft, SuccessIsEarned, Reading
<1>3. CASE Prepared(c) # "ready" /\ Answered(NotRun(Prepared(c)))
           /\ UNCHANGED <<cmd, leader, code, child, reader, cut, late, stuck, profiles>>
  BY <1>2, <1>3, NotRunFails
<1>4. CASE Answered([NotRun("error") EXCEPT !.enforced = backend # "unisolated"])
           /\ UNCHANGED <<cmd, leader, code, child, reader, cut, late, stuck, profiles>>
  BY <1>2, <1>4, NotRunFails
<1>5. CASE /\ Prepared(c) = "ready"
           /\ runPc' = "waiting" /\ cmd' = c
           /\ leader' = "live" /\ code' = "none" /\ child' = (CommandOf[c].child # "none")
           /\ reader' = [s \in Streams |-> "reading"] /\ cut' = {}
           /\ late' = FALSE /\ stuck' = FALSE /\ profiles' = ProfileOf(c)
           /\ UNCHANGED <<todo, at, fired, last>>
  <2>1. RunTypes'
    BY <1>1, <1>5 DEF RunTypes, RunPoints
  <2>2. HooksHeard'
    BY <1>1, <1>5 DEF HooksHeard, OperationShape, Blocks, Blocked, BlockedStaysOut
  <2>3. CommandOf[c].isolation = "required" => backend # "unisolated"
    BY <1>5 DEF Prepared
  <2>4. profiles' = ProfileOf(cmd)'
    BY <1>1, <1>5 DEF ProfileOf, Wrapped
  <2> QED BY <1>1, <1>5, <2>1, <2>2, <2>3, <2>4 DEF ProcessFollowed, NothingLeft, SuccessIsEarned
<1> QED BY <1>1, <1>3, <1>4, <1>5 DEF StartCommand

\* Steps of the process and its readers, while the operation waits.
LEMMA ProcessStep ==
    ASSUME RunTypes, HooksHeard, ProcessFollowed, UNCHANGED <<hooks, backend>>,
           \/ WaitReturns \/ TimesOut \/ GraceEnds \/ ReadersStuck
           \/ \E s \in Streams : ReaderEnds(s) \/ Overflows(s)
           \/ \E x \in {"zero", "nonzero"} : LeaderExits(x)
           \/ ChildEnds
    PROVE  RunTypes' /\ HooksHeard' /\ ProcessFollowed'
<1> USE DEF RunTypes, RunPoints, ProcessFollowed, NothingLeft, SuccessIsEarned, ProfileOf, Wrapped
<1>1. CASE WaitReturns
  BY <1>1, HooksStay DEF WaitReturns, Reading
<1>2. CASE TimesOut
  BY <1>2, HooksStay DEF TimesOut, Terminated, LeaderAfterTerm, CodeAfterTerm, ChildAfterTerm
<1>3. CASE GraceEnds
  BY <1>3, HooksStay DEF GraceEnds
<1>4. CASE ReadersStuck
  BY <1>4, HooksStay DEF ReadersStuck, Terminated, LeaderAfterTerm, CodeAfterTerm, ChildAfterTerm
<1>5. ASSUME NEW s \in Streams, ReaderEnds(s)
      PROVE  RunTypes' /\ HooksHeard' /\ ProcessFollowed'
  BY <1>5, HooksStay DEF ReaderEnds, Reading
<1>6. ASSUME NEW s \in Streams, Overflows(s)
      PROVE  RunTypes' /\ HooksHeard' /\ ProcessFollowed'
  BY <1>6, HooksStay DEF Overflows, Terminated, LeaderAfterTerm, CodeAfterTerm, ChildAfterTerm, Reading
<1>7. ASSUME NEW x \in {"zero", "nonzero"}, LeaderExits(x)
      PROVE  RunTypes' /\ HooksHeard' /\ ProcessFollowed'
  BY <1>7, HooksStay DEF LeaderExits
<1>8. CASE ChildEnds
  BY <1>8, HooksStay DEF ChildEnds, Reading
<1> QED BY <1>1, <1>2, <1>3, <1>4, <1>5, <1>6, <1>7, <1>8

\* run returns, and the caller goes on.
LEMMA ReturnStep ==
    ASSUME RunTypes, HooksHeard, ProcessFollowed, UNCHANGED <<hooks, backend>>, Returns
    PROVE  RunTypes' /\ HooksHeard' /\ ProcessFollowed'
<1>1. runPc # "off" /\ leader = "gone" /\ ~Reading /\ profiles' = 0 /\ Answered(Result)
      /\ UNCHANGED <<op, cmd, leader, code, child, reader, cut, late, stuck, operations>>
  BY DEF Returns, ProcessFollowed
<1>2. Result.success = Succeeded /\ Result.kind = "ran" /\ Result.timedOut = late
  BY DEF Result
<1>3. Succeeded \in BOOLEAN
  BY DEF Succeeded
<1>4. HooksHeard' /\ fired' \in Seq(FiredResults) /\ at' \in Nat \ {0} /\ runPc' = "off"
  BY <1>1, <1>2, <1>3, AnswerHeard DEF HooksHeard
<1>5. RunTypes'
  BY <1>1, <1>4 DEF RunTypes, RunPoints
<1>6. last' = Result
  BY <1>1 DEF Answered
<1>7. NothingLeft' /\ SuccessIsEarned'
  BY <1>1, <1>2, <1>4, <1>6 DEF NothingLeft, SuccessIsEarned, Succeeded, Reading
<1> QED BY <1>4, <1>5, <1>7 DEF ProcessFollowed

\* A hook is fired, the hooks are through, and the operation's own command.
LEMMA OperationStep ==
    ASSUME RunTypes, HooksHeard, ProcessFollowed, UNCHANGED <<hooks, backend>>,
           \/ FireHook \/ EndFire \/ OwnCommand \/ \E o \in Operations : BeginOperation(o)
    PROVE  RunTypes' /\ HooksHeard' /\ ProcessFollowed'
<1> USE SandboxAssumption
<1>0. OperationShape /\ op.before # "own" /\ op.after # "own" /\ at \in Nat \ {0}
      /\ fired \in Seq(FiredResults) /\ hooks \in Seq(HookRecords)
  BY DEF RunTypes, HooksHeard
<1>1. ASSUME NEW o \in Operations, BeginOperation(o)
      PROVE  RunTypes' /\ HooksHeard' /\ ProcessFollowed'
  <2>1. /\ op' = o /\ todo' = <<o.before, "own", o.after>> /\ at' = 1 /\ fired' = <<>>
        /\ UNCHANGED <<runPc, cmd, leader, code, child, reader, cut, late, stuck, profiles, last>>
    BY <1>1 DEF BeginOperation
  <2>2. RunTypes' /\ ProcessFollowed'
    BY <2>1 DEF RunTypes, ProcessFollowed, NothingLeft, SuccessIsEarned, Reading, ProfileOf, Wrapped
  <2>3. runPc = "off"
    BY <1>1 DEF BeginOperation, HooksHeard
  <2>4. Head(todo') # "own"
    BY <2>1, ShortSequences, SandboxAssumption
  <2>5. hooks' \in Seq(HookRecords) /\ \A i \in DOMAIN hooks' : ~(i < at')
    BY <1>0, <2>1
  <2>6. OperationShape'
    BY <2>1 DEF OperationShape
  <2>7. BlockedStaysOut'
    BY <2>4 DEF BlockedStaysOut
  <2>8. runPc' = "off"
    BY <2>1, <2>3
  <2> QED BY ONLY <2>2, <2>5, <2>6, <2>7, <2>8 DEF HooksHeard
<1>2. CASE FireHook
  <2> DEFINE h == hooks[at]
  <2>1. Firing /\ at <= Len(hooks) /\ Head(todo) # "own" /\ todo # <<>> /\ runPc = "off"
    BY <1>2 DEF FireHook, Firing
  <2>2. CASE /\ ~ShouldFire(h) /\ at' = at + 1
             /\ UNCHANGED <<op, todo, fired, runPc, cmd, leader, code, child, reader, cut, late, stuck,
                            profiles, last, operations>>
    <3>1. RunTypes' /\ ProcessFollowed'
      BY <2>2 DEF RunTypes, ProcessFollowed, NothingLeft, SuccessIsEarned, Reading, ProfileOf, Wrapped
    <3>2. ASSUME todo = <<op.before, "own", op.after>>, NEW i \in DOMAIN hooks, i < at + 1, Blocks(hooks[i])
          PROVE  Blocked
      <4>1. Head(todo) = op.before
        BY <3>2, ShortSequences
      <4>2. i # at
        BY <2>2, <3>2, <4>1 DEF ShouldFire, Blocks
      <4> QED BY <4>2, <3>2, <1>0 DEF HooksHeard
    <3>3. OperationShape' /\ BlockedStaysOut'
      BY <2>1, <2>2, <1>0 DEF OperationShape, BlockedStaysOut
    <3> QED BY <3>1, <3>2, <3>3, <2>1, <2>2 DEF HooksHeard, Blocks, Blocked
  <2>3. CASE /\ ShouldFire(h) /\ (h.kind # "shell" \/ h.command \in {"none", "string", "stray"})
             /\ Hooked(h, h.kind # "shell" \/ h.command = "none", h.kind = "block")
             /\ UNCHANGED <<op, todo, runPc, cmd, leader, code, child, reader, cut, late, stuck, profiles,
                            last, operations>>
    <3> DEFINE e == [success |-> h.kind # "shell" \/ h.command = "none", blocked |-> h.kind = "block",
                     policy |-> h.policy]
    <3>1. fired' = Append(fired, e) /\ at' = IF h.kind = "block" THEN Len(hooks) + 1 ELSE at + 1
      BY <2>3 DEF Hooked
    <3>2. at \in DOMAIN hooks /\ h \in HookRecords
      BY <2>1, <1>0
    <3>3. e \in FiredResults /\ (h.kind = "block" => e.blocked)
      BY <3>2 DEF FiredResults, HookRecords
    <3> HIDE DEF e
    <3>4. fired' \in Seq(FiredResults) /\ (Blocked => Blocked') /\ (h.kind = "block" => Blocked')
      BY <1>0, <3>1, <3>3, ResultCollected
    <3>5. at' \in Nat \ {0}
      BY <3>1, <1>0
    <3>6. RunTypes' /\ ProcessFollowed'
      BY <2>3, <3>4, <3>5
         DEF RunTypes, ProcessFollowed, NothingLeft, SuccessIsEarned, Reading, ProfileOf, Wrapped
    <3>7. ASSUME todo = <<op.before, "own", op.after>>, NEW i \in DOMAIN hooks, i < at', Blocks(hooks[i])
          PROVE  Blocked'
      <4>1. CASE h.kind = "block"
        BY <4>1, <3>4
      <4>2. CASE h.kind # "block"
        <5>1. i # at /\ at' = at + 1
          BY <4>2, <3>1, <3>7 DEF Blocks
        <5>2. i < at
          BY <5>1, <3>7, <1>0
        <5> QED BY <5>2, <3>7, <3>4 DEF HooksHeard
      <4> QED BY <4>1, <4>2
    <3>8. OperationShape' /\ BlockedStaysOut'
      BY <2>1, <2>3, <1>0 DEF OperationShape, BlockedStaysOut
    <3>9. \A i \in DOMAIN hooks : Blocks(hooks[i])' <=> Blocks(hooks[i])
      BY <2>3 DEF Blocks
    <3> QED BY <3>6, <3>7, <3>8, <3>9, <2>1, <2>3 DEF HooksHeard
  <2>4. CASE ShouldFire(h) /\ h.kind = "shell" /\ h.command \in Commands /\ StartCommand(h.command)
    <3>1. at \in DOMAIN hooks
      BY <2>1, <1>0
    <3> QED BY <2>4, <2>1, <3>1, StartFollowed
  <2> QED BY <1>2, <2>2, <2>3, <2>4 DEF FireHook
<1>3. CASE EndFire
  <2>1. /\ Firing /\ at > Len(hooks) /\ Head(todo) # "own" /\ todo # <<>> /\ runPc = "off"
        /\ todo' = IF Len(todo) > 1 /\ todo[2] = "own" /\ Blocked THEN <<>> ELSE Tail(todo)
        /\ at' = 1 /\ fired' = <<>>
        /\ UNCHANGED <<op, runPc, cmd, leader, code, child, reader, cut, late, stuck, profiles, last>>
    BY <1>3 DEF EndFire, Firing
  <2>2. RunTypes' /\ ProcessFollowed'
    BY <2>1 DEF RunTypes, ProcessFollowed, NothingLeft, SuccessIsEarned, Reading, ProfileOf, Wrapped
  <2>3. CASE todo = <<op.before, "own", op.after>> /\ ~Blocked
    <3>1. todo' = <<"own", op.after>>
      BY <2>1, <2>3, ShortSequences
    <3>2. todo' # <<op.before, "own", op.after>>
      BY <3>1, ShortSequences
    <3>3. \A i \in DOMAIN hooks : ~Blocks(hooks[i])
      BY <2>1, <2>3, <1>0 DEF HooksHeard
    <3>4. BlockedStaysOut'
      BY <3>3, <2>1 DEF BlockedStaysOut, Blocks
    <3>5. OperationShape'
      BY <3>1, <2>1 DEF OperationShape
    <3>6. runPc' = "off" /\ todo' # <<op'.before, "own", op'.after>>
      BY <3>2, <2>1
    <3> QED BY ONLY <2>2, <3>4, <3>5, <3>6 DEF HooksHeard
  <2>4. CASE todo = <<op.before, "own", op.after>> /\ Blocked
    <3>1. todo' = <<>>
      BY <2>1, <2>4, ShortSequences
    <3>2. todo' # <<op.before, "own", op.after>>
      BY <3>1, ShortSequences
    <3>3. OperationShape'
      BY <3>1, <2>1 DEF OperationShape
    <3>4. BlockedStaysOut'
      BY <3>1, <3>2 DEF BlockedStaysOut
    <3>5. runPc' = "off" /\ todo' # <<op'.before, "own", op'.after>>
      BY <3>2, <2>1
    <3> QED BY ONLY <2>2, <3>3, <3>4, <3>5 DEF HooksHeard
  <2>5. CASE todo # <<op.before, "own", op.after>>
    <3>1. todo' = <<>> \/ todo' = <<"on_error">>
      BY <2>1, <2>5, <1>0, OperationParts
    <3>2. todo' # <<op.before, "own", op.after>> /\ (todo' # <<>> => Head(todo') # "own")
      BY <3>1, ShortSequences
    <3>3. OperationShape'
      BY <3>1, <2>1 DEF OperationShape
    <3>4. BlockedStaysOut'
      BY <3>1, <3>2 DEF BlockedStaysOut
    <3>5. runPc' = "off" /\ todo' # <<op'.before, "own", op'.after>>
      BY <3>2, <2>1
    <3> QED BY ONLY <2>2, <3>3, <3>4, <3>5 DEF HooksHeard
  <2> QED BY <2>2, <2>3, <2>4, <2>5
<1>4. CASE OwnCommand
  <2>1. op.command \in Commands
    BY DEF RunTypes
  <2> QED BY <1>4, <2>1, StartFollowed DEF OwnCommand
<1> QED BY <1>1, <1>2, <1>3, <1>4

-----------------------------------------------------------------------------
\* A service that a thread has finalized, and one that it has not.
LEMMA Finalizes ==
    ASSUME service \in Services, ServiceKept, Dead, NEW t \in Threads,
           service' = Finalized(service, t, "idle")
    PROVE  ServiceKept'
<1>1. /\ service'.process = service.process /\ service'.kind = service.kind
      /\ service'.made = service.made /\ service'.registered = FALSE /\ service'.finalized = TRUE
      /\ service'.profile = FALSE /\ service'.exit = service.exit /\ service'.taken = service.taken
      /\ service'.failed = service.failed
  BY DEF Finalized, Services
<1>2. service' \in Services
  BY DEF Finalized, Services
<1> QED BY <1>1, <1>2 DEF ServiceKept, ServicesFollowed, Dead

\* Each step of what makes, uses and stops a service.
LEMMA ServiceStep ==
    ASSUME ServiceKept, ServiceNext
    PROVE  ServiceKept'
<1> USE SandboxAssumption DEF ServiceKept, ServicesFollowed, Dead
<1>0. service \in Services
  OBVIOUS
<1>1. CASE Popen
  <2>1. PICK k \in {"plain", "stubborn", "unkillable"} :
            service' = [service EXCEPT !.process = "live", !.kind = k, !.profile = backend = "sandbox-exec"]
    BY <1>1 DEF Popen
  <2>2. service' \in Services
    BY <1>0, <2>1 DEF Services
  <2> QED BY <1>1, <2>1, <2>2 DEF Popen, Services
<1>2. CASE Registers
  <2>1. service' \in Services
    BY <1>0, <1>2 DEF Registers, Services
  <2> QED BY <1>2, <2>1 DEF Registers, Services
<1>3. CASE ServiceDies
  <2>1. service' \in Services
    BY <1>0, <1>3 DEF ServiceDies, Services
  <2> QED BY <1>3, <2>1 DEF ServiceDies, Services
<1>4. ASSUME NEW t \in Threads, Terminate(t) PROVE ServiceKept'
  <2>1. CASE Dead
    BY <1>0, <1>4, <2>1, Finalizes DEF Terminate
  <2>2. CASE ~Dead
    <3>1. service' \in Services
      BY <1>0, <1>4, <2>2 DEF Terminate, Services, AfterTerm
    <3> QED BY <1>4, <2>2, <3>1 DEF Terminate, Services, AfterTerm
  <2> QED BY <2>1, <2>2
<1>5. ASSUME NEW t \in Threads, TerminateKills(t) PROVE ServiceKept'
  <2>1. CASE Dead
    BY <1>0, <1>5, <2>1, Finalizes DEF TerminateKills
  <2>2. CASE ~Dead
    <3>1. service' \in Services
      BY <1>0, <1>5, <2>2 DEF TerminateKills, Services, AfterKill
    <3> QED BY <1>5, <2>2, <3>1 DEF TerminateKills, Services, AfterKill
  <2> QED BY <2>1, <2>2
<1>6. ASSUME NEW t \in Threads, TerminateEnds(t) PROVE ServiceKept'
  <2>1. CASE Dead
    BY <1>0, <1>6, <2>1, Finalizes DEF TerminateEnds, FinalizedIfDead
  <2>2. CASE ~Dead
    <3>1. service' \in Services
      BY <1>0, <1>6, <2>2 DEF TerminateEnds, FinalizedIfDead, Services
    <3> QED BY <1>6, <2>2, <3>1 DEF TerminateEnds, FinalizedIfDead, Services
  <2> QED BY <2>1, <2>2
<1>7. ASSUME NEW t \in Threads, KillService(t) PROVE ServiceKept'
  <2>1. CASE Dead
    BY <1>0, <1>7, <2>1, Finalizes DEF KillService
  <2>2. CASE ~Dead
    <3>1. service' \in Services
      BY <1>0, <1>7, <2>2 DEF KillService, Services, AfterKill
    <3> QED BY <1>7, <2>2, <3>1 DEF KillService, Services, AfterKill
  <2> QED BY <2>1, <2>2
<1>8. ASSUME NEW t \in Threads, KillEnds(t) PROVE ServiceKept'
  <2>1. CASE Dead
    BY <1>0, <1>8, <2>1, Finalizes DEF KillEnds
  <2>2. CASE ~Dead
    <3>1. service' \in Services
      BY <1>0, <1>8, <2>2 DEF KillEnds, Services
    <3> QED BY <1>8, <2>2, <3>1 DEF KillEnds, Services
  <2> QED BY <2>1, <2>2
<1>9. CASE ExitTakes
  <2>1. service' \in Services
    BY <1>0, <1>9 DEF ExitTakes, Services
  <2> QED BY <1>9, <2>1 DEF ExitTakes, Services
<1>10. CASE ExitTerminates
  <2>1. service' \in Services
    BY <1>0, <1>10 DEF ExitTerminates, Services, AfterTerm
  <2> QED BY <1>10, <2>1 DEF ExitTerminates, Services, AfterTerm
<1>11. CASE ExitKills
  <2>1. service' \in Services
    BY <1>0, <1>11 DEF ExitKills, Services, AfterKill
  <2> QED BY <1>11, <2>1 DEF ExitKills, Services, AfterKill
<1> QED BY <1>1, <1>2, <1>3, <1>4, <1>5, <1>6, <1>7, <1>8, <1>9, <1>10, <1>11 DEF ServiceNext

-----------------------------------------------------------------------------
LEMMA SandboxInvInit == SandboxInit => SandboxInv
<1> USE SandboxAssumption
<1> SUFFICES ASSUME SandboxInit PROVE SandboxInv
  OBVIOUS
<1>1. op \in Operations /\ op.command \in Commands /\ op.before # "own" /\ op.after # "own"
  <2>1. op \in Operations
    BY DEF SandboxInit
  <2> QED BY <2>1
<1>2. cmd \in Commands
  BY <1>1 DEF SandboxInit
<1>3. RunTypes
  <2>1. hooks \in Seq(HookRecords) /\ backend \in Backends
    BY DEF SandboxInit
  <2>2. fired \in Seq(FiredResults)
    BY DEF SandboxInit
  <2>3. /\ at = 1 /\ runPc = "off" /\ leader = "none" /\ code = "none" /\ child = FALSE
        /\ late = FALSE /\ stuck = FALSE
    BY DEF SandboxInit
  <2>4. reader \in [Streams -> {"reading", "draining", "done"}]
    BY DEF SandboxInit
  <2>5. at \in Nat \ {0}
    BY <2>3
  <2> QED BY <1>1, <1>2, <2>1, <2>2, <2>3, <2>4, <2>5 DEF RunTypes, RunPoints
<1>4. HooksHeard
  BY DEF SandboxInit, HooksHeard, OperationShape, BlockedStaysOut
<1>5. ProcessFollowed
  BY NotRunFails DEF SandboxInit, ProcessFollowed, NothingLeft, SuccessIsEarned, Reading
<1>6. ServiceKept
  BY DEF SandboxInit, NoService, ServiceKept, ServicesFollowed, Services
<1> QED BY <1>3, <1>4, <1>5, <1>6 DEF SandboxInv

LEMMA SandboxInvStep == SandboxInv /\ [SandboxNext]_sandboxVars => SandboxInv'
<1> SUFFICES ASSUME SandboxInv, [SandboxNext]_sandboxVars PROVE SandboxInv'
  OBVIOUS
<1>1. CASE CommandNext
  <2>1. Rest
    BY <1>1 DEF CommandNext, CallerStep, ReaderStep
  <2>2. UNCHANGED <<hooks, backend, service>>
    BY <2>1 DEF Rest
  <2>3. ServiceKept'
    BY <2>2 DEF SandboxInv, ServiceKept, ServicesFollowed, Dead
  <2>4. CASE FireHook \/ EndFire \/ OwnCommand \/ \E o \in Operations : BeginOperation(o)
    BY <2>2, <2>3, <2>4, OperationStep DEF SandboxInv
  <2>5. CASE Returns
    BY <2>2, <2>3, <2>5, ReturnStep DEF SandboxInv
  <2>6. CASE \/ WaitReturns \/ TimesOut \/ GraceEnds \/ ReadersStuck
             \/ \E s \in Streams : ReaderEnds(s) \/ Overflows(s)
             \/ \E x \in {"zero", "nonzero"} : LeaderExits(x)
             \/ ChildEnds
    BY <2>2, <2>3, <2>6, ProcessStep DEF SandboxInv
  <2> QED BY <1>1, <2>4, <2>5, <2>6 DEF CommandNext, CallerStep, ReaderStep
<1>2. CASE ServiceNext
  <2>1. ServiceKept'
    BY <1>2, ServiceStep DEF SandboxInv
  <2>2. UNCHANGED <<scene, backend, hooks, command>>
    BY <1>2 DEF ServiceNext
  <2>3. RunTypes' /\ ProcessFollowed'
    BY <2>2 DEF command, SandboxInv, RunTypes, ProcessFollowed, NothingLeft, SuccessIsEarned, Reading,
                ProfileOf, Wrapped
  <2>4. HooksHeard'
    BY <2>2, HooksStay DEF command, SandboxInv
  <2> QED BY <2>1, <2>3, <2>4 DEF SandboxInv
<1>3. CASE UNCHANGED sandboxVars
  <2>1. RunTypes' /\ ProcessFollowed' /\ ServiceKept'
    BY <1>3 DEF sandboxVars, command, SandboxInv, RunTypes, ProcessFollowed, NothingLeft, SuccessIsEarned,
                Reading, ProfileOf, Wrapped, ServiceKept, ServicesFollowed, Dead
  <2>2. HooksHeard'
    BY <1>3, HooksStay DEF sandboxVars, command, SandboxInv
  <2> QED BY <2>1, <2>2 DEF SandboxInv
<1> QED BY <1>1, <1>2, <1>3 DEF SandboxNext

\* A run that has started keeps the isolation that its command requires.
LEMMA IsolationFollows == SandboxInv => IsolationKept
BY DEF SandboxInv, ProcessFollowed, IsolationKept, ProfileOf, Wrapped

\* For any commands, hooks and hosts, and however processes end, outlive signals and fill their
\* pipes: success is earned, nothing is left behind, required isolation is there, a blocking hook
\* blocks, and a service stays registered.
THEOREM CommandsContainedHolds == SandboxSpec => []CommandsContained
<1>1. SandboxInv => CommandsContained
  BY IsolationFollows DEF SandboxInv, CommandsContained, ProcessFollowed, HooksHeard, ServiceKept
<1> QED BY <1>1, SandboxInvInit, SandboxInvStep, PTL DEF SandboxSpec

-----------------------------------------------------------------------------
(***************************************************************************)
(* Governance: the files of the teams tell what happened.                  *)
(***************************************************************************)

Asked == [requester : Ids, status : {"pending", "approved", "rejected"}]
Decided == [request : Nat, by : Ids, decision : {"approved", "rejected"}]
Budgets == [limit : Nat, threshold : Nat, spent : Nat]
AuditRecords ==
    [n : Nat, what : Effects \union {"members", "activate", "put", "get"}, previous : Nat]
Checkpoints == [n : Nat, state : States]

\* Approvals of which none is its requester's own.
SoundApprovals(data) ==
    /\ data \in [requests : Seq(Asked), decisions : SUBSET Decided]
    /\ \A i \in DOMAIN data.requests :
           data.requests[i].status = "approved" =>
               \E d \in data.decisions :
                   d.request = i /\ d.decision = "approved" /\ d.by # data.requests[i].requester

\* An audit log of things that were done, where something is allowed only under an activated policy.
Activated(done) == \E e \in done : e[2] = "activate"
Happened(n, done) == \E e \in done : e[1] = n
SoundAudit(list, done) ==
    /\ list \in Seq(AuditRecords)
    /\ \A i \in DOMAIN list : list[i].previous = IF i = 1 THEN 0 ELSE list[i - 1].n
    /\ \A i \in DOMAIN list :
           Happened(list[i].n, done) /\ (list[i].what = "allow" => Activated(done))

\* Checkpoints of states that the project has had.
SoundCheckpoints(list, had) ==
    list \in Seq(Checkpoints) /\ \A i \in DOMAIN list : list[i].state \in had

Project(x) == x # <<>> /\ x[1].state \in States

\* The files.
FilesSound ==
    /\ DOMAIN disk = Files
    /\ disk.policies \subseteq Effects /\ (disk.policies # {} => Activated(effects))
    /\ SoundApprovals(disk.approvals)
    /\ disk.projects # <<>> => Project(disk.projects) /\ disk.projects[1].state \in statesSeen
    /\ SoundAudit(disk.audit, effects) /\ SoundCheckpoints(disk.checkpoints, statesSeen)

\* What waits in a temporary file.
StagedSound ==
    /\ DOMAIN tmp = Files
    /\ tmp["policies"] # <<>> => tmp["policies"][1] \subseteq Effects
    /\ tmp["approvals"] # <<>> => SoundApprovals(tmp["approvals"][1])
    /\ tmp["projects"] # <<>> => Project(tmp["projects"][1])
    /\ tmp["audit"] # <<>> => SoundAudit(tmp["audit"][1], effects)
    /\ tmp["checkpoints"] # <<>> => SoundCheckpoints(tmp["checkpoints"][1], statesSeen)

\* What a process r knows, when these commands were done, the project has had these states, and
\* there is a project.
CallerSound(r, done, had, there) ==
    /\ r.pc \in {"idle", "look", "make", "replace", "record", "stage", "keep"}
    /\ r.pc # "idle" => r.cmd \in CommandLines /\ r.n \in Nat
    /\ r.pc = "look" => FileOf(r.cmd.kind) = "none"
    /\ r.pc \in {"make", "replace"} => FileOf(r.cmd.kind) # "none"
    /\ r.pc = "make" /\ FileOf(r.cmd.kind) = "approvals" => SoundApprovals(r.read[1])
    /\ r.pc \in {"record", "stage", "keep"} =>
           /\ RecordsIn(r.cmd) # "none" /\ Happened(r.n, done)
           /\ RecordsIn(r.cmd) = "checkpoints" => there
    /\ r.pc = "record" /\ r.cmd.kind = "evaluate" =>
           r.decided \in Effects /\ (r.decided = "allow" => Activated(done))
    /\ r.pc = "stage" =>
           /\ RecordsIn(r.cmd) = "audit" => SoundAudit(r.list, done)
           /\ RecordsIn(r.cmd) = "checkpoints" => SoundCheckpoints(r.list, had)
CallersSound ==
    /\ DOMAIN proc = Callers
    /\ \A p \in Callers : CallerSound(proc[p], effects, statesSeen, disk.projects # <<>>)

\* As long as commands do not overlap, a process works on what is in the files.
Numbers(list) == {list[i].n : i \in DOMAIN list}
InTurn(r, files, staged) ==
    /\ r.pc = "make" => r.read[1] = files[FileOf(r.cmd.kind)]
    /\ r.pc = "replace" /\ r.cmd.kind = "limit" =>
           staged["budgets"] # <<>> /\ staged["budgets"][1] \in SetLimit(r.cmd, files["budgets"])
    /\ r.pc = "replace" /\ r.cmd.kind = "charge" =>
           staged["budgets"] # <<>> /\ staged["budgets"][1] \in Charge(r.cmd, files["budgets"])
    /\ r.pc = "stage" => Numbers(files[RecordsIn(r.cmd)]) \union {r.n} \subseteq Numbers(r.list)
    /\ r.pc = "keep" /\ staged[RecordsIn(r.cmd)] # <<>> =>
           Numbers(files[RecordsIn(r.cmd)]) \union {r.n} \subseteq Numbers(staged[RecordsIn(r.cmd)][1])
OneByOne ==
    ~overlapped =>
        /\ \A p, q \in Callers : p # q => proc[p].pc = "idle" \/ proc[q].pc = "idle"
        /\ \A p \in Callers : InTurn(proc[p], disk, tmp)
        /\ disk.budgets # <<>> => disk.budgets[1] \in Budgets
SequentialHolds == spent \in Nat /\ OneByOne /\ SequentialKeepsAll

TeamsInv == began \in Nat /\ FilesSound /\ StagedSound /\ CallersSound /\ SequentialHolds

-----------------------------------------------------------------------------
\* What the parts of a command line are.
LEMMA CommandFacts ==
    ASSUME NEW c \in CommandLines
    PROVE  /\ c.kind \in {"members", "activate", "evaluate", "request", "decide", "put", "get", "limit",
                           "charge", "create", "transition"}
           /\ c.kind = "activate" => c.rules \subseteq Effects
           /\ c.kind \in {"request", "decide"} => c.id \in Ids
           /\ c.kind = "decide" => c.request \in Nat /\ c.decision \in {"approved", "rejected"}
           /\ c.kind = "limit" => c.limit \in Nat /\ c.threshold \in Nat
           /\ c.kind = "charge" => c.amount \in Nat
           /\ c.kind = "transition" => c.state \in States
BY DEF CommandLines

\* The two files of a command are different ones, and both are there.
LEMMA FilesOfCommand ==
    ASSUME NEW c \in CommandLines
    PROVE  /\ FileOf(c.kind) \in {"identities", "policies", "approvals", "secrets", "budgets", "projects",
                                  "none"}
           /\ RecordsIn(c) \in {"audit", "checkpoints", "none"}
           /\ FileOf(c.kind) = "none" => c.kind \in {"evaluate", "get"} /\ RecordsIn(c) = "audit"
           /\ FileOf(c.kind) = "policies" => c.kind = "activate"
           /\ FileOf(c.kind) = "approvals" => c.kind \in {"request", "decide"}
           /\ FileOf(c.kind) = "budgets" => c.kind \in {"limit", "charge"}
           /\ FileOf(c.kind) = "projects" => c.kind \in {"create", "transition"}
           /\ c.kind \in {"limit", "charge"} => FileOf(c.kind) = "budgets"
           /\ RecordsIn(c) = "checkpoints" => FileOf(c.kind) = "projects"
           /\ RecordsIn(c) = "audit" => c.kind \in {"members", "activate", "evaluate", "put", "get"}
<1> USE CommandFacts
<1>1. /\ FileOf(c.kind) \in {"identities", "policies", "approvals", "secrets", "budgets", "projects", "none"}
      /\ FileOf(c.kind) = "none" => c.kind \in {"evaluate", "get"}
      /\ FileOf(c.kind) = "policies" => c.kind = "activate"
      /\ FileOf(c.kind) = "approvals" => c.kind \in {"request", "decide"}
      /\ FileOf(c.kind) = "budgets" => c.kind \in {"limit", "charge"}
      /\ FileOf(c.kind) = "projects" => c.kind \in {"create", "transition"}
      /\ c.kind \in {"limit", "charge"} => FileOf(c.kind) = "budgets"
      /\ c.kind \in {"create", "transition"} => FileOf(c.kind) = "projects"
  BY DEF FileOf
<1>2. /\ RecordsIn(c) \in {"audit", "checkpoints", "none"}
      /\ RecordsIn(c) = "checkpoints" => c.kind \in {"create", "transition"}
      /\ RecordsIn(c) = "audit" => c.kind \in {"members", "activate", "evaluate", "put", "get"}
      /\ c.kind \in {"evaluate", "get"} => RecordsIn(c) = "audit"
  BY DEF RecordsIn, Checkpointed
<1> QED BY <1>1, <1>2

\* More that was done, or that the project has had, spoils no list and no process.
LEMMA AuditStays ==
    ASSUME NEW list, NEW a, NEW b, a \subseteq b, SoundAudit(list, a)
    PROVE  SoundAudit(list, b)
BY DEF SoundAudit, Happened, Activated

LEMMA CheckpointsStay ==
    ASSUME NEW list, NEW a, NEW b, a \subseteq b, SoundCheckpoints(list, a)
    PROVE  SoundCheckpoints(list, b)
BY DEF SoundCheckpoints

LEMMA CallerStays ==
    ASSUME NEW r, NEW a, NEW b, a \subseteq b, NEW s, NEW t, s \subseteq t, NEW x, NEW y, x => y,
           CallerSound(r, a, s, x)
    PROVE  CallerSound(r, b, t, y)
<1>1. \A n : Happened(n, a) => Happened(n, b)
  BY DEF Happened
<1>2. Activated(a) => Activated(b)
  BY DEF Activated
<1> QED BY <1>1, <1>2, AuditStays, CheckpointsStay DEF CallerSound

-----------------------------------------------------------------------------
\* What request and decide make of sound approvals is sound.
LEMMA ApprovalsMade ==
    ASSUME NEW c \in CommandLines, c.kind \in {"request", "decide"}, NEW x, SoundApprovals(x),
           NEW y \in Made(c, x)
    PROVE  SoundApprovals(y)
<1>0. x.requests \in Seq(Asked) /\ x.decisions \subseteq Decided
      /\ x \in [requests : Seq(Asked), decisions : SUBSET Decided]
  BY DEF SoundApprovals
<1>1. CASE c.kind = "request"
  <2> DEFINE e == [requester |-> c.id, status |-> "pending"]
  <2>1. y = [x EXCEPT !.requests = Append(@, e)]
    BY <1>1 DEF Made, Request
  <2>2. e \in Asked /\ e.status # "approved"
    BY <1>1, CommandFacts DEF Asked
  <2> HIDE DEF e
  <2>3. y.requests = Append(x.requests, e) /\ y.decisions = x.decisions
        /\ y \in [requests : Seq(Asked), decisions : SUBSET Decided]
    <3> DEFINE more == Append(x.requests, e)
    <3>1. y = [x EXCEPT !.requests = more]
      BY <2>1
    <3>2. more \in Seq(Asked)
      BY <1>0, <2>2
    <3> HIDE DEF more
    <3>3. y.requests = more /\ y.decisions = x.decisions
          /\ y \in [requests : Seq(Asked), decisions : SUBSET Decided]
      BY <1>0, <3>1, <3>2
    <3> QED BY <3>3 DEF more
  <2>4. ASSUME NEW i \in DOMAIN y.requests, y.requests[i].status = "approved"
        PROVE  i \in DOMAIN x.requests /\ y.requests[i] = x.requests[i]
    BY <1>0, <2>2, <2>3, <2>4
  <2> QED BY <2>3, <2>4 DEF SoundApprovals
<1>2. CASE c.kind = "decide"
  <2> DEFINE k == c.request
             d == [request |-> k, by |-> c.id, decision |-> c.decision]
  <2>1. Made(c, x) = Decide(c, x)
    BY <1>2 DEF Made
  <2>2. /\ k \in DOMAIN x.requests /\ MayDecide(c, x.requests[k])
        /\ y = [requests |-> [x.requests EXCEPT ![k].status = c.decision],
                decisions |-> x.decisions \union {d}]
    BY <2>1 DEF Decide
  <2>3. y.requests = [x.requests EXCEPT ![k].status = c.decision] /\ y.decisions = x.decisions \union {d}
    BY <2>2
  <2>4. /\ y.requests \in Seq(Asked) /\ DOMAIN y.requests = DOMAIN x.requests
        /\ y.requests[k].requester = x.requests[k].requester /\ y.requests[k].status = c.decision
        /\ \A i \in DOMAIN x.requests : i # k => y.requests[i] = x.requests[i]
    <3> DEFINE e == [x.requests[k] EXCEPT !.status = c.decision]
    <3>1. x.requests[k] \in Asked /\ c.decision \in {"pending", "approved", "rejected"}
      BY <1>0, <1>2, <2>2, CommandFacts
    <3>2. e \in Asked /\ e.requester = x.requests[k].requester /\ e.status = c.decision
      BY <3>1 DEF Asked
    <3>3. y.requests = [x.requests EXCEPT ![k] = e]
      BY <2>3
    <3>4. k \in 1..Len(x.requests)
      BY <1>0, <2>2
    <3> HIDE DEF e, k
    <3>5. /\ [x.requests EXCEPT ![k] = e] \in Seq(Asked)
          /\ Len([x.requests EXCEPT ![k] = e]) = Len(x.requests)
          /\ \A j \in 1..Len(x.requests) : [x.requests EXCEPT ![k] = e][j] = IF j = k THEN e ELSE x.requests[j]
      BY <1>0, <3>2, <3>4, ExceptSeq
    <3>6. y.requests \in Seq(Asked) /\ Len(y.requests) = Len(x.requests)
          /\ \A j \in 1..Len(x.requests) : y.requests[j] = IF j = k THEN e ELSE x.requests[j]
      BY <3>3, <3>5
    <3>7. DOMAIN y.requests = 1..Len(x.requests) /\ DOMAIN x.requests = 1..Len(x.requests)
      BY <1>0, <3>6
    <3> QED BY <3>2, <3>4, <3>6, <3>7
  <2>5. d \in Decided /\ d.request = k /\ d.decision = c.decision /\ d.by = c.id
    BY <1>2, CommandFacts DEF Decided
  <2>6. y \in [requests : Seq(Asked), decisions : SUBSET Decided]
    BY <1>0, <2>2, <2>3, <2>4, <2>5
  <2>7. x.requests[k].requester # c.id
    BY <2>2 DEF MayDecide
  <2> HIDE DEF d, k
  <2>8. ASSUME NEW i \in DOMAIN y.requests, y.requests[i].status = "approved"
        PROVE  \E a \in y.decisions :
                   a.request = i /\ a.decision = "approved" /\ a.by # y.requests[i].requester
    <3>1. CASE i = k
      BY <2>3, <2>4, <2>5, <2>7, <2>8, <3>1
    <3>2. CASE i # k
      BY <2>3, <2>4, <2>8, <3>2 DEF SoundApprovals
    <3> QED BY <3>1, <3>2
  <2> QED BY <2>6, <2>8 DEF SoundApprovals
<1> QED BY <1>1, <1>2

\* What the commands of the other files make.
LEMMA FilesMade ==
    ASSUME NEW c \in CommandLines, NEW x, NEW y \in Made(c, x)
    PROVE  /\ c.kind = "activate" => y \subseteq Effects
           /\ c.kind \in {"create", "transition"} => Project(y)
<1>1. ASSUME c.kind = "activate" PROVE y \subseteq Effects
  BY <1>1, CommandFacts DEF Made, ActivateRules
<1>2. ASSUME c.kind = "create" PROVE Project(y)
  BY <1>2 DEF Made, CreateProject, Project, States
<1>3. ASSUME c.kind = "transition" PROVE Project(y)
  <2>1. y = <<[state |-> c.state]>>
    BY <1>3 DEF Made, Transition
  <2>2. c.state \in States
    BY <1>3, CommandFacts
  <2> QED BY <2>1, <2>2 DEF Project
<1> QED BY <1>1, <1>2, <1>3

\* A record that is added is one more.
LEMMA RecordAdded ==
    ASSUME NEW S, NEW list \in Seq(S), NEW e \in S
    PROVE  /\ Append(list, e) \in Seq(S) /\ Len(Append(list, e)) = Len(list) + 1
           /\ Append(list, e)[Len(list) + 1] = e /\ Len(list) \in Nat
           /\ \A i \in DOMAIN list : Append(list, e)[i] = list[i]
           /\ DOMAIN Append(list, e) = DOMAIN list \union {Len(list) + 1}
           /\ Numbers(list) \union {e.n} \subseteq Numbers(Append(list, e))
<1> DEFINE more == Append(list, e)
<1>1. /\ more \in Seq(S) /\ Len(more) = Len(list) + 1 /\ more[Len(list) + 1] = e /\ Len(list) \in Nat
      /\ \A i \in DOMAIN list : more[i] = list[i]
      /\ DOMAIN more = DOMAIN list \union {Len(list) + 1}
  OBVIOUS
<1> HIDE DEF more
<1>2. Numbers(list) \union {e.n} \subseteq Numbers(more)
  BY <1>1 DEF Numbers
<1> QED BY <1>1, <1>2 DEF more

LEMMA AuditAdded ==
    ASSUME NEW list, NEW done, SoundAudit(list, done), NEW e \in AuditRecords,
           e.previous = PreviousOf(list), Happened(e.n, done), e.what = "allow" => Activated(done)
    PROVE  SoundAudit(Append(list, e), done)
<1> DEFINE more == Append(list, e)
<1>0. list \in Seq(AuditRecords)
  BY DEF SoundAudit
<1>1. /\ more \in Seq(AuditRecords) /\ more[Len(list) + 1] = e /\ Len(list) \in Nat
      /\ \A i \in DOMAIN list : more[i] = list[i]
      /\ DOMAIN more = DOMAIN list \union {Len(list) + 1} /\ DOMAIN list = 1..Len(list)
  BY <1>0, RecordAdded
<1> HIDE DEF more
<1>2. ASSUME NEW i \in DOMAIN list
      PROVE  /\ more[i].previous = IF i = 1 THEN 0 ELSE more[i - 1].n
             /\ Happened(more[i].n, done) /\ (more[i].what = "allow" => Activated(done))
  <2>1. i # 1 => i - 1 \in DOMAIN list
    BY <1>1
  <2> QED BY <1>1, <2>1 DEF SoundAudit
<1>3. e.previous = IF Len(list) + 1 = 1 THEN 0 ELSE more[(Len(list) + 1) - 1].n
  <2>1. CASE list = <<>>
    BY <2>1 DEF PreviousOf
  <2>2. CASE list # <<>>
    <3>1. Len(list) # 0
      BY <2>2, <1>0
    <3>2. Len(list) \in DOMAIN list /\ Len(list) + 1 # 1 /\ (Len(list) + 1) - 1 = Len(list)
      BY <3>1, <1>1
    <3> QED BY <2>2, <3>2, <1>1 DEF PreviousOf
  <2> QED BY <2>1, <2>2
<1>4. SoundAudit(more, done)
  BY <1>1, <1>2, <1>3 DEF SoundAudit
<1> QED BY <1>4 DEF more

LEMMA CheckpointAdded ==
    ASSUME NEW list, NEW had, SoundCheckpoints(list, had), NEW e \in Checkpoints, e.state \in had
    PROVE  SoundCheckpoints(Append(list, e), had)
BY RecordAdded DEF SoundCheckpoints

-----------------------------------------------------------------------------
\* A step of one process.
LEMMA CallersStep ==
    ASSUME CallersSound, NEW p \in Callers, NEW r, proc' = [proc EXCEPT ![p] = r],
           effects \subseteq effects', statesSeen \subseteq statesSeen',
           disk.projects # <<>> => disk'.projects # <<>>,
           CallerSound(r, effects', statesSeen', disk'.projects # <<>>)
    PROVE  CallersSound'
<1>1. DOMAIN proc' = Callers /\ \A q \in Callers : proc'[q] = IF q = p THEN r ELSE proc[q]
  BY DEF CallersSound
<1>2. ASSUME NEW q \in Callers
      PROVE  CallerSound(proc'[q], effects', statesSeen', disk'.projects # <<>>)
  <2>1. CASE q = p
    BY <1>1, <2>1
  <2>2. CASE q # p
    <3>1. CallerSound(proc[q], effects, statesSeen, disk.projects # <<>>)
      BY DEF CallersSound
    <3>2. CallerSound(proc[q], effects', statesSeen', disk'.projects # <<>>)
      BY <3>1, CallerStays
    <3> QED BY <1>1, <2>2, <3>2
  <2> QED BY <2>1, <2>2
<1> QED BY <1>1, <1>2 DEF CallersSound

\* An idle process knows nothing.
LEMMA IdleSound ==
    /\ \A done, had, there : CallerSound(Idle, done, had, there)
    /\ \A files, staged : InTurn(Idle, files, staged)
BY DEF Idle, CallerSound, InTurn

\* The others wait, unless commands overlap.
LEMMA OthersIdle ==
    ASSUME OneByOne, NEW p \in Callers, proc[p].pc # "idle", ~overlapped
    PROVE  \A q \in Callers \ {p} : proc[q].pc = "idle"
BY DEF OneByOne

LEMMA TurnStep ==
    ASSUME CallersSound, OneByOne, NEW p \in Callers, NEW r, proc' = [proc EXCEPT ![p] = r],
           ~overlapped' => ~overlapped /\ \A q \in Callers \ {p} : proc[q].pc = "idle",
           ~overlapped' => InTurn(r, disk', tmp'),
           ~overlapped' => (disk'.budgets # <<>> => disk'.budgets[1] \in Budgets)
    PROVE  OneByOne'
<1> SUFFICES ASSUME ~overlapped'
             PROVE  /\ \A a, b \in Callers : a # b => proc'[a].pc = "idle" \/ proc'[b].pc = "idle"
                    /\ \A q \in Callers : InTurn(proc'[q], disk', tmp')
                    /\ disk'.budgets # <<>> => disk'.budgets[1] \in Budgets
  BY DEF OneByOne
<1>1. \A q \in Callers : proc'[q] = IF q = p THEN r ELSE proc[q]
  BY DEF CallersSound
<1>2. \A q \in Callers : q # p => proc'[q].pc = "idle"
  BY <1>1
<1>3. ASSUME NEW q \in Callers PROVE InTurn(proc'[q], disk', tmp')
  <2>1. CASE q = p
    BY <1>1, <2>1
  <2>2. CASE q # p
    BY <1>2, <2>2 DEF InTurn
  <2> QED BY <2>1, <2>2
<1> QED BY <1>2, <1>3

\* Steps that leave the files and what is known of them alone.
LEMMA FilesStay ==
    ASSUME TeamsInv, UNCHANGED <<disk, tmp, effects, statesSeen>>
    PROVE  FilesSound' /\ StagedSound'
BY DEF TeamsInv, FilesSound, StagedSound

LEMMA BeginStep ==
    ASSUME TeamsInv, NEW p \in Callers, NEW c \in Tried, BeginCommand(p, c)
    PROVE  TeamsInv'
<1> DEFINE f == FileOf(c.kind)
           r == [pc |-> IF f = "none" THEN "look" ELSE "make", n |-> began', cmd |-> c,
                 read |-> IF f = "none" THEN <<>> ELSE <<disk[f]>>]
<1>1. /\ proc' = [proc EXCEPT ![p] = r] /\ began' = began + 1 /\ Overlap(p)
      /\ UNCHANGED <<disk, tmp, kills, effects, recorded, spent, statesSeen>>
  BY DEF BeginCommand
<1>2. c \in CommandLines /\ began' \in Nat
  BY <1>1, GovernanceAssumption DEF TeamsInv
<1>3. /\ r.pc = IF f = "none" THEN "look" ELSE "make"
      /\ r.n = began' /\ r.cmd = c /\ (f # "none" => r.read[1] = disk[f])
  OBVIOUS
<1> HIDE DEF r
<1>4. CallersSound'
  <2>1. CallerSound(r, effects', statesSeen', disk'.projects # <<>>)
    BY <1>1, <1>2, <1>3 DEF CallerSound, TeamsInv, FilesSound
  <2> QED BY <1>1, <2>1, CallersStep DEF TeamsInv
<1>5. OneByOne'
  <2>1. InTurn(r, disk', tmp')
    BY <1>1, <1>3 DEF InTurn
  <2>2. ~overlapped' => ~overlapped /\ \A q \in Callers \ {p} : proc[q].pc = "idle"
    BY <1>1 DEF Overlap
  <2>3. ~overlapped' => (disk'.budgets # <<>> => disk'.budgets[1] \in Budgets)
    BY <2>2, <1>1 DEF TeamsInv, SequentialHolds, OneByOne
  <2> QED BY <1>1, <2>1, <2>2, <2>3, TurnStep DEF TeamsInv, SequentialHolds
<1>6. SequentialHolds'
  <2>1. ~overlapped' => ~overlapped
    BY <1>1 DEF Overlap
  <2> QED BY <1>1, <1>5, <2>1 DEF TeamsInv, SequentialHolds, SequentialKeepsAll
<1> QED BY <1>1, <1>2, <1>4, <1>6, FilesStay DEF TeamsInv

\* What the rules of a policy decide is an effect, and it is allowed only by a rule that allows.
LEMMA DecisionSound ==
    ASSUME NEW S, S \subseteq Effects, NEW k \in Nat, NEW m \in [1..k -> S]
    PROVE  Decision(m) \in Effects /\ (Decision(m) = "allow" => S # {})
<1>1. CASE m = <<>>
  BY <1>1 DEF Decision, Effects
<1>2. CASE m # <<>>
  <2>1. k # 0
    <3>1. k = 0 => m = <<>>
      OBVIOUS
    <3> QED BY <3>1, <1>2
  <2>2. m[1] \in S
    BY <2>1
  <2> QED BY <2>2 DEF Decision, Effects
<1> QED BY <1>1, <1>2

LEMMA LookStep ==
    ASSUME TeamsInv, NEW p \in Callers, Look(p)
    PROVE  TeamsInv'
<1> DEFINE c == proc[p].cmd
           n == proc[p].n
<1>0. /\ proc[p].pc = "look" /\ CallerSound(proc[p], effects, statesSeen, disk.projects # <<>>)
      /\ effects' = effects \union {<<n, c.kind>>}
      /\ UNCHANGED <<disk, tmp, began, kills, recorded, spent, statesSeen, overlapped>>
  BY DEF Look, TeamsInv, CallersSound
<1>1. /\ c \in CommandLines /\ n \in Nat /\ FileOf(c.kind) = "none"
      /\ c.kind \in {"evaluate", "get"} /\ RecordsIn(c) = "audit"
  BY <1>0, FilesOfCommand DEF CallerSound
<1>2. PICK decided \in IF c.kind = "get" THEN {"read"} ELSE {Decision(m) : m \in Matches} :
          proc' = [proc EXCEPT ![p] =
                     IF c.kind = "get" /\ ~MayGetSecret(c, disk.secrets) THEN Idle
                     ELSE [pc |-> "record", n |-> @.n, cmd |-> c, decided |-> decided]]
  BY DEF Look
<1> DEFINE r == IF c.kind = "get" /\ ~MayGetSecret(c, disk.secrets) THEN Idle
                ELSE [pc |-> "record", n |-> n, cmd |-> c, decided |-> decided]
<1>3. proc' = [proc EXCEPT ![p] = r]
  BY <1>2
<1>4. c.kind = "evaluate" => decided \in Effects /\ (decided = "allow" => Activated(effects))
  <2>1. ASSUME c.kind = "evaluate" PROVE \E k \in Nat : \E m \in [1..k -> disk.policies] : decided = Decision(m)
    <3>1. \E m \in Matches : decided = Decision(m)
      BY <1>2, <2>1
    <3>2. \A m \in Matches : \E k \in 0..2 : m \in [1..k -> disk.policies]
      BY Zenon DEF Matches
    <3>3. 0..2 \subseteq Nat
      OBVIOUS
    <3> QED BY <3>1, <3>2, <3>3
  <2>2. disk.policies \subseteq Effects /\ (disk.policies # {} => Activated(effects))
    BY DEF TeamsInv, FilesSound
  <2> QED BY <2>1, <2>2, DecisionSound
<1>5. Happened(n, effects') /\ effects \subseteq effects'
  <2> DEFINE e == <<n, c.kind>>
  <2>1. e[1] = n /\ e \in effects' /\ effects \subseteq effects'
    BY <1>0
  <2> HIDE DEF e
  <2> QED BY <2>1 DEF Happened
<1>6. Activated(effects) => Activated(effects')
  BY <1>0 DEF Activated
<1>7. r = Idle \/ (r.pc = "record" /\ r.n = n /\ r.cmd = c /\ r.decided = decided)
  OBVIOUS
<1> HIDE DEF r
<1>8. CallerSound(r, effects', statesSeen', disk'.projects # <<>>)
  <2>1. CASE r = Idle
    BY <2>1, IdleSound
  <2>2. CASE r.pc = "record" /\ r.n = n /\ r.cmd = c /\ r.decided = decided
    BY <2>2, <1>1, <1>4, <1>5, <1>6 DEF CallerSound
  <2> QED BY <1>7, <2>1, <2>2
<1>9. CallersSound'
  BY <1>0, <1>3, <1>5, <1>8, CallersStep DEF TeamsInv
<1>10. InTurn(r, disk', tmp')
  BY <1>7 DEF InTurn, Idle
<1>11. OneByOne'
  BY <1>0, <1>3, <1>10, OthersIdle, TurnStep DEF TeamsInv, SequentialHolds, OneByOne
<1>12. FilesSound' /\ StagedSound'
  BY <1>0, <1>5, <1>6, AuditStays DEF TeamsInv, FilesSound, StagedSound
<1> QED BY <1>0, <1>9, <1>11, <1>12 DEF TeamsInv, SequentialHolds, SequentialKeepsAll

LEMMA MakeStep ==
    ASSUME TeamsInv, NEW p \in Callers, Make(p)
    PROVE  TeamsInv'
<1> DEFINE c == proc[p].cmd
           f == FileOf(c.kind)
           x == proc[p].read[1]
<1>0. /\ proc[p].pc = "make" /\ CallerSound(proc[p], effects, statesSeen, disk.projects # <<>>)
      /\ UNCHANGED <<disk, began, kills, effects, recorded, spent, statesSeen, overlapped>>
  BY DEF Make, TeamsInv, CallersSound
<1>1. /\ c \in CommandLines /\ proc[p].n \in Nat /\ f # "none"
      /\ f = "approvals" => SoundApprovals(x)
  BY <1>0 DEF CallerSound
<1>2. f \in Files \ {"audit", "checkpoints"}
  BY <1>1, FilesOfCommand DEF Files
<1>3. CASE proc' = [proc EXCEPT ![p] = Idle] /\ UNCHANGED tmp
  <2>1. CallersSound'
    BY <1>0, <1>3, IdleSound, CallersStep DEF TeamsInv
  <2>2. OneByOne'
    BY <1>0, <1>3, IdleSound, OthersIdle, TurnStep DEF TeamsInv, SequentialHolds, OneByOne
  <2> QED BY <1>0, <1>3, <2>1, <2>2, FilesStay DEF TeamsInv, SequentialHolds, SequentialKeepsAll
<1>4. ASSUME NEW y \in Made(c, x), tmp' = [tmp EXCEPT ![f] = <<y>>],
             proc' = [proc EXCEPT ![p] = [pc |-> "replace", n |-> @.n, cmd |-> c]]
      PROVE  TeamsInv'
  <2> DEFINE r == [pc |-> "replace", n |-> proc[p].n, cmd |-> c]
  <2>1. proc' = [proc EXCEPT ![p] = r] /\ r.pc = "replace" /\ r.n = proc[p].n /\ r.cmd = c
    BY <1>4
  <2> HIDE DEF r
  <2>2. CallerSound(r, effects', statesSeen', disk'.projects # <<>>)
    BY <1>0, <1>1, <2>1 DEF CallerSound
  <2>3. CallersSound'
    BY <1>0, <2>1, <2>2, CallersStep DEF TeamsInv
  <2>4. /\ DOMAIN tmp' = Files /\ tmp'[f] = <<y>> /\ \A g \in Files : g # f => tmp'[g] = tmp[g]
        /\ <<y>>[1] = y /\ <<y>> # <<>>
    BY <1>2, <1>4 DEF TeamsInv, StagedSound
  <2>5. StagedSound'
    <3>1. tmp'["audit"] = tmp["audit"] /\ tmp'["checkpoints"] = tmp["checkpoints"]
      BY <1>2, <2>4 DEF Files
    <3>2. tmp'["policies"] # <<>> => tmp'["policies"][1] \subseteq Effects
      <4>1. CASE f = "policies"
        BY <1>1, <2>4, <4>1, FilesOfCommand, FilesMade
      <4>2. CASE f # "policies"
        BY <2>4, <4>2 DEF TeamsInv, StagedSound, Files
      <4> QED BY <4>1, <4>2
    <3>3. tmp'["approvals"] # <<>> => SoundApprovals(tmp'["approvals"][1])
      <4>1. CASE f = "approvals"
        BY <1>1, <1>4, <2>4, <4>1, FilesOfCommand, ApprovalsMade
      <4>2. CASE f # "approvals"
        BY <2>4, <4>2 DEF TeamsInv, StagedSound, Files
      <4> QED BY <4>1, <4>2
    <3>4. tmp'["projects"] # <<>> => Project(tmp'["projects"][1])
      <4>1. CASE f = "projects"
        BY <1>1, <1>4, <2>4, <4>1, FilesOfCommand, FilesMade
      <4>2. CASE f # "projects"
        BY <2>4, <4>2 DEF TeamsInv, StagedSound, Files
      <4> QED BY <4>1, <4>2
    <3> QED BY <1>0, <2>4, <3>1, <3>2, <3>3, <3>4 DEF TeamsInv, StagedSound
  <2>6. FilesSound'
    BY <1>0 DEF TeamsInv, FilesSound
  <2>7. ~overlapped' => InTurn(r, disk', tmp')
    <3> SUFFICES ASSUME ~overlapped PROVE InTurn(r, disk, tmp')
      BY <1>0
    <3>1. x = disk[f]
      BY <1>0 DEF TeamsInv, SequentialHolds, OneByOne, InTurn
    <3>2. c.kind = "limit" => f = "budgets" /\ y \in SetLimit(c, disk["budgets"])
      BY <1>1, <3>1, FilesOfCommand DEF Made
    <3>3. c.kind = "charge" => f = "budgets" /\ y \in Charge(c, disk["budgets"])
      BY <1>1, <3>1, FilesOfCommand DEF Made
    <3> QED BY <2>1, <2>4, <3>2, <3>3 DEF InTurn
  <2>8. OneByOne'
    BY <1>0, <2>1, <2>7, OthersIdle, TurnStep DEF TeamsInv, SequentialHolds, OneByOne
  <2> QED BY <1>0, <2>3, <2>5, <2>6, <2>8 DEF TeamsInv, SequentialHolds, SequentialKeepsAll
<1> QED BY <1>3, <1>4 DEF Make

LEMMA ReadListStep ==
    ASSUME TeamsInv, NEW p \in Callers, ReadList(p)
    PROVE  TeamsInv'
<1> DEFINE c == proc[p].cmd
           n == proc[p].n
           f == RecordsIn(c)
           list == disk[f]
           entry == IF f = "audit"
                    THEN [n |-> n, what |-> What(c, proc[p].decided), previous |-> PreviousOf(list)]
                    ELSE [n |-> n, state |-> disk.projects[1].state]
           r == [pc |-> "stage", n |-> n, cmd |-> c, list |-> Append(list, entry)]
<1>0. /\ proc[p].pc = "record" /\ CallerSound(proc[p], effects, statesSeen, disk.projects # <<>>)
      /\ proc' = [proc EXCEPT ![p] = r]
      /\ UNCHANGED <<disk, tmp, began, kills, effects, recorded, spent, statesSeen, overlapped>>
  BY DEF ReadList, TeamsInv, CallersSound
<1>1. /\ c \in CommandLines /\ n \in Nat /\ f # "none" /\ Happened(n, effects)
      /\ f = "checkpoints" => disk.projects # <<>>
      /\ c.kind = "evaluate" =>
             proc[p].decided \in Effects /\ (proc[p].decided = "allow" => Activated(effects))
  BY <1>0 DEF CallerSound
<1>2. f \in {"audit", "checkpoints"}
  BY <1>1, FilesOfCommand
<1>3. r.pc = "stage" /\ r.n = n /\ r.cmd = c /\ r.list = Append(list, entry)
  OBVIOUS
<1>4. CASE f = "audit"
  <2> DEFINE e == [n |-> n, what |-> What(c, proc[p].decided), previous |-> PreviousOf(list)]
  <2>1. entry = e /\ list = disk.audit
    BY <1>4
  <2>2. SoundAudit(list, effects) /\ list \in Seq(AuditRecords)
    BY <2>1 DEF TeamsInv, FilesSound, SoundAudit
  <2>3. PreviousOf(list) \in Nat
    <3>1. CASE list = <<>>
      BY <3>1 DEF PreviousOf
    <3>2. CASE list # <<>>
      <4>1. list[Len(list)] \in AuditRecords
        BY <2>2, <3>2
      <4> QED BY <3>2, <4>1 DEF PreviousOf, AuditRecords
    <3> QED BY <3>1, <3>2
  <2>4. /\ What(c, proc[p].decided) \in Effects \union {"members", "activate", "put", "get"}
        /\ What(c, proc[p].decided) = "allow" => Activated(effects)
    BY <1>1, <1>4, FilesOfCommand DEF What
  <2>5. e \in AuditRecords /\ e.n = n /\ e.what = What(c, proc[p].decided) /\ e.previous = PreviousOf(list)
    BY <1>1, <2>3, <2>4 DEF AuditRecords
  <2> HIDE DEF e, list
  <2>6. SoundAudit(Append(list, e), effects)
    BY <1>1, <2>2, <2>4, <2>5, AuditAdded
  <2>7. Numbers(list) \union {n} \subseteq Numbers(Append(list, e))
    BY <2>2, <2>5, RecordAdded
  <2>8. r.list = Append(list, e)
    BY <1>3, <2>1
  <2> HIDE DEF r
  <2>9. CallerSound(r, effects, statesSeen, disk.projects # <<>>)
    BY <1>1, <1>3, <1>4, <2>6, <2>8 DEF CallerSound
  <2>10. InTurn(r, disk, tmp)
    BY <1>3, <2>7, <2>8 DEF InTurn, list
  <2>11. CallersSound'
    BY <1>0, <2>9, CallersStep DEF TeamsInv
  <2>12. OneByOne'
    BY <1>0, <2>10, OthersIdle, TurnStep DEF TeamsInv, SequentialHolds, OneByOne
  <2> QED BY <1>0, <2>11, <2>12, FilesStay DEF TeamsInv, SequentialHolds, SequentialKeepsAll
<1>5. CASE f = "checkpoints"
  <2> DEFINE e == [n |-> n, state |-> disk.projects[1].state]
  <2>1. entry = e /\ list = disk.checkpoints
    BY <1>5
  <2>2. SoundCheckpoints(list, statesSeen) /\ list \in Seq(Checkpoints)
    BY <2>1 DEF TeamsInv, FilesSound, SoundCheckpoints
  <2>3. disk.projects[1].state \in States /\ disk.projects[1].state \in statesSeen
    BY <1>1, <1>5 DEF TeamsInv, FilesSound, Project
  <2>4. e \in Checkpoints /\ e.n = n /\ e.state = disk.projects[1].state
    BY <1>1, <2>3 DEF Checkpoints
  <2> HIDE DEF e, list
  <2>6. SoundCheckpoints(Append(list, e), statesSeen)
    BY <2>2, <2>3, <2>4, CheckpointAdded
  <2>7. Numbers(list) \union {n} \subseteq Numbers(Append(list, e))
    BY <2>2, <2>4, RecordAdded
  <2>8. r.list = Append(list, e)
    BY <1>3, <2>1
  <2> HIDE DEF r
  <2>9. CallerSound(r, effects, statesSeen, disk.projects # <<>>)
    BY <1>1, <1>3, <1>5, <2>6, <2>8 DEF CallerSound
  <2>10. InTurn(r, disk, tmp)
    BY <1>3, <2>7, <2>8 DEF InTurn, list
  <2>11. CallersSound'
    BY <1>0, <2>9, CallersStep DEF TeamsInv
  <2>12. OneByOne'
    BY <1>0, <2>10, OthersIdle, TurnStep DEF TeamsInv, SequentialHolds, OneByOne
  <2> QED BY <1>0, <2>11, <2>12, FilesStay DEF TeamsInv, SequentialHolds, SequentialKeepsAll
<1> QED BY <1>2, <1>4, <1>5

LEMMA KillStep ==
    ASSUME TeamsInv, NEW p \in Callers, Kill(p)
    PROVE  TeamsInv'
<1>0. /\ proc[p].pc # "idle" /\ proc' = [proc EXCEPT ![p] = Idle]
      /\ UNCHANGED <<disk, tmp, began, effects, recorded, spent, statesSeen, overlapped>>
  BY DEF Kill
<1>1. CallersSound'
  BY <1>0, IdleSound, CallersStep DEF TeamsInv
<1>2. OneByOne'
  BY <1>0, IdleSound, OthersIdle, TurnStep DEF TeamsInv, SequentialHolds, OneByOne
<1> QED BY <1>0, <1>1, <1>2, FilesStay DEF TeamsInv, SequentialHolds, SequentialKeepsAll

LEMMA StageStep ==
    ASSUME TeamsInv, NEW p \in Callers, Stage(p)
    PROVE  TeamsInv'
<1> DEFINE c == proc[p].cmd
           f == RecordsIn(c)
           list == proc[p].list
           r == [pc |-> "keep", n |-> proc[p].n, cmd |-> c]
<1>0. /\ proc[p].pc = "stage" /\ CallerSound(proc[p], effects, statesSeen, disk.projects # <<>>)
      /\ tmp' = [tmp EXCEPT ![f] = <<list>>] /\ proc' = [proc EXCEPT ![p] = r]
      /\ UNCHANGED <<disk, began, kills, effects, recorded, spent, statesSeen, overlapped>>
  BY DEF Stage, TeamsInv, CallersSound
<1>1. /\ c \in CommandLines /\ proc[p].n \in Nat /\ f # "none" /\ Happened(proc[p].n, effects)
      /\ f = "checkpoints" => disk.projects # <<>>
      /\ f = "audit" => SoundAudit(list, effects)
      /\ f = "checkpoints" => SoundCheckpoints(list, statesSeen)
  BY <1>0 DEF CallerSound
<1>2. f \in {"audit", "checkpoints"}
  BY <1>1, FilesOfCommand
<1>3. r.pc = "keep" /\ r.n = proc[p].n /\ r.cmd = c
  OBVIOUS
<1> HIDE DEF r
<1>4. /\ DOMAIN tmp' = Files /\ tmp'[f] = <<list>> /\ \A g \in Files : g # f => tmp'[g] = tmp[g]
      /\ <<list>>[1] = list /\ <<list>> # <<>>
  BY <1>0, <1>2 DEF TeamsInv, StagedSound, Files
<1>5. StagedSound'
  <2>1. /\ tmp'["policies"] = tmp["policies"] /\ tmp'["approvals"] = tmp["approvals"]
        /\ tmp'["projects"] = tmp["projects"]
    BY <1>2, <1>4 DEF Files
  <2>2. CASE f = "audit"
    <3>1. tmp'["checkpoints"] = tmp["checkpoints"]
      BY <1>4, <2>2 DEF Files
    <3> QED BY <1>0, <1>1, <1>4, <2>1, <2>2, <3>1 DEF TeamsInv, StagedSound
  <2>3. CASE f = "checkpoints"
    <3>1. tmp'["audit"] = tmp["audit"]
      BY <1>4, <2>3 DEF Files
    <3> QED BY <1>0, <1>1, <1>4, <2>1, <2>3, <3>1 DEF TeamsInv, StagedSound
  <2> QED BY <1>2, <2>2, <2>3
<1>6. FilesSound'
  BY <1>0 DEF TeamsInv, FilesSound
<1>7. CallersSound'
  <2>1. CallerSound(r, effects', statesSeen', disk'.projects # <<>>)
    BY <1>0, <1>1, <1>3 DEF CallerSound
  <2> QED BY <1>0, <2>1, CallersStep DEF TeamsInv
<1>8. OneByOne'
  <2>1. ~overlapped' => InTurn(r, disk', tmp')
    <3> SUFFICES ASSUME ~overlapped PROVE InTurn(r, disk, tmp')
      BY <1>0
    <3>1. Numbers(disk[f]) \union {proc[p].n} \subseteq Numbers(list)
      BY <1>0 DEF TeamsInv, SequentialHolds, OneByOne, InTurn
    <3> QED BY <1>3, <1>4, <3>1 DEF InTurn
  <2> QED BY <1>0, <2>1, OthersIdle, TurnStep DEF TeamsInv, SequentialHolds, OneByOne
<1> QED BY <1>0, <1>5, <1>6, <1>7, <1>8 DEF TeamsInv, SequentialHolds, SequentialKeepsAll

LEMMA KeepStep ==
    ASSUME TeamsInv, NEW p \in Callers, Keep(p)
    PROVE  TeamsInv'
<1> DEFINE c == proc[p].cmd
           f == RecordsIn(c)
           list == tmp[f][1]
<1>0. /\ proc[p].pc = "keep" /\ CallerSound(proc[p], effects, statesSeen, disk.projects # <<>>)
      /\ proc' = [proc EXCEPT ![p] = Idle]
      /\ UNCHANGED <<began, kills, effects, spent, statesSeen, overlapped>>
  BY DEF Keep, TeamsInv, CallersSound
<1>1. c \in CommandLines /\ f \in {"audit", "checkpoints"}
  BY <1>0, FilesOfCommand DEF CallerSound
<1>2. CASE UNCHANGED <<disk, tmp, recorded>>
  <2>1. CallersSound'
    BY <1>0, <1>2, IdleSound, CallersStep DEF TeamsInv
  <2>2. OneByOne'
    BY <1>0, <1>2, IdleSound, OthersIdle, TurnStep DEF TeamsInv, SequentialHolds, OneByOne
  <2> QED BY <1>0, <1>2, <2>1, <2>2, FilesStay DEF TeamsInv, SequentialHolds, SequentialKeepsAll
<1>3. CASE /\ tmp[f] # <<>> /\ disk' = [disk EXCEPT ![f] = list] /\ tmp' = [tmp EXCEPT ![f] = <<>>]
           /\ recorded' = recorded \union {proc[p].n}
  <2>1. /\ DOMAIN disk' = Files /\ disk'[f] = list /\ \A g \in Files : g # f => disk'[g] = disk[g]
        /\ DOMAIN tmp' = Files /\ tmp'[f] = <<>> /\ \A g \in Files : g # f => tmp'[g] = tmp[g]
    BY <1>1, <1>3 DEF TeamsInv, FilesSound, StagedSound, Files
  <2> HIDE DEF list
  <2>2. /\ disk'.policies = disk.policies /\ disk'.approvals = disk.approvals
        /\ disk'.projects = disk.projects /\ disk'.budgets = disk.budgets
        /\ tmp'["policies"] = tmp["policies"] /\ tmp'["approvals"] = tmp["approvals"]
        /\ tmp'["projects"] = tmp["projects"]
    BY <1>1, <2>1 DEF Files
  <2>3. FilesSound' /\ StagedSound'
    <3>1. CASE f = "audit"
      <4>1. disk'.checkpoints = disk.checkpoints /\ tmp'["checkpoints"] = tmp["checkpoints"]
        BY <2>1, <3>1 DEF Files
      <4>2. disk'.audit = list /\ tmp'["audit"] = <<>> /\ SoundAudit(list, effects)
        BY <1>3, <2>1, <3>1 DEF TeamsInv, StagedSound, list
      <4> QED BY <1>0, <2>1, <2>2, <4>1, <4>2 DEF TeamsInv, FilesSound, StagedSound
    <3>2. CASE f = "checkpoints"
      <4>1. disk'.audit = disk.audit /\ tmp'["audit"] = tmp["audit"]
        BY <2>1, <3>2 DEF Files
      <4>2. disk'.checkpoints = list /\ tmp'["checkpoints"] = <<>> /\ SoundCheckpoints(list, statesSeen)
        BY <1>3, <2>1, <3>2 DEF TeamsInv, StagedSound, list
      <4> QED BY <1>0, <2>1, <2>2, <4>1, <4>2 DEF TeamsInv, FilesSound, StagedSound
    <3> QED BY <1>1, <3>1, <3>2
  <2>4. CallersSound'
    BY <1>0, <2>2, IdleSound, CallersStep DEF TeamsInv
  <2>5. OneByOne'
    BY <1>0, <2>2, IdleSound, OthersIdle, TurnStep DEF TeamsInv, SequentialHolds, OneByOne
  <2>6. SequentialKeepsAll'
    <3> SUFFICES ASSUME ~overlapped
                 PROVE  /\ disk'.budgets # <<>> =>
                               disk'.budgets[1].spent = spent' /\ spent' <= disk'.budgets[1].limit
                        /\ recorded' \subseteq Numbers(disk'.audit) \union Numbers(disk'.checkpoints)
      BY <1>0 DEF SequentialKeepsAll, Numbers
    <3>1. /\ disk.budgets # <<>> => disk.budgets[1].spent = spent /\ spent <= disk.budgets[1].limit
          /\ recorded \subseteq Numbers(disk.audit) \union Numbers(disk.checkpoints)
      BY DEF TeamsInv, SequentialHolds, SequentialKeepsAll, Numbers
    <3>2. Numbers(disk[f]) \union {proc[p].n} \subseteq Numbers(list)
      BY <1>0, <1>3 DEF TeamsInv, SequentialHolds, OneByOne, InTurn, list
    <3>3. CASE f = "audit"
      <4>1. disk'.checkpoints = disk.checkpoints /\ disk'.audit = list /\ disk[f] = disk.audit
        BY <2>1, <3>3 DEF Files
      <4> QED BY <1>0, <1>3, <2>2, <3>1, <3>2, <4>1
    <3>4. CASE f = "checkpoints"
      <4>1. disk'.audit = disk.audit /\ disk'.checkpoints = list /\ disk[f] = disk.checkpoints
        BY <2>1, <3>4 DEF Files
      <4> QED BY <1>0, <1>3, <2>2, <3>1, <3>2, <4>1
    <3> QED BY <1>1, <3>3, <3>4
  <2> QED BY <1>0, <2>3, <2>4, <2>5, <2>6 DEF TeamsInv, SequentialHolds
<1> QED BY <1>2, <1>3 DEF Keep

\* What a process that keeps to the budget leaves in it.
LEMMA BudgetMade ==
    ASSUME NEW c \in CommandLines, NEW items, items # <<>> => items[1] \in Budgets, NEW y
    PROVE  /\ c.kind = "limit" /\ y \in SetLimit(c, items) =>
                  y # <<>> /\ y[1] \in Budgets /\ y[1].spent = 0 /\ y[1].limit \in Nat
           /\ c.kind = "charge" /\ y \in Charge(c, items) =>
                  /\ items # <<>> /\ y # <<>> /\ y[1] \in Budgets
                  /\ y[1].spent = items[1].spent + c.amount /\ y[1].spent <= y[1].limit
<1>1. ASSUME c.kind = "limit", y \in SetLimit(c, items)
      PROVE  y # <<>> /\ y[1] \in Budgets /\ y[1].spent = 0 /\ y[1].limit \in Nat
  <2> DEFINE b == [limit |-> c.limit, threshold |-> c.threshold, spent |-> 0]
  <2>1. b \in Budgets /\ b.spent = 0 /\ b.limit \in Nat
    BY <1>1, CommandFacts DEF Budgets
  <2>2. y = <<b>>
    BY <1>1 DEF SetLimit
  <2> HIDE DEF b
  <2> QED BY <2>1, <2>2
<1>2. ASSUME c.kind = "charge", y \in Charge(c, items)
      PROVE  /\ items # <<>> /\ y # <<>> /\ y[1] \in Budgets
             /\ y[1].spent = items[1].spent + c.amount /\ y[1].spent <= y[1].limit
  <2> DEFINE a == items[1]
             b == [a EXCEPT !.spent = @ + c.amount]
  <2>1. items # <<>> /\ WithinLimit(a, c.amount) /\ y = <<b>>
    BY <1>2 DEF Charge
  <2>2. a \in Budgets /\ c.amount \in Nat
    BY <1>2, <2>1, CommandFacts
  <2>3. b \in Budgets /\ b.spent = a.spent + c.amount /\ b.limit = a.limit
    BY <2>2 DEF Budgets
  <2>4. a.spent + c.amount <= a.limit
    BY <2>1 DEF WithinLimit
  <2> HIDE DEF b
  <2> QED BY <2>1, <2>3, <2>4
<1> QED BY <1>1, <1>2

LEMMA ReplaceStep ==
    ASSUME TeamsInv, NEW p \in Callers, Replace(p)
    PROVE  TeamsInv'
<1> DEFINE c == proc[p].cmd
           n == proc[p].n
           f == FileOf(c.kind)
           x == tmp[f][1]
           r == IF RecordsIn(c) = "none" THEN Idle
                ELSE [pc |-> "record", n |-> n, cmd |-> c, decided |-> "none"]
<1>0. /\ proc[p].pc = "replace" /\ CallerSound(proc[p], effects, statesSeen, disk.projects # <<>>)
      /\ UNCHANGED <<began, kills, recorded, overlapped>>
  BY DEF Replace, TeamsInv, CallersSound
<1>1. c \in CommandLines /\ n \in Nat /\ f # "none"
  BY <1>0 DEF CallerSound
<1>2. f \in Files \ {"audit", "checkpoints"}
  BY <1>1, FilesOfCommand DEF Files
<1>3. CASE proc' = [proc EXCEPT ![p] = Idle] /\ UNCHANGED <<disk, tmp, effects, spent, statesSeen>>
  <2>1. CallersSound'
    BY <1>0, <1>3, IdleSound, CallersStep DEF TeamsInv
  <2>2. OneByOne'
    BY <1>0, <1>3, IdleSound, OthersIdle, TurnStep DEF TeamsInv, SequentialHolds, OneByOne
  <2> QED BY <1>0, <1>3, <2>1, <2>2, FilesStay DEF TeamsInv, SequentialHolds, SequentialKeepsAll
<1>4. ASSUME tmp[f] # <<>>, disk' = [disk EXCEPT ![f] = x], tmp' = [tmp EXCEPT ![f] = <<>>],
             effects' = effects \union {<<n, c.kind>>},
             spent' = CASE c.kind = "limit" -> 0
                        [] c.kind = "charge" -> spent + c.amount
                        [] OTHER -> spent,
             statesSeen' = IF f = "projects" THEN statesSeen \union {x[1].state} ELSE statesSeen,
             After(p, RecordsIn(c))
      PROVE  TeamsInv'
  <2>1. /\ DOMAIN disk' = Files /\ disk'[f] = x /\ \A g \in Files : g # f => disk'[g] = disk[g]
        /\ DOMAIN tmp' = Files /\ tmp'[f] = <<>> /\ \A g \in Files : g # f => tmp'[g] = tmp[g]
    BY <1>2, <1>4 DEF TeamsInv, FilesSound, StagedSound
  <2>2. /\ disk'.audit = disk.audit /\ disk'.checkpoints = disk.checkpoints
        /\ tmp'["audit"] = tmp["audit"] /\ tmp'["checkpoints"] = tmp["checkpoints"]
    BY <1>2, <2>1 DEF Files
  <2>3. /\ effects \subseteq effects' /\ Happened(n, effects')
        /\ c.kind = "activate" => Activated(effects')
    <3> DEFINE e == <<n, c.kind>>
    <3>1. e[1] = n /\ e[2] = c.kind /\ e \in effects' /\ effects \subseteq effects'
      BY <1>4
    <3> HIDE DEF e
    <3> QED BY <3>1 DEF Happened, Activated
  <2>4. statesSeen \subseteq statesSeen' /\ (f = "projects" => x[1].state \in statesSeen')
    BY <1>4
  <2>5. Activated(effects) => Activated(effects')
    BY <2>3 DEF Activated
  <2> HIDE DEF x
  <2>6. disk'.policies \subseteq Effects /\ (disk'.policies # {} => Activated(effects'))
    <3>1. CASE f = "policies"
      <4>1. disk'.policies = x /\ x \subseteq Effects
        BY <1>4, <2>1, <3>1 DEF TeamsInv, StagedSound, x
      <4> QED BY <1>1, <2>3, <3>1, <4>1, FilesOfCommand
    <3>2. CASE f # "policies"
      BY <2>1, <2>5, <3>2 DEF TeamsInv, FilesSound, Files
    <3> QED BY <3>1, <3>2
  <2>7. SoundApprovals(disk'.approvals)
    <3>1. CASE f = "approvals"
      BY <1>4, <2>1, <3>1 DEF TeamsInv, StagedSound, x
    <3>2. CASE f # "approvals"
      BY <2>1, <3>2 DEF TeamsInv, FilesSound, Files
    <3> QED BY <3>1, <3>2
  <2>8. f = "projects" => disk'.projects = x /\ Project(x)
    BY <1>4, <2>1 DEF TeamsInv, StagedSound, x
  <2>9. f # "projects" => disk'.projects = disk.projects
    BY <2>1 DEF Files
  <2>10. disk'.projects # <<>> => Project(disk'.projects) /\ disk'.projects[1].state \in statesSeen'
    BY <2>4, <2>8, <2>9 DEF TeamsInv, FilesSound
  <2>11. FilesSound'
    BY <2>1, <2>2, <2>3, <2>4, <2>6, <2>7, <2>10, AuditStays, CheckpointsStay DEF TeamsInv, FilesSound
  <2>12. StagedSound'
    <3>1. tmp'["policies"] # <<>> => tmp'["policies"][1] \subseteq Effects
      BY <2>1 DEF TeamsInv, StagedSound, Files
    <3>2. tmp'["approvals"] # <<>> => SoundApprovals(tmp'["approvals"][1])
      BY <2>1 DEF TeamsInv, StagedSound, Files
    <3>3. tmp'["projects"] # <<>> => Project(tmp'["projects"][1])
      BY <2>1 DEF TeamsInv, StagedSound, Files
    <3> QED BY <2>1, <2>2, <2>3, <2>4, <3>1, <3>2, <3>3, AuditStays, CheckpointsStay
            DEF TeamsInv, StagedSound
  <2>13. proc' = [proc EXCEPT ![p] = r]
    BY <1>4 DEF After
  <2>14. /\ RecordsIn(c) = "none" => r = Idle
         /\ RecordsIn(c) # "none" => r.pc = "record" /\ r.n = n /\ r.cmd = c
    OBVIOUS
  <2> HIDE DEF r
  <2>15. CallerSound(r, effects', statesSeen', disk'.projects # <<>>)
    <3>1. CASE RecordsIn(c) = "none"
      BY <2>14, <3>1, IdleSound
    <3>2. CASE RecordsIn(c) # "none"
      <4>1. RecordsIn(c) = "checkpoints" => disk'.projects # <<>>
        BY <1>1, <2>8, FilesOfCommand DEF Project
      <4>2. c.kind # "evaluate"
        BY <1>1 DEF FileOf
      <4> QED BY <1>1, <2>3, <2>14, <3>2, <4>1, <4>2 DEF CallerSound
    <3> QED BY <3>1, <3>2
  <2>16. CallersSound'
    BY <2>3, <2>4, <2>8, <2>9, <2>13, <2>15, CallersStep DEF TeamsInv, Project
  <2>17. spent' \in Nat
    BY <1>1, <1>4, CommandFacts DEF TeamsInv, SequentialHolds
  <2>18. ASSUME ~overlapped
         PROVE  disk'.budgets # <<>> =>
                    /\ disk'.budgets[1] \in Budgets
                    /\ disk'.budgets[1].spent = spent' /\ spent' <= disk'.budgets[1].limit
    <3>1. disk.budgets # <<>> =>
              /\ disk.budgets[1] \in Budgets
              /\ disk.budgets[1].spent = spent /\ spent <= disk.budgets[1].limit
      BY <2>18 DEF TeamsInv, SequentialHolds, OneByOne, SequentialKeepsAll
    <3>2. InTurn(proc[p], disk, tmp)
      BY <2>18 DEF TeamsInv, SequentialHolds, OneByOne
    <3>3. CASE c.kind = "limit"
      <4>1. f = "budgets" /\ x \in SetLimit(c, disk.budgets)
        BY <1>0, <1>1, <3>2, <3>3, FilesOfCommand DEF InTurn, x
      <4>2. disk'.budgets = x /\ spent' = 0
        BY <1>4, <2>1, <3>3, <4>1
      <4> QED BY <1>1, <3>1, <3>3, <4>1, <4>2, BudgetMade
    <3>4. CASE c.kind = "charge"
      <4>1. f = "budgets" /\ x \in Charge(c, disk.budgets)
        BY <1>0, <1>1, <3>2, <3>4, FilesOfCommand DEF InTurn, x
      <4>2. disk'.budgets = x /\ spent' = spent + c.amount
        BY <1>4, <2>1, <3>4, <4>1
      <4> QED BY <1>1, <3>1, <3>4, <4>1, <4>2, BudgetMade
    <3>5. CASE c.kind \notin {"limit", "charge"}
      <4>1. f # "budgets" /\ spent' = spent
        BY <1>1, <1>4, <3>5, FilesOfCommand
      <4>2. disk'.budgets = disk.budgets
        BY <2>1, <4>1 DEF Files
      <4> QED BY <3>1, <4>1, <4>2
    <3> QED BY <3>3, <3>4, <3>5
  <2>19. InTurn(r, disk', tmp')
    BY <2>14 DEF InTurn, Idle
  <2>20. OneByOne'
    BY <1>0, <2>13, <2>18, <2>19, OthersIdle, TurnStep DEF TeamsInv, SequentialHolds
  <2>21. SequentialKeepsAll'
    BY <1>0, <2>2, <2>18 DEF TeamsInv, SequentialHolds, SequentialKeepsAll
  <2> QED BY <1>0, <2>11, <2>12, <2>16, <2>17, <2>20, <2>21 DEF TeamsInv, SequentialHolds
<1> QED BY <1>3, <1>4 DEF Replace

-----------------------------------------------------------------------------
LEMMA TeamsInvInit == TeamsInit => TeamsInv
<1> SUFFICES ASSUME TeamsInit PROVE TeamsInv
  OBVIOUS
<1>0. /\ disk = [identities |-> [i \in Ids |-> {}], policies |-> {},
                 approvals |-> [requests |-> <<>>, decisions |-> {}], secrets |-> {},
                 budgets |-> <<>>, projects |-> <<>>, audit |-> <<>>, checkpoints |-> <<>>]
      /\ tmp = [f \in Files |-> <<>>] /\ proc = [p \in Callers |-> Idle]
      /\ began = 0 /\ recorded = {} /\ spent = 0 /\ overlapped = FALSE
  BY DEF TeamsInit
<1>1. /\ DOMAIN disk = Files /\ disk.policies = {} /\ disk.budgets = <<>> /\ disk.projects = <<>>
      /\ disk.approvals = [requests |-> <<>>, decisions |-> {}]
      /\ disk.audit = <<>> /\ disk.checkpoints = <<>>
  BY <1>0 DEF Files
<1>2. FilesSound
  <2>1. SoundApprovals(disk.approvals)
    BY <1>1 DEF SoundApprovals
  <2>2. SoundAudit(disk.audit, effects) /\ SoundCheckpoints(disk.checkpoints, statesSeen)
    BY <1>1 DEF SoundAudit, SoundCheckpoints
  <2> QED BY <1>1, <2>1, <2>2 DEF FilesSound
<1>3. StagedSound
  BY <1>0 DEF StagedSound, Files
<1>4. CallersSound
  BY <1>0, IdleSound DEF CallersSound
<1>5. OneByOne
  BY <1>0, <1>1, IdleSound DEF OneByOne, Idle
<1>6. SequentialHolds
  BY <1>0, <1>1, <1>5 DEF SequentialHolds, SequentialKeepsAll
<1> QED BY <1>0, <1>2, <1>3, <1>4, <1>6 DEF TeamsInv

LEMMA TeamsInvStep == TeamsInv /\ [TeamsNext]_teamsVars => TeamsInv'
<1> SUFFICES ASSUME TeamsInv, [TeamsNext]_teamsVars PROVE TeamsInv'
  OBVIOUS
<1>1. ASSUME NEW p \in Callers, \E c \in Tried : BeginCommand(p, c) PROVE TeamsInv'
  BY <1>1, BeginStep
<1>2. ASSUME NEW p \in Callers,
             Look(p) \/ Make(p) \/ Replace(p) \/ ReadList(p) \/ Stage(p) \/ Keep(p) \/ Kill(p)
      PROVE  TeamsInv'
  BY <1>2, LookStep, MakeStep, ReplaceStep, ReadListStep, StageStep, KeepStep, KillStep
<1>3. CASE UNCHANGED teamsVars
  BY <1>3 DEF teamsVars, TeamsInv, FilesSound, StagedSound, CallersSound, SequentialHolds, OneByOne,
              SequentialKeepsAll
<1> QED BY <1>1, <1>2, <1>3 DEF TeamsNext

\* Whatever commands run at the same time, and wherever they are killed: what is approved was
\* approved by another than the one who asked, the audit's chain holds and tells of nothing that did
\* not happen, a checkpoint is of a state the project has had; and as long as commands come one
\* after the other, no record is lost and nothing is charged beyond the limit.
THEOREM TeamRecordsTrueHolds == TeamsSpec => []TeamRecordsTrue
<1>1. TeamsInv => TeamRecordsTrue
  <2> SUFFICES ASSUME TeamsInv PROVE TeamRecordsTrue
    OBVIOUS
  <2>1. ApprovedByAnother
    BY DEF TeamsInv, FilesSound, SoundApprovals, ApprovedByAnother
  <2>2. RecordsTrue
    <3>1. ChainValid
      BY DEF TeamsInv, FilesSound, SoundAudit, ChainValid
    <3>2. \A i \in DOMAIN disk.audit :
              Happened(disk.audit[i].n, effects) /\ (disk.audit[i].what = "allow" => Activated(effects))
      BY DEF TeamsInv, FilesSound, SoundAudit
    <3>3. \A i \in DOMAIN disk.audit : \E e \in effects :
              /\ e[1] = disk.audit[i].n
              /\ disk.audit[i].what = "allow" => \E a \in effects : a[2] = "activate"
      BY <3>2 DEF Happened, Activated
    <3>4. \A i \in DOMAIN disk.checkpoints : disk.checkpoints[i].state \in statesSeen
      BY DEF TeamsInv, FilesSound, SoundCheckpoints
    <3> QED BY <3>1, <3>3, <3>4 DEF RecordsTrue
  <2> QED BY <2>1, <2>2 DEF TeamsInv, SequentialHolds, TeamRecordsTrue
<1>2. TeamsSpec => []TeamsInv
  BY TeamsInvInit, TeamsInvStep, PTL DEF TeamsSpec
<1> QED BY <1>1, <1>2, PTL

-----------------------------------------------------------------------------
(***************************************************************************)
(* ToolServer: a call gets its own answer or none.                         *)
(***************************************************************************)

LifeStates == {"none", "running", "dead", "stopped"}
Pipes == [state : LifeStates, registered : BOOLEAN, inbox : Seq(Nat),
          outbox : Seq(Nat), readers : Int]
Calls == [at : {"idle", "wanting", "waiting"}, process : 0..MaxProcesses, id : Nat]
ServerTypes ==
    /\ server \in [Processes -> Pipes] /\ caller \in [ToolCallers -> Calls]
    /\ pipeLock \in [Processes -> ToolCallers \union {"free"}]
    /\ connection \in 0..MaxProcesses
    /\ starting \in [process : 0..MaxProcesses, step : {"none", "initialize", "list"}]
    /\ sends \in Nat /\ notes \in Nat

\* A process is called only after its start has ended, by the one who holds its lock.
Placed(st, cl, sv, lk) ==
    \A c \in ToolCallers : cl[c].at # "idle" =>
        /\ cl[c].process \in Processes /\ cl[c].process # st.process
        /\ sv[cl[c].process].state # "none"
        /\ cl[c].at = "waiting" => lk[cl[c].process] = c
Starts(st, cn, sv) ==
    /\ cn # 0 => sv[cn].state # "none" /\ cn # st.process
    /\ st.process # 0 => sv[st.process].state # "none"
    /\ \A p \in Processes : sv[p].state = "none" => sv[p].inbox = <<>> /\ sv[p].outbox = <<>>

\* What is in the pipes of a process is the one request that somebody waits for.
AwaitedIn(st, cl, p, id) ==
    \/ st.process = p
    \/ \E c \in ToolCallers : cl[c].at = "waiting" /\ cl[c].process = p /\ cl[c].id = id
PipeOwn(pipe, st, cl, p) ==
    /\ pipe.outbox # <<>> => Len(pipe.outbox) = 1 /\ AwaitedIn(st, cl, p, pipe.outbox[1])
    /\ pipe.state = "running" =>
           /\ pipe.inbox = <<>> \/ pipe.outbox = <<>>
           /\ pipe.inbox # <<>> => Len(pipe.inbox) = 1 /\ AwaitedIn(st, cl, p, pipe.inbox[1])
PipesOwn(st, cl, sv) == \A p \in Processes : PipeOwn(sv[p], st, cl, p)

ServerInv ==
    /\ ServerTypes
    /\ Placed(starting, caller, server, pipeLock) /\ Starts(starting, connection, server)
    /\ notes = 0 => PipesOwn(starting, caller, server)
    /\ AnswerIsOwn

-----------------------------------------------------------------------------
(* What the operators do to the pipes of a process. *)

Apart(after, before, p) == \A q \in Processes \ {p} : after[q] = before[q]

\* One field of a process's record.
LEMMA InboxIs ==
    ASSUME NEW r \in Pipes, NEW x \in Seq(Nat)
    PROVE  /\ [r EXCEPT !.inbox = x] \in Pipes /\ [r EXCEPT !.inbox = x].inbox = x
           /\ [r EXCEPT !.inbox = x].outbox = r.outbox /\ [r EXCEPT !.inbox = x].state = r.state
BY DEF Pipes

LEMMA OutboxIs ==
    ASSUME NEW r \in Pipes, NEW x \in Seq(Nat)
    PROVE  /\ [r EXCEPT !.outbox = x] \in Pipes /\ [r EXCEPT !.outbox = x].outbox = x
           /\ [r EXCEPT !.outbox = x].inbox = r.inbox /\ [r EXCEPT !.outbox = x].state = r.state
BY DEF Pipes

LEMMA StateIs ==
    ASSUME NEW r \in Pipes, NEW x \in LifeStates
    PROVE  /\ [r EXCEPT !.state = x] \in Pipes /\ [r EXCEPT !.state = x].state = x
           /\ [r EXCEPT !.state = x].inbox = r.inbox /\ [r EXCEPT !.state = x].outbox = r.outbox
BY DEF Pipes

LEMMA ReadersAre ==
    ASSUME NEW r \in Pipes, NEW x \in Int
    PROVE  /\ [r EXCEPT !.readers = x] \in Pipes /\ [r EXCEPT !.readers = x].state = r.state
           /\ [r EXCEPT !.readers = x].inbox = r.inbox /\ [r EXCEPT !.readers = x].outbox = r.outbox
BY DEF Pipes

LEMMA RegisteredIs ==
    ASSUME NEW r \in Pipes, NEW x \in BOOLEAN
    PROVE  /\ [r EXCEPT !.registered = x] \in Pipes
           /\ [r EXCEPT !.registered = x].state = r.state
           /\ [r EXCEPT !.registered = x].inbox = r.inbox
           /\ [r EXCEPT !.registered = x].outbox = r.outbox
BY DEF Pipes

LEMMA PlacedAt ==
    ASSUME NEW procs \in [Processes -> Pipes], NEW p \in Processes, NEW r \in Pipes
    PROVE  /\ [procs EXCEPT ![p] = r] \in [Processes -> Pipes] /\ [procs EXCEPT ![p] = r][p] = r
           /\ Apart([procs EXCEPT ![p] = r], procs, p)
BY DEF Apart

LEMMA FieldsAre ==
    ASSUME NEW r \in Pipes
    PROVE  r.state \in LifeStates /\ r.inbox \in Seq(Nat) /\ r.outbox \in Seq(Nat) /\ r.readers \in Int
BY DEF Pipes

LEMMA WrittenIs ==
    ASSUME NEW procs \in [Processes -> Pipes], NEW p \in Processes, sends \in Nat
    PROVE  /\ Written(procs, p) \in [Processes -> Pipes] /\ Apart(Written(procs, p), procs, p)
           /\ Written(procs, p)[p].state = procs[p].state
           /\ Written(procs, p)[p].outbox = procs[p].outbox
           /\ Written(procs, p)[p].inbox = Append(procs[p].inbox, sends + 1)
<1> DEFINE queue == Append(procs[p].inbox, sends + 1)
           queued == [procs[p] EXCEPT !.inbox = queue]
           now == [queued EXCEPT !.readers = procs[p].readers + 1]
<1>1. Written(procs, p) = [procs EXCEPT ![p] = now]
  BY DEF Written
<1>2. procs[p] \in Pipes
  OBVIOUS
<1>3. queue \in Seq(Nat) /\ procs[p].readers + 1 \in Int
  BY <1>2, FieldsAre
<1> HIDE DEF queue
<1>4. queued \in Pipes /\ queued.inbox = queue /\ queued.outbox = procs[p].outbox
      /\ queued.state = procs[p].state
  BY <1>2, <1>3, InboxIs
<1> HIDE DEF queued
<1>5. now \in Pipes /\ now.inbox = queue /\ now.outbox = procs[p].outbox
      /\ now.state = procs[p].state
  BY <1>3, <1>4, ReadersAre
<1> DEFINE after == [procs EXCEPT ![p] = now]
<1>6. after \in [Processes -> Pipes] /\ after[p] = now /\ Apart(after, procs, p)
  BY <1>5, PlacedAt
<1> HIDE DEF after, now
<1>7. Written(procs, p) = after
  BY <1>1 DEF after
<1> QED BY <1>5, <1>6, <1>7 DEF queue

LEMMA ReadIs ==
    ASSUME NEW procs \in [Processes -> Pipes], NEW p \in Processes
    PROVE  /\ LineRead(procs, p) \in [Processes -> Pipes] /\ Apart(LineRead(procs, p), procs, p)
           /\ LineRead(procs, p)[p].state = procs[p].state
           /\ LineRead(procs, p)[p].inbox = procs[p].inbox
           /\ LineRead(procs, p)[p].outbox =
                  IF procs[p].outbox = <<>> THEN <<>> ELSE Tail(procs[p].outbox)
<1> DEFINE left == IF procs[p].outbox = <<>> THEN procs[p].outbox ELSE Tail(procs[p].outbox)
           taken == [procs[p] EXCEPT !.outbox = left]
           now == [taken EXCEPT !.readers = procs[p].readers - 1]
<1>1. LineRead(procs, p) = [procs EXCEPT ![p] = now]
  BY DEF LineRead
<1>2. procs[p] \in Pipes
  OBVIOUS
<1>3. left \in Seq(Nat) /\ procs[p].readers - 1 \in Int
  BY <1>2, FieldsAre
<1>4. left = IF procs[p].outbox = <<>> THEN <<>> ELSE Tail(procs[p].outbox)
  OBVIOUS
<1> HIDE DEF left
<1>5. taken \in Pipes /\ taken.outbox = left /\ taken.inbox = procs[p].inbox
      /\ taken.state = procs[p].state
  BY <1>2, <1>3, OutboxIs
<1> HIDE DEF taken
<1>6. now \in Pipes /\ now.outbox = left /\ now.inbox = procs[p].inbox
      /\ now.state = procs[p].state
  BY <1>3, <1>5, ReadersAre
<1> DEFINE after == [procs EXCEPT ![p] = now]
<1>7. after \in [Processes -> Pipes] /\ after[p] = now /\ Apart(after, procs, p)
  BY <1>6, PlacedAt
<1> HIDE DEF after, now
<1>8. LineRead(procs, p) = after
  BY <1>1 DEF after
<1> QED BY <1>4, <1>6, <1>7, <1>8

LEMMA StoppedIs ==
    ASSUME NEW procs \in [Processes -> Pipes], NEW p \in Processes
    PROVE  /\ Stopped(procs, p) \in [Processes -> Pipes] /\ Apart(Stopped(procs, p), procs, p)
           /\ Stopped(procs, p)[p].state = "stopped" /\ Stopped(procs, p)[p].inbox = <<>>
           /\ Stopped(procs, p)[p].outbox = procs[p].outbox
<1> DEFINE ended == [procs[p] EXCEPT !.state = "stopped"]
           forgot == [ended EXCEPT !.registered = FALSE]
           now == [forgot EXCEPT !.inbox = <<>>]
<1>1. Stopped(procs, p) = [procs EXCEPT ![p] = now]
  BY DEF Stopped
<1>2. ended \in Pipes /\ ended.state = "stopped" /\ ended.outbox = procs[p].outbox
  <2>1. procs[p] \in Pipes
    OBVIOUS
  <2>2. "stopped" \in LifeStates
    BY DEF LifeStates
  <2> QED BY <2>1, <2>2, StateIs
<1> HIDE DEF ended
<1>3. forgot \in Pipes /\ forgot.state = "stopped" /\ forgot.outbox = procs[p].outbox
  BY <1>2, RegisteredIs
<1> HIDE DEF forgot
<1>4. now \in Pipes /\ now.state = "stopped" /\ now.outbox = procs[p].outbox /\ now.inbox = <<>>
  <2>1. <<>> \in Seq(Nat)
    OBVIOUS
  <2> QED BY <1>3, <2>1, InboxIs
<1> DEFINE after == [procs EXCEPT ![p] = now]
<1>5. after \in [Processes -> Pipes] /\ after[p] = now /\ Apart(after, procs, p)
  BY <1>4, PlacedAt
<1> HIDE DEF after, now
<1>6. Stopped(procs, p) = after
  BY <1>1 DEF after
<1> QED BY <1>4, <1>5, <1>6

LEMMA TimeoutIs ==
    ASSUME NEW procs \in [Processes -> Pipes], NEW p \in Processes
    PROVE  /\ AfterTimeout(procs, p) \in [Processes -> Pipes]
           /\ Apart(AfterTimeout(procs, p), procs, p)
           /\ AfterTimeout(procs, p)[p].state = "stopped" /\ AfterTimeout(procs, p)[p].inbox = <<>>
           /\ AfterTimeout(procs, p)[p].outbox = procs[p].outbox
<1> DEFINE ended == Stopped(procs, p)
           now == [ended[p] EXCEPT !.readers = ended[p].readers - 1]
<1>1. /\ ended \in [Processes -> Pipes] /\ Apart(ended, procs, p)
      /\ ended[p].state = "stopped" /\ ended[p].inbox = <<>>
      /\ ended[p].outbox = procs[p].outbox
  BY StoppedIs
<1>2. AfterTimeout(procs, p) = [ended EXCEPT ![p] = now]
  BY DEF AfterTimeout
<1> HIDE DEF ended
<1>3. now \in Pipes /\ now.state = "stopped" /\ now.inbox = <<>> /\ now.outbox = procs[p].outbox
  <2>1. ended[p] \in Pipes
    BY <1>1
  <2>2. ended[p].readers - 1 \in Int
    BY <2>1, FieldsAre
  <2> QED BY <1>1, <2>1, <2>2, ReadersAre
<1> HIDE DEF now
<1>4. /\ [ended EXCEPT ![p] = now] \in [Processes -> Pipes] /\ [ended EXCEPT ![p] = now][p] = now
      /\ Apart([ended EXCEPT ![p] = now], ended, p)
  BY <1>1, <1>3, PlacedAt
<1> QED BY <1>1, <1>2, <1>3, <1>4 DEF Apart

-----------------------------------------------------------------------------
(* Who waits for what is in the pipes. *)

LEMMA OthersOwn ==
    ASSUME NEW st1, NEW st2, NEW cl1, NEW cl2, NEW sv1, NEW sv2, NEW p,
           PipesOwn(st1, cl1, sv1), Apart(sv2, sv1, p), PipeOwn(sv2[p], st2, cl2, p),
           \A q \in Processes \ {p} : \A id :
               AwaitedIn(st1, cl1, q, id) => AwaitedIn(st2, cl2, q, id)
    PROVE  PipesOwn(st2, cl2, sv2)
<1> SUFFICES ASSUME NEW q \in Processes, q # p PROVE PipeOwn(sv2[q], st2, cl2, q)
  BY DEF PipesOwn
<1>1. PipeOwn(sv1[q], st1, cl1, q) /\ sv2[q] = sv1[q]
  BY DEF PipesOwn, Apart
<1> QED BY <1>1 DEF PipeOwn

\* A caller that goes on leaves the others to wait.
LEMMA OthersWait ==
    ASSUME NEW st, NEW cl1, NEW cl2, NEW c \in ToolCallers, NEW q,
           \A d \in ToolCallers \ {c} : cl2[d] = cl1[d],
           cl1[c].at # "waiting" \/ cl1[c].process # q
    PROVE  \A id : AwaitedIn(st, cl1, q, id) => AwaitedIn(st, cl2, q, id)
BY DEF AwaitedIn

\* Once its line is read, a process that runs has nothing in its pipes.
LEMMA Drained ==
    ASSUME NEW procs \in [Processes -> Pipes], NEW p \in Processes, NEW st, NEW cl,
           PipeOwn(procs[p], st, cl, p), procs[p].outbox # <<>> \/ procs[p].state # "running"
    PROVE  /\ LineRead(procs, p)[p].outbox = <<>>
           /\ procs[p].state = "running" => LineRead(procs, p)[p].inbox = <<>>
<1>1. procs[p].outbox \in Seq(Nat)
  BY FieldsAre
<1>2. procs[p].outbox # <<>> => Tail(procs[p].outbox) = <<>>
  <2> SUFFICES ASSUME procs[p].outbox # <<>> PROVE Tail(procs[p].outbox) = <<>>
    OBVIOUS
  <2>1. Len(procs[p].outbox) = 1
    BY DEF PipeOwn
  <2>2. Tail(procs[p].outbox) \in Seq(Nat) /\ Len(Tail(procs[p].outbox)) = 0
    BY <1>1, <2>1, HeadTailProperties
  <2> QED BY <2>2, EmptySeq
<1>3. procs[p].state = "running" => procs[p].inbox = <<>>
  BY DEF PipeOwn
<1> QED BY <1>2, <1>3, ReadIs

LEMMA CallerIs ==
    ASSUME NEW cl \in [ToolCallers -> Calls], NEW c \in ToolCallers, NEW r \in Calls
    PROVE  /\ [cl EXCEPT ![c] = r] \in [ToolCallers -> Calls] /\ [cl EXCEPT ![c] = r][c] = r
           /\ \A d \in ToolCallers \ {c} : [cl EXCEPT ![c] = r][d] = cl[d]
OBVIOUS

-----------------------------------------------------------------------------
(* The steps. *)

LEMMA ServerStarts == ServerInit => ServerInv
<1> SUFFICES ASSUME ServerInit PROVE ServerInv
  OBVIOUS
<1>1. NoProcess \in Pipes /\ NoProcess.inbox = <<>> /\ NoProcess.outbox = <<>>
  BY DEF NoProcess, Pipes, LifeStates
<1>2. MaxProcesses \in Nat
  BY ServerAssumption
<1>3. Nobody \in Calls /\ Nobody.at = "idle"
  BY <1>2 DEF Nobody, Calls
<1>4. ServerTypes
  BY <1>1, <1>2, <1>3 DEF ServerTypes, ServerInit
<1>5. /\ \A c \in ToolCallers : caller[c] = Nobody
      /\ \A p \in Processes : server[p] = NoProcess
      /\ starting.process = 0 /\ connection = 0
  BY DEF ServerInit
<1>6. Placed(starting, caller, server, pipeLock) /\ Starts(starting, connection, server)
  BY <1>1, <1>3, <1>5 DEF Placed, Starts
<1>7. PipesOwn(starting, caller, server)
  BY <1>1, <1>5 DEF PipesOwn, PipeOwn
<1>8. AnswerIsOwn
  BY DEF AnswerIsOwn, ServerInit
<1> QED BY <1>4, <1>6, <1>7, <1>8 DEF ServerInv

\* A step after which each process was started that had been, the lines of none were made before
\* its start, and nobody's call is at a process that is being started.
LEMMA SpawnKeeps ==
    ASSUME ServerInv, Spawn
    PROVE  ServerInv'
<1>1. PICK p \in Processes :
          /\ server[p].state = "none"
          /\ server' = [Written(server, p) EXCEPT ![p].state = "running", ![p].registered = TRUE]
          /\ starting' = [process |-> p, step |-> "initialize"]
  BY DEF Spawn
<1>2. /\ starting.process = 0 /\ sends' = sends + 1
      /\ UNCHANGED <<notes, serverKind, connection, pipeLock, caller, answers>>
  BY DEF Spawn
<1> DEFINE procs == Written(server, p)
           spawned == [procs[p] EXCEPT !.state = "running"]
           known == [spawned EXCEPT !.registered = TRUE]
           after == [procs EXCEPT ![p] = known]
<1>3. server' = after
  BY <1>1
<1>4. server \in [Processes -> Pipes] /\ sends \in Nat
  BY DEF ServerInv, ServerTypes
<1>5. /\ procs \in [Processes -> Pipes] /\ Apart(procs, server, p)
      /\ procs[p].outbox = server[p].outbox /\ procs[p].inbox = Append(server[p].inbox, sends + 1)
  BY <1>4, WrittenIs
<1> HIDE DEF procs
<1>6. procs[p] \in Pipes
  BY <1>5
<1>7. "running" \in LifeStates
  BY DEF LifeStates
<1>8. spawned \in Pipes /\ spawned.state = "running" /\ spawned.inbox = procs[p].inbox
      /\ spawned.outbox = procs[p].outbox
  BY <1>6, <1>7, StateIs
<1> HIDE DEF spawned
<1>9. known \in Pipes /\ known.state = "running" /\ known.inbox = procs[p].inbox
      /\ known.outbox = procs[p].outbox
  BY <1>8, RegisteredIs
<1> HIDE DEF known
<1>10. after \in [Processes -> Pipes] /\ after[p] = known /\ Apart(after, procs, p)
  BY <1>5, <1>9, PlacedAt
<1> HIDE DEF after
<1>11. Apart(after, server, p)
  BY <1>5, <1>10 DEF Apart
<1>12. server[p].inbox = <<>> /\ server[p].outbox = <<>>
  BY <1>1 DEF ServerInv, Starts
<1>13. /\ after[p].state = "running" /\ after[p].outbox = <<>>
       /\ after[p].inbox = Append(<<>>, sends + 1)
  BY <1>5, <1>9, <1>10, <1>12
<1>14. starting'.process = p /\ starting'.step = "initialize" /\ p # 0
  BY <1>1 DEF Processes
<1>15. ServerTypes'
  <2>1. starting' \in [process : 0..MaxProcesses, step : {"none", "initialize", "list"}]
    BY <1>1, ServerAssumption DEF Processes
  <2> QED BY <1>2, <1>3, <1>10, <2>1 DEF ServerInv, ServerTypes
<1>16. Placed(starting', caller', server', pipeLock')
  <2> SUFFICES ASSUME NEW c \in ToolCallers, caller[c].at # "idle"
               PROVE  /\ caller[c].process \in Processes /\ caller[c].process # p
                      /\ after[caller[c].process].state # "none"
                      /\ caller[c].at = "waiting" => pipeLock[caller[c].process] = c
    BY <1>2, <1>3, <1>14 DEF Placed
  <2>1. /\ caller[c].process \in Processes /\ server[caller[c].process].state # "none"
        /\ caller[c].at = "waiting" => pipeLock[caller[c].process] = c
    BY DEF ServerInv, Placed
  <2> QED BY <1>1, <1>11, <2>1 DEF Apart
<1>17. Starts(starting', connection', server')
  <2>1. connection # 0 => server[connection].state # "none" /\ connection \in Processes
    BY DEF ServerInv, Starts, ServerTypes, Processes
  <2>2. \A q \in Processes :
            server[q].state = "none" => server[q].inbox = <<>> /\ server[q].outbox = <<>>
    BY DEF ServerInv, Starts
  <2> QED BY <1>1, <1>2, <1>3, <1>11, <1>13, <1>14, <2>1, <2>2 DEF Apart, Starts
<1>18. notes = 0 => PipesOwn(starting', caller', server')
  <2> SUFFICES ASSUME notes = 0 PROVE PipesOwn(starting', caller, after)
    BY <1>2, <1>3
  <2>1. PipesOwn(starting, caller, server)
    BY DEF ServerInv
  <2>2. PipeOwn(after[p], starting', caller, p)
    BY <1>4, <1>13, <1>14 DEF PipeOwn, AwaitedIn
  <2>3. \A q \in Processes \ {p} : \A id :
            AwaitedIn(starting, caller, q, id) => AwaitedIn(starting', caller, q, id)
    BY <1>2 DEF AwaitedIn, Processes
  <2> QED BY <1>11, <2>1, <2>2, <2>3, OthersOwn
<1>19. AnswerIsOwn'
  BY <1>2 DEF ServerInv, AnswerIsOwn
<1> QED BY <1>2, <1>15, <1>16, <1>17, <1>18, <1>19 DEF ServerInv

\* What the process p does, or is made to do, once it is started.
LEMMA OneProcess ==
    ASSUME ServerInv, NEW p \in Processes, NEW sv \in [Processes -> Pipes],
           Apart(sv, server, p), sv[p].state # "none"
    PROVE  Placed(starting, caller, sv, pipeLock) /\ Starts(starting, connection, sv)
<1>1. \A q \in Processes : server[q].state # "none" => sv[q].state # "none"
  BY DEF Apart
<1>2. Placed(starting, caller, sv, pipeLock)
  BY <1>1 DEF ServerInv, Placed
<1>3. /\ connection # 0 => connection \in Processes
      /\ starting.process # 0 => starting.process \in Processes
  BY ServerAssumption DEF ServerInv, ServerTypes, Processes
<1>4. Starts(starting, connection, sv)
  BY <1>1, <1>3 DEF ServerInv, Starts, Apart
<1> QED BY <1>2, <1>4

\* What a start that ends with p reads, in the pipes of p.
LEMMA ReadAtStart ==
    ASSUME ServerInv, NEW outcome \in {"line", "eof", "timeout"}, starting.process # 0,
           outcome = "line" <=> HasLine(starting.process)
                                /\ NextLine(starting.process) # EndOfFile,
           outcome = "eof" => HasLine(starting.process),
           NEW read, read = IF outcome = "timeout" THEN AfterTimeout(server, starting.process)
                            ELSE LineRead(server, starting.process)
    PROVE  /\ starting.process \in Processes
           /\ read \in [Processes -> Pipes] /\ Apart(read, server, starting.process)
           /\ read[starting.process].state # "none"
           /\ notes = 0 => read[starting.process].outbox = <<>>
           /\ notes = 0 /\ read[starting.process].state = "running" =>
                  read[starting.process].inbox = <<>>
<1> DEFINE p == starting.process
<1>1. p \in Processes
  BY ServerAssumption DEF ServerInv, ServerTypes, Processes
<1>2. server \in [Processes -> Pipes] /\ server[p].state # "none"
  BY DEF ServerInv, ServerTypes, Starts
<1>3. notes = 0 => PipeOwn(server[p], starting, caller, p)
  BY <1>1 DEF ServerInv, PipesOwn
<1>4. CASE outcome = "timeout"
  <2>1. read = AfterTimeout(server, p)
    BY <1>4
  <2>2. /\ read \in [Processes -> Pipes] /\ Apart(read, server, p)
        /\ read[p].state = "stopped" /\ read[p].inbox = <<>>
        /\ read[p].outbox = server[p].outbox
    BY <1>1, <1>2, <2>1, TimeoutIs
  <2>3. server[p].outbox = <<>>
    <3> SUFFICES ASSUME server[p].outbox # <<>> PROVE FALSE
      OBVIOUS
    <3>1. NextLine(p) = EndOfFile /\ NextLine(p) = Head(server[p].outbox)
      BY <1>4 DEF HasLine, NextLine
    <3>2. server[p] \in Pipes
      BY <1>1, <1>2
    <3>3. server[p].outbox \in Seq(Nat)
      BY <3>2, FieldsAre
    <3>4. Head(server[p].outbox) \in Nat
      BY <3>3, HeadTailProperties
    <3> QED BY <3>1, <3>4 DEF EndOfFile
  <2> QED BY <1>1, <2>2, <2>3
<1>5. CASE outcome # "timeout"
  <2>1. read = LineRead(server, p)
    BY <1>5
  <2>2. HasLine(p)
    BY <1>5
  <2>3. /\ read \in [Processes -> Pipes] /\ Apart(read, server, p)
        /\ read[p].state = server[p].state
    BY <1>1, <1>2, <2>1, ReadIs
  <2>4. server[p].outbox # <<>> \/ server[p].state # "running"
    BY <2>2 DEF HasLine, Alive
  <2>5. notes = 0 => /\ read[p].outbox = <<>>
                     /\ server[p].state = "running" => read[p].inbox = <<>>
    BY <1>1, <1>2, <1>3, <2>1, <2>4, Drained
  <2> QED BY <1>1, <1>2, <2>3, <2>5
<1> QED BY <1>4, <1>5

LEMMA OneLine ==
    ASSUME NEW x
    PROVE  Append(<<>>, x) # <<>> /\ Len(Append(<<>>, x)) = 1 /\ Append(<<>>, x)[1] = x
OBVIOUS

LEMMA StartEndsKeeps ==
    ASSUME ServerInv, NEW outcome \in {"line", "eof", "timeout"}, StartEnds(outcome)
    PROVE  ServerInv'
<1> DEFINE p == starting.process
           good == outcome = "line" /\ (NextLine(p) = Notification \/ served[NextLine(p)] = "ok")
           read == IF outcome = "timeout" THEN AfterTimeout(server, p) ELSE LineRead(server, p)
           more == serverKind = "mcp" /\ starting.step = "initialize" /\ good /\ CanSend
           ends == IF serverKind = "mcp" THEN good \/ starting.step = "list" ELSE good
<1>1. /\ p # 0
      /\ outcome = "line" <=> HasLine(p) /\ NextLine(p) # EndOfFile
      /\ outcome = "eof" => HasLine(p)
      /\ UNCHANGED <<notes, serverKind, pipeLock, caller, answers>>
  BY DEF StartEnds
<1>2. \/ /\ server' = Written(read, p) /\ starting' = [starting EXCEPT !.step = "list"]
         /\ sends' = sends + 1 /\ UNCHANGED connection
      \/ /\ server' = IF serverKind = "plugin" /\ ~good THEN Stopped(read, p) ELSE read
         /\ connection' = IF ends THEN p ELSE connection
         /\ starting' = [process |-> 0, step |-> "none"] /\ UNCHANGED sends
  BY DEF StartEnds
<1>3. /\ p \in Processes /\ read \in [Processes -> Pipes] /\ Apart(read, server, p)
      /\ read[p].state # "none"
      /\ notes = 0 => read[p].outbox = <<>>
      /\ notes = 0 /\ read[p].state = "running" => read[p].inbox = <<>>
  BY <1>1, ReadAtStart
<1> HIDE DEF read
<1>4. \E after \in [Processes -> Pipes], first \in BOOLEAN :
         /\ server' = after /\ Apart(after, server, p) /\ after[p].state # "none"
         /\ notes = 0 => after[p].outbox = <<>>
         /\ \/ /\ first /\ starting' = [starting EXCEPT !.step = "list"]
               /\ sends' = sends + 1 /\ UNCHANGED connection
               /\ notes = 0 /\ after[p].state = "running" =>
                      after[p].inbox = Append(<<>>, sends + 1)
            \/ /\ ~first /\ starting' = [process |-> 0, step |-> "none"] /\ UNCHANGED sends
               /\ connection' \in {p, connection}
               /\ notes = 0 /\ after[p].state = "running" => after[p].inbox = <<>>
  <2>1. CASE /\ server' = Written(read, p) /\ starting' = [starting EXCEPT !.step = "list"]
             /\ sends' = sends + 1 /\ UNCHANGED connection
    <3> DEFINE after == Written(read, p)
    <3>1. sends \in Nat
      BY DEF ServerInv, ServerTypes
    <3>2. /\ after \in [Processes -> Pipes] /\ Apart(after, read, p)
          /\ after[p].state = read[p].state /\ after[p].outbox = read[p].outbox
          /\ after[p].inbox = Append(read[p].inbox, sends + 1)
      BY <1>3, <3>1, WrittenIs
    <3>3. server' = after
      BY <2>1
    <3> HIDE DEF after
    <3>4. Apart(after, server, p)
      BY <1>3, <3>2 DEF Apart
    <3>5. notes = 0 /\ after[p].state = "running" => after[p].inbox = Append(<<>>, sends + 1)
      BY <1>3, <3>2
    <3> QED BY <1>3, <2>1, <3>2, <3>3, <3>4, <3>5
  <2>2. CASE /\ server' = IF serverKind = "plugin" /\ ~good THEN Stopped(read, p) ELSE read
             /\ connection' = IF ends THEN p ELSE connection
             /\ starting' = [process |-> 0, step |-> "none"] /\ UNCHANGED sends
    <3> DEFINE after == Stopped(read, p)
    <3>1. /\ after \in [Processes -> Pipes] /\ Apart(after, read, p)
          /\ after[p].state = "stopped" /\ after[p].inbox = <<>>
          /\ after[p].outbox = read[p].outbox
      BY <1>3, StoppedIs
    <3>2. server' = after \/ server' = read
      BY <2>2
    <3>3. connection' \in {p, connection}
      BY <2>2
    <3> HIDE DEF after
    <3>4. Apart(after, server, p)
      BY <1>3, <3>1 DEF Apart
    <3> QED BY <1>3, <2>2, <3>1, <3>2, <3>3, <3>4
  <2> QED BY <1>2, <2>1, <2>2
<1>5. PICK after \in [Processes -> Pipes], first \in BOOLEAN :
         /\ server' = after /\ Apart(after, server, p) /\ after[p].state # "none"
         /\ notes = 0 => after[p].outbox = <<>>
         /\ \/ /\ first /\ starting' = [starting EXCEPT !.step = "list"]
               /\ sends' = sends + 1 /\ UNCHANGED connection
               /\ notes = 0 /\ after[p].state = "running" =>
                      after[p].inbox = Append(<<>>, sends + 1)
            \/ /\ ~first /\ starting' = [process |-> 0, step |-> "none"] /\ UNCHANGED sends
               /\ connection' \in {p, connection}
               /\ notes = 0 /\ after[p].state = "running" => after[p].inbox = <<>>
  BY <1>4
<1>6. starting \in [process : 0..MaxProcesses, step : {"none", "initialize", "list"}]
      /\ sends \in Nat /\ connection \in 0..MaxProcesses /\ 0 \in 0..MaxProcesses
  BY ServerAssumption DEF ServerInv, ServerTypes
<1>7. starting'.process \in {p, 0}
      /\ starting' \in [process : 0..MaxProcesses, step : {"none", "initialize", "list"}]
  BY <1>5, <1>6
<1>8. /\ first => starting'.process = p /\ connection' = connection
      /\ ~first => starting'.process = 0 /\ connection' \in {p, connection}
  BY <1>5, <1>6
<1>9. ServerTypes'
  BY <1>1, <1>3, <1>5, <1>6, <1>7, <1>8 DEF ServerInv, ServerTypes, Processes
<1>10. Placed(starting, caller, after, pipeLock) /\ Starts(starting, connection, after)
  BY <1>3, <1>5, OneProcess
<1>11. Placed(starting', caller', server', pipeLock')
  BY <1>1, <1>5, <1>7, <1>10 DEF Placed, Processes
<1>12. Starts(starting', connection', server')
  BY <1>3, <1>5, <1>8, <1>10 DEF Starts, Processes
<1>13. notes = 0 => PipesOwn(starting', caller', server')
  <2> SUFFICES ASSUME notes = 0 PROVE PipesOwn(starting', caller, after)
    BY <1>1, <1>5
  <2>1. PipesOwn(starting, caller, server)
    BY DEF ServerInv
  <2>2. PipeOwn(after[p], starting', caller, p)
    <3>1. CASE first
      <4>1. /\ starting'.process = p /\ after[p].outbox = <<>>
            /\ after[p].state = "running" => after[p].inbox = Append(<<>>, sends + 1)
        BY <1>5, <1>8, <3>1
      <4> HIDE DEF p
      <4>2. AwaitedIn(starting', caller, p, sends + 1)
        BY <4>1 DEF AwaitedIn
      <4> QED BY <1>6, <4>1, <4>2, OneLine DEF PipeOwn
    <3>2. CASE ~first
      BY <1>5, <3>2 DEF PipeOwn
    <3> QED BY <3>1, <3>2
  <2>3. \A q \in Processes \ {p} : \A id :
            AwaitedIn(starting, caller, q, id) => AwaitedIn(starting', caller, q, id)
    BY DEF AwaitedIn
  <2> QED BY <1>5, <2>1, <2>2, <2>3, OthersOwn
<1>14. AnswerIsOwn'
  BY <1>1 DEF ServerInv, AnswerIsOwn
<1> QED BY <1>1, <1>9, <1>11, <1>12, <1>13, <1>14 DEF ServerInv

\* A caller that goes on as r; who else waits for a process keeps its lock.
Moved(cl, c, r) == cl = [caller EXCEPT ![c] = r]
StillStarted(sv) == \A q \in Processes : server[q].state # "none" => sv[q].state # "none"
LockKept(lk, c) ==
    \A q \in Processes : lk[q] = pipeLock[q] \/ \A d \in ToolCallers \ {c} :
        ~(caller[d].at = "waiting" /\ caller[d].process = q)
PlacedOne(r, sv, lk, c) ==
    r.at # "idle" => /\ r.process \in Processes /\ r.process # starting.process
                     /\ sv[r.process].state # "none"
                     /\ r.at = "waiting" => lk[r.process] = c

LEMMA CallerGoesOn ==
    ASSUME ServerInv, NEW c \in ToolCallers, NEW r \in Calls, NEW sv, NEW lk,
           NEW cl, Moved(cl, c, r),
           StillStarted(sv), LockKept(lk, c), PlacedOne(r, sv, lk, c)
    PROVE  /\ cl \in [ToolCallers -> Calls] /\ cl[c] = r
           /\ \A d \in ToolCallers \ {c} : cl[d] = caller[d]
           /\ Placed(starting, cl, sv, lk)
<1>1. caller \in [ToolCallers -> Calls]
  BY DEF ServerInv, ServerTypes
<1>2. /\ cl \in [ToolCallers -> Calls] /\ cl[c] = r
      /\ \A d \in ToolCallers \ {c} : cl[d] = caller[d]
  BY <1>1, CallerIs DEF Moved
<1>3. ASSUME NEW d \in ToolCallers, cl[d].at # "idle"
      PROVE  /\ cl[d].process \in Processes /\ cl[d].process # starting.process
             /\ sv[cl[d].process].state # "none"
             /\ cl[d].at = "waiting" => lk[cl[d].process] = d
  <2>1. CASE d = c
    BY <1>2, <1>3, <2>1 DEF PlacedOne
  <2>2. CASE d # c
    <3>1. cl[d] = caller[d]
      BY <1>2, <2>2
    <3>2. /\ caller[d].process \in Processes /\ caller[d].process # starting.process
          /\ server[caller[d].process].state # "none"
          /\ caller[d].at = "waiting" => pipeLock[caller[d].process] = d
      BY <1>3, <3>1 DEF ServerInv, Placed
    <3> QED BY <2>2, <3>1, <3>2 DEF StillStarted, LockKept
  <2> QED BY <2>1, <2>2
<1>4. Placed(starting, cl, sv, lk)
  BY <1>3 DEF Placed
<1> QED BY <1>2, <1>4

LEMMA EndIsOwn ==
    ASSUME ServerInv, NEW c \in ToolCallers, NEW got, NEW success,
           notes = 0 => got \in {caller[c].id, EndOfFile}, UNCHANGED notes,
           answers' = answers \union {[asked |-> caller[c].id, got |-> got, success |-> success]}
    PROVE  AnswerIsOwn'
<1> SUFFICES ASSUME notes = 0, NEW a \in answers' PROVE a.got \in {a.asked, EndOfFile}
  BY DEF AnswerIsOwn
<1>1. CASE a \in answers
  BY <1>1 DEF ServerInv, AnswerIsOwn
<1>2. CASE a = [asked |-> caller[c].id, got |-> got, success |-> success]
  BY <1>2
<1> QED BY <1>1, <1>2

LEMMA NobodyIs == Nobody \in Calls /\ Nobody.at = "idle"
BY ServerAssumption DEF Nobody, Calls

LEMMA CallEnds ==
    ASSUME ServerInv, NEW c \in ToolCallers, NEW sv, NEW lk, StillStarted(sv), LockKept(lk, c),
           NEW cl, Moved(cl, c, Nobody)
    PROVE  /\ cl \in [ToolCallers -> Calls]
           /\ \A d \in ToolCallers \ {c} : cl[d] = caller[d]
           /\ Placed(starting, cl, sv, lk)
<1>1. PICK r \in Calls : r = Nobody
  BY NobodyIs
<1>2. PlacedOne(r, sv, lk, c)
  BY <1>1, NobodyIs DEF PlacedOne
<1>3. Moved(cl, c, r)
  BY <1>1
<1> QED BY <1>2, <1>3, CallerGoesOn

LEMMA CallToolKeeps ==
    ASSUME ServerInv, NEW c \in ToolCallers, CallTool(c)
    PROVE  ServerInv'
<1> DEFINE r == [at |-> "wanting", process |-> connection, id |-> 0]
<1>1. /\ caller[c].at = "idle" /\ connection # 0
      /\ UNCHANGED <<notes, serverKind, server, connection, starting, pipeLock, sends>>
  BY DEF CallTool
<1>2. connection \in Processes /\ connection \in 0..MaxProcesses
  BY <1>1, ServerAssumption DEF ServerInv, ServerTypes, Processes
<1>3. r \in Calls /\ r.process = connection /\ r.at = "wanting"
  BY <1>2 DEF Calls
<1>4. \E now \in {r, Nobody} : caller' = [caller EXCEPT ![c] = now]
  BY DEF CallTool, Finished
<1> HIDE DEF r
<1>5. PICK now \in {r, Nobody} : caller' = [caller EXCEPT ![c] = now]
  BY <1>4
<1>6. now \in Calls /\ (now.at # "idle" => now.process = connection) /\ now.at # "waiting"
  BY <1>3, <1>5, NobodyIs
<1>7. server[connection].state # "none" /\ connection # starting.process
  BY <1>1 DEF ServerInv, Starts
<1>8. /\ caller' \in [ToolCallers -> Calls]
      /\ \A d \in ToolCallers \ {c} : caller'[d] = caller[d]
      /\ Placed(starting, caller', server, pipeLock)
  <2>1. StillStarted(server) /\ LockKept(pipeLock, c) /\ PlacedOne(now, server, pipeLock, c)
    BY <1>2, <1>6, <1>7 DEF StillStarted, LockKept, PlacedOne
  <2>2. Moved(caller', c, now)
    BY <1>5 DEF Moved
  <2> QED BY <1>6, <2>1, <2>2, CallerGoesOn
<1>9. ServerTypes'
  BY <1>1, <1>8 DEF ServerInv, ServerTypes
<1>10. notes = 0 => PipesOwn(starting', caller', server')
  <2> SUFFICES ASSUME notes = 0, NEW q \in Processes PROVE PipeOwn(server[q], starting, caller', q)
    BY <1>1 DEF PipesOwn
  <2>1. PipeOwn(server[q], starting, caller, q)
    BY DEF ServerInv, PipesOwn
  <2>2. \A id : AwaitedIn(starting, caller, q, id) => AwaitedIn(starting, caller', q, id)
    BY <1>1, <1>8, OthersWait
  <2> QED BY <2>1, <2>2 DEF PipeOwn
<1>11. AnswerIsOwn'
  <2>1. CASE UNCHANGED answers
    BY <1>1, <2>1 DEF ServerInv, AnswerIsOwn
  <2>2. CASE Finished(c, EndOfFile, ReportedAs(EndOfFile))
    BY <1>1, <2>2, EndIsOwn DEF Finished
  <2> QED BY <2>1, <2>2 DEF CallTool
<1>12. Placed(starting', caller', server', pipeLock') /\ Starts(starting', connection', server')
  BY <1>1, <1>8 DEF ServerInv
<1> QED BY <1>1, <1>9, <1>10, <1>11, <1>12 DEF ServerInv

LEMMA SendKeeps ==
    ASSUME ServerInv, NEW c \in ToolCallers, Send(c)
    PROVE  ServerInv'
<1> DEFINE p == caller[c].process
           r == [caller[c] EXCEPT !.at = "waiting", !.id = sends + 1]
           after == Written(server, p)
<1>1. /\ caller[c].at = "wanting" /\ pipeLock[p] = "free"
      /\ UNCHANGED <<notes, serverKind, connection, starting>>
  BY DEF Send
<1>2. p \in Processes /\ p # starting.process /\ server[p].state # "none"
  BY <1>1 DEF ServerInv, Placed
<1>3. /\ sends \in Nat /\ server \in [Processes -> Pipes] /\ caller[c] \in Calls
      /\ pipeLock \in [Processes -> ToolCallers \union {"free"}]
  BY DEF ServerInv, ServerTypes
<1>4. \A d \in ToolCallers : ~(caller[d].at = "waiting" /\ caller[d].process = p)
  BY <1>1, ServerAssumption DEF ServerInv, Placed
<1>5. CASE Alive(p)
  <2>1. /\ server' = after /\ sends' = sends + 1 /\ caller' = [caller EXCEPT ![c] = r]
        /\ pipeLock' = [pipeLock EXCEPT ![p] = c] /\ UNCHANGED answers
    BY <1>5 DEF Send
  <2>2. /\ after \in [Processes -> Pipes] /\ Apart(after, server, p)
        /\ after[p].state = server[p].state /\ after[p].outbox = server[p].outbox
        /\ after[p].inbox = Append(server[p].inbox, sends + 1)
    BY <1>2, <1>3, WrittenIs
  <2>3. r \in Calls /\ r.at = "waiting" /\ r.process = p /\ r.id = sends + 1
    <3> DEFINE waits == [caller[c] EXCEPT !.at = "waiting"]
    <3>1. waits \in Calls /\ waits.at = "waiting" /\ waits.process = p
      BY <1>3 DEF Calls
    <3>2. r = [waits EXCEPT !.id = sends + 1]
      OBVIOUS
    <3> HIDE DEF waits
    <3> QED BY <1>3, <3>1, <3>2 DEF Calls
  <2> HIDE DEF after, r
  <2>4. Placed(starting, caller, after, pipeLock) /\ Starts(starting, connection, after)
    BY <1>2, <2>2, OneProcess
  <2>5. StillStarted(after)
    BY <1>2, <2>2 DEF Apart, StillStarted
  <2>6. /\ pipeLock' \in [Processes -> ToolCallers \union {"free"}] /\ pipeLock'[p] = c
        /\ \A q \in Processes : q # p => pipeLock'[q] = pipeLock[q]
    BY <1>2, <1>3, <2>1
  <2>7. LockKept(pipeLock', c) /\ PlacedOne(r, after, pipeLock', c)
    BY <1>2, <1>4, <2>2, <2>3, <2>6 DEF LockKept, PlacedOne
  <2>8. /\ caller' \in [ToolCallers -> Calls] /\ caller'[c] = r
        /\ \A d \in ToolCallers \ {c} : caller'[d] = caller[d]
        /\ Placed(starting, caller', after, pipeLock')
    <3>1. Moved(caller', c, r)
      BY <2>1 DEF Moved
    <3> QED BY <2>3, <2>5, <2>7, <3>1, CallerGoesOn
  <2>9. ServerTypes'
    BY <1>1, <1>3, <2>1, <2>2, <2>6, <2>8 DEF ServerInv, ServerTypes
  <2>10. notes = 0 => PipesOwn(starting', caller', server')
    <3> SUFFICES ASSUME notes = 0 PROVE PipesOwn(starting, caller', after)
      BY <1>1, <2>1
    <3>1. PipesOwn(starting, caller, server) /\ PipeOwn(server[p], starting, caller, p)
      BY <1>2 DEF ServerInv, PipesOwn
    <3>2. server[p].outbox = <<>> /\ server[p].inbox = <<>>
      BY <1>2, <1>4, <1>5, <3>1 DEF PipeOwn, AwaitedIn, Alive
    <3>3. AwaitedIn(starting, caller', p, sends + 1)
      BY <2>3, <2>8 DEF AwaitedIn
    <3>4. PipeOwn(after[p], starting, caller', p)
      BY <1>3, <2>2, <3>2, <3>3 DEF PipeOwn
    <3>5. \A q \in Processes \ {p} : \A id :
              AwaitedIn(starting, caller, q, id) => AwaitedIn(starting, caller', q, id)
      BY <1>1, <2>8, OthersWait
    <3> QED BY <2>2, <3>1, <3>4, <3>5, OthersOwn
  <2>11. AnswerIsOwn'
    BY <1>1, <2>1 DEF ServerInv, AnswerIsOwn
  <2> QED BY <1>1, <2>1, <2>4, <2>8, <2>9, <2>10, <2>11 DEF ServerInv
<1>6. CASE ~Alive(p)
  <2>1. /\ Finished(c, EndOfFile, server[p].registered /\ ReportedAs(EndOfFile))
        /\ UNCHANGED <<server, sends, pipeLock>>
    BY <1>6 DEF Send
  <2>2. caller' = [caller EXCEPT ![c] = Nobody]
    BY <2>1 DEF Finished
  <2>3. /\ caller' \in [ToolCallers -> Calls]
        /\ \A d \in ToolCallers \ {c} : caller'[d] = caller[d]
        /\ Placed(starting, caller', server, pipeLock)
    <3>1. StillStarted(server) /\ LockKept(pipeLock, c) /\ Moved(caller', c, Nobody)
      BY <2>2 DEF StillStarted, LockKept, Moved
    <3> QED BY <3>1, CallEnds
  <2>4. ServerTypes'
    BY <1>1, <2>1, <2>3 DEF ServerInv, ServerTypes
  <2>5. notes = 0 => PipesOwn(starting', caller', server')
    <3> SUFFICES ASSUME notes = 0, NEW q \in Processes
                 PROVE  PipeOwn(server[q], starting, caller', q)
      BY <1>1, <2>1 DEF PipesOwn
    <3>1. PipeOwn(server[q], starting, caller, q)
      BY DEF ServerInv, PipesOwn
    <3>2. \A id : AwaitedIn(starting, caller, q, id) => AwaitedIn(starting, caller', q, id)
      BY <1>1, <2>3, OthersWait
    <3> QED BY <3>1, <3>2 DEF PipeOwn
  <2>6. AnswerIsOwn'
    BY <1>1, <2>1, EndIsOwn DEF Finished
  <2>7. Placed(starting', caller', server', pipeLock') /\ Starts(starting', connection', server')
    BY <1>1, <2>1, <2>3 DEF ServerInv
  <2> QED BY <1>1, <2>1, <2>4, <2>5, <2>6, <2>7 DEF ServerInv
<1> QED BY <1>5, <1>6

\* A call that got what was in the pipe, or nothing, gives the lock back.
LEMMA EndKeeps ==
    ASSUME ServerInv, NEW c \in ToolCallers, AnswerArrives(c) \/ CallTimesOut(c)
    PROVE  ServerInv'
<1> DEFINE p == caller[c].process
<1>1. /\ caller[c].at = "waiting" /\ caller' = [caller EXCEPT ![c] = Nobody]
      /\ pipeLock' = [pipeLock EXCEPT ![p] = "free"]
      /\ UNCHANGED <<notes, serverKind, connection, starting, served, sends>>
  BY DEF AnswerArrives, CallTimesOut, Finished
<1>2. p \in Processes /\ p # starting.process /\ server[p].state # "none" /\ pipeLock[p] = c
  BY <1>1 DEF ServerInv, Placed
<1>3. /\ server \in [Processes -> Pipes] /\ caller[c] \in Calls
      /\ pipeLock \in [Processes -> ToolCallers \union {"free"}]
  BY DEF ServerInv, ServerTypes
<1>4. notes = 0 => PipeOwn(server[p], starting, caller, p)
  BY <1>2 DEF ServerInv, PipesOwn
<1>5. \E after \in [Processes -> Pipes] :
         /\ server' = after /\ Apart(after, server, p) /\ after[p].state # "none"
         /\ notes = 0 => /\ after[p].outbox = <<>>
                         /\ after[p].state = "running" => after[p].inbox = <<>>
  <2>1. CASE AnswerArrives(c)
    <3> DEFINE after == LineRead(server, p)
    <3>1. server' = after /\ HasLine(p)
      BY <2>1 DEF AnswerArrives
    <3>2. /\ after \in [Processes -> Pipes] /\ Apart(after, server, p)
          /\ after[p].state = server[p].state
      BY <1>2, <1>3, ReadIs
    <3>3. server[p].outbox # <<>> \/ server[p].state # "running"
      BY <3>1 DEF HasLine, Alive
    <3>4. notes = 0 => /\ after[p].outbox = <<>>
                       /\ server[p].state = "running" => after[p].inbox = <<>>
      BY <1>2, <1>3, <1>4, <3>3, Drained
    <3> QED BY <1>2, <3>1, <3>2, <3>4
  <2>2. CASE CallTimesOut(c)
    <3> DEFINE after == AfterTimeout(server, p)
    <3>1. server' = after /\ server[p].outbox = <<>>
      BY <2>2 DEF CallTimesOut, HasLine
    <3>2. /\ after \in [Processes -> Pipes] /\ Apart(after, server, p)
          /\ after[p].state = "stopped" /\ after[p].outbox = server[p].outbox
      BY <1>2, <1>3, TimeoutIs
    <3> HIDE DEF after
    <3> QED BY <3>1, <3>2
  <2> QED BY <2>1, <2>2
<1>6. PICK after \in [Processes -> Pipes] :
         /\ server' = after /\ Apart(after, server, p) /\ after[p].state # "none"
         /\ notes = 0 => /\ after[p].outbox = <<>>
                         /\ after[p].state = "running" => after[p].inbox = <<>>
  BY <1>5
<1>7. Starts(starting, connection, after)
  BY <1>2, <1>6, OneProcess
<1>8. /\ pipeLock' \in [Processes -> ToolCallers \union {"free"}]
      /\ \A q \in Processes : q # p => pipeLock'[q] = pipeLock[q]
  BY <1>1, <1>3
<1>9. \A d \in ToolCallers \ {c} : ~(caller[d].at = "waiting" /\ caller[d].process = p)
  BY <1>2 DEF ServerInv, Placed
<1>10. /\ caller' \in [ToolCallers -> Calls]
       /\ \A d \in ToolCallers \ {c} : caller'[d] = caller[d]
       /\ Placed(starting, caller', after, pipeLock')
  <2>1. StillStarted(after)
    BY <1>2, <1>6 DEF Apart, StillStarted
  <2>2. LockKept(pipeLock', c)
    BY <1>8, <1>9 DEF LockKept
  <2>3. Moved(caller', c, Nobody)
    BY <1>1 DEF Moved
  <2> QED BY <2>1, <2>2, <2>3, CallEnds
<1>11. ServerTypes'
  BY <1>1, <1>6, <1>8, <1>10 DEF ServerInv, ServerTypes
<1>12. notes = 0 => PipesOwn(starting', caller', server')
  <2> SUFFICES ASSUME notes = 0 PROVE PipesOwn(starting, caller', after)
    BY <1>1, <1>6
  <2>1. PipesOwn(starting, caller, server)
    BY DEF ServerInv
  <2>2. PipeOwn(after[p], starting, caller', p)
    BY <1>6 DEF PipeOwn
  <2>3. \A q \in Processes \ {p} : \A id :
            AwaitedIn(starting, caller, q, id) => AwaitedIn(starting, caller', q, id)
    BY <1>10, OthersWait
  <2> QED BY <1>6, <2>1, <2>2, <2>3, OthersOwn
<1>13. \E got, success :
          /\ notes = 0 => got \in {caller[c].id, EndOfFile}
          /\ answers' = answers \union
                {[asked |-> caller[c].id, got |-> got, success |-> success]}
  <2>1. CASE CallTimesOut(c)
    BY <2>1 DEF CallTimesOut, Finished
  <2>2. CASE AnswerArrives(c)
    <3>1. HasLine(p) /\ answers' = answers \union {[asked |-> caller[c].id, got |-> NextLine(p),
                                                    success |-> ReportedAs(NextLine(p))]}
      BY <2>2 DEF AnswerArrives, Finished
    <3>2. ASSUME notes = 0 PROVE NextLine(p) \in {caller[c].id, EndOfFile}
      <4>1. CASE server[p].outbox # <<>>
        <5>1. AwaitedIn(starting, caller, p, server[p].outbox[1])
          BY <1>4, <3>2, <4>1 DEF PipeOwn
        <5>2. server[p].outbox[1] = caller[c].id
          BY <1>2, <1>9, <5>1 DEF AwaitedIn
        <5>3. Head(server[p].outbox) = server[p].outbox[1]
          <6>1. server[p] \in Pipes
            BY <1>2, <1>3
          <6>2. server[p].outbox \in Seq(Nat)
            BY <6>1, FieldsAre
          <6> QED BY <4>1, <6>2
        <5> QED BY <4>1, <5>2, <5>3 DEF NextLine
      <4>2. CASE server[p].outbox = <<>>
        BY <3>1, <4>2 DEF NextLine, HasLine
      <4> QED BY <4>1, <4>2
    <3> QED BY <3>1, <3>2
  <2> QED BY <2>1, <2>2
<1>14. AnswerIsOwn'
  BY <1>1, <1>13, EndIsOwn
<1> QED BY <1>1, <1>6, <1>7, <1>10, <1>11, <1>12, <1>14 DEF ServerInv

LEMMA DisconnectKeeps ==
    ASSUME ServerInv, Disconnect
    PROVE  ServerInv'
<1> DEFINE after == Stopped(server, connection)
<1>1. /\ connection # 0 /\ server' = after /\ connection' = 0
      /\ UNCHANGED <<notes, serverKind, starting, pipeLock, caller, answers, served, sends>>
  BY DEF Disconnect
<1>2. /\ server \in [Processes -> Pipes] /\ connection \in Processes /\ 0 \in 0..MaxProcesses
      /\ server[connection].state # "none"
  BY <1>1, ServerAssumption DEF ServerInv, ServerTypes, Starts, Processes
<1>3. /\ after \in [Processes -> Pipes] /\ Apart(after, server, connection)
      /\ after[connection].state = "stopped" /\ after[connection].inbox = <<>>
      /\ after[connection].outbox = server[connection].outbox
  BY <1>2, StoppedIs
<1> HIDE DEF after
<1>4. Placed(starting, caller, after, pipeLock) /\ Starts(starting, connection, after)
  BY <1>2, <1>3, OneProcess
<1>5. Placed(starting', caller', server', pipeLock') /\ Starts(starting', connection', server')
  BY <1>1, <1>4 DEF Starts
<1>6. ServerTypes'
  BY <1>1, <1>2, <1>3 DEF ServerInv, ServerTypes
<1>7. notes = 0 => PipesOwn(starting', caller', server')
  <2> SUFFICES ASSUME notes = 0 PROVE PipesOwn(starting, caller, after)
    BY <1>1
  <2>1. PipesOwn(starting, caller, server) /\ PipeOwn(server[connection], starting, caller, connection)
    BY <1>2 DEF ServerInv, PipesOwn
  <2>2. PipeOwn(after[connection], starting, caller, connection)
    BY <1>3, <2>1 DEF PipeOwn
  <2> QED BY <1>3, <2>1, <2>2, OthersOwn
<1>8. AnswerIsOwn'
  BY <1>1 DEF ServerInv, AnswerIsOwn
<1> QED BY <1>1, <1>5, <1>6, <1>7, <1>8 DEF ServerInv

\* What a process does by itself: it has been started.
LEMMA ProcessKeeps ==
    ASSUME ServerInv, NEW p \in Processes, NEW r \in Pipes, r.state # "none",
           server[p].state # "none", server' = [server EXCEPT ![p] = r],
           notes' = 0 => notes = 0 /\ PipeOwn(r, starting, caller, p), notes' \in Nat,
           UNCHANGED <<connection, starting, pipeLock, caller, answers, sends>>
    PROVE  ServerInv'
<1> DEFINE after == [server EXCEPT ![p] = r]
<1>1. server \in [Processes -> Pipes]
  BY DEF ServerInv, ServerTypes
<1>2. after \in [Processes -> Pipes] /\ after[p] = r /\ Apart(after, server, p)
  BY <1>1, PlacedAt
<1>3. server' = after
  OBVIOUS
<1> HIDE DEF after
<1>4. Placed(starting, caller, after, pipeLock) /\ Starts(starting, connection, after)
  BY <1>2, OneProcess
<1>5. ServerTypes'
  BY <1>2, <1>3 DEF ServerInv, ServerTypes
<1>6. notes' = 0 => PipesOwn(starting, caller, after)
  <2> SUFFICES ASSUME notes' = 0 PROVE PipesOwn(starting, caller, after)
    OBVIOUS
  <2>1. PipesOwn(starting, caller, server) /\ PipeOwn(after[p], starting, caller, p)
    BY <1>2 DEF ServerInv
  <2> QED BY <1>2, <2>1, OthersOwn
<1>7. AnswerIsOwn'
  BY DEF ServerInv, AnswerIsOwn
<1> QED BY <1>3, <1>4, <1>5, <1>6, <1>7 DEF ServerInv

LEMMA ServeKeeps ==
    ASSUME ServerInv, NEW p \in Processes, NEW answer, Serve(p, answer)
    PROVE  ServerInv'
<1> DEFINE id == Head(server[p].inbox)
           took == [server[p] EXCEPT !.inbox = Tail(server[p].inbox)]
           gave == [took EXCEPT !.outbox = Append(server[p].outbox, id)]
<1>1. /\ server[p].state = "running" /\ server[p].inbox # <<>> /\ server' = [server EXCEPT ![p] = gave]
      /\ UNCHANGED <<notes, connection, starting, pipeLock, caller, answers, sends>>
  BY DEF Serve, Alive
<1>2. server[p] \in Pipes /\ notes \in Nat
  BY DEF ServerInv, ServerTypes
<1>3. server[p].inbox \in Seq(Nat) /\ server[p].outbox \in Seq(Nat)
  BY <1>2, FieldsAre
<1>4. /\ Tail(server[p].inbox) \in Seq(Nat) /\ id \in Nat
      /\ Append(server[p].outbox, id) \in Seq(Nat)
  BY <1>1, <1>3, HeadTailProperties
<1>5. took \in Pipes /\ took.inbox = Tail(server[p].inbox) /\ took.state = server[p].state
  BY <1>2, <1>4, InboxIs
<1> HIDE DEF took, id
<1>6. /\ gave \in Pipes /\ gave.inbox = Tail(server[p].inbox) /\ gave.state = "running"
      /\ gave.outbox = Append(server[p].outbox, id)
  BY <1>1, <1>4, <1>5, OutboxIs
<1> HIDE DEF gave
<1>7. ASSUME notes = 0 PROVE PipeOwn(gave, starting, caller, p)
  <2>1. PipeOwn(server[p], starting, caller, p)
    BY <1>7 DEF ServerInv, PipesOwn
  <2>2. /\ server[p].outbox = <<>> /\ Len(server[p].inbox) = 1
        /\ AwaitedIn(starting, caller, p, server[p].inbox[1])
    BY <1>1, <2>1 DEF PipeOwn
  <2>3. id = server[p].inbox[1]
    BY <1>1, <1>3 DEF id
  <2>4. Tail(server[p].inbox) = <<>>
    <3>1. Len(Tail(server[p].inbox)) = 0
      BY <1>1, <1>3, <2>2, HeadTailProperties
    <3> QED BY <1>4, <3>1, EmptySeq
  <2> QED BY <1>6, <2>2, <2>3, <2>4, OneLine DEF PipeOwn
<1> QED BY <1>1, <1>2, <1>6, <1>7, ProcessKeeps

LEMMA NotifyOrDieKeeps ==
    ASSUME ServerInv, NEW p \in Processes, Notify(p) \/ Die(p)
    PROVE  ServerInv'
<1>1. server[p] \in Pipes /\ notes \in Nat
  BY DEF ServerInv, ServerTypes
<1>2. CASE Notify(p)
  <2> DEFINE line == Append(server[p].outbox, Notification)
             said == [server[p] EXCEPT !.outbox = line]
  <2>1. /\ server[p].state = "running" /\ notes' = notes + 1 /\ server' = [server EXCEPT ![p] = said]
        /\ UNCHANGED <<connection, starting, pipeLock, caller, answers, sends>>
    BY <1>2 DEF Notify, Alive
  <2>2. server[p].outbox \in Seq(Nat) /\ Notification \in Nat
    BY <1>1, FieldsAre DEF Notification
  <2>3. line \in Seq(Nat)
    BY <2>2
  <2> HIDE DEF line
  <2>4. said \in Pipes /\ said.state = "running"
    BY <1>1, <2>1, <2>3, OutboxIs
  <2> HIDE DEF said
  <2>5. notes' \in Nat /\ notes' # 0
    BY <1>1, <2>1
  <2> QED BY <2>1, <2>4, <2>5, ProcessKeeps
<1>3. CASE Die(p)
  <2> DEFINE dead == [server[p] EXCEPT !.state = "dead"]
  <2>1. /\ server[p].state = "running" /\ server' = [server EXCEPT ![p] = dead]
        /\ UNCHANGED <<notes, connection, starting, pipeLock, caller, answers, sends>>
    BY <1>3 DEF Die, Alive
  <2>2. "dead" \in LifeStates
    BY DEF LifeStates
  <2>3. /\ dead \in Pipes /\ dead.state = "dead" /\ dead.inbox = server[p].inbox
        /\ dead.outbox = server[p].outbox
    BY <1>1, <2>2, StateIs
  <2> HIDE DEF dead
  <2>4. notes = 0 => PipeOwn(dead, starting, caller, p)
    BY <2>3 DEF ServerInv, PipesOwn, PipeOwn
  <2> QED BY <1>1, <2>1, <2>3, <2>4, ProcessKeeps
<1> QED BY <1>2, <1>3

LEMMA ServerKept == ServerInv /\ [ServerNext]_serverVars => ServerInv'
<1> SUFFICES ASSUME ServerInv, [ServerNext]_serverVars PROVE ServerInv'
  OBVIOUS
<1>1. CASE UNCHANGED serverVars
  BY <1>1 DEF ServerInv, ServerTypes, AnswerIsOwn, serverVars
<1>2. CASE Spawn
  BY <1>2, SpawnKeeps
<1>3. CASE \E outcome \in {"line", "eof", "timeout"} : StartEnds(outcome)
  BY <1>3, StartEndsKeeps
<1>4. ASSUME NEW c \in ToolCallers,
             CallTool(c) \/ Send(c) \/ AnswerArrives(c) \/ CallTimesOut(c)
      PROVE  ServerInv'
  BY <1>4, CallToolKeeps, SendKeeps, EndKeeps
<1>5. CASE Disconnect
  BY <1>5, DisconnectKeeps
<1>6. CASE \E p \in Processes, answer \in {"ok", "error"} : Serve(p, answer)
  BY <1>6, ServeKeeps
<1>7. CASE \E p \in Processes : Notify(p) \/ Die(p)
  BY <1>7, NotifyOrDieKeeps
<1> QED BY <1>1, <1>2, <1>3, <1>4, <1>5, <1>6, <1>7 DEF ServerNext

\* A server that answers each request once, and sends nothing else, gives every call its own answer
\* or none, for every number of callers and of processes (MCPConnection, PluginWorker.call).
THEOREM AnswerIsOwnHolds == ServerSpec => []AnswerIsOwn
<1>1. ServerInv => AnswerIsOwn
  BY DEF ServerInv
<1> QED BY <1>1, ServerStarts, ServerKept, PTL DEF ServerSpec

-----------------------------------------------------------------------------
(***************************************************************************)
(* ExtensionPlatform: a permission is what the user gave.                  *)
(***************************************************************************)

\* Grants have numbers of their own, in the order they were given.
GrantsSound(grants) ==
    /\ \A g \in grants : g.id \in 1..granted /\ g.ext \in Exts
    /\ \A g, h \in grants : g.id = h.id => g = h
AllGrants == Load(grantFile) \union host.grants
PlatformInv ==
    /\ granted \in 0..MaxGrants
    /\ uses \in [1..MaxGrants -> Nat] /\ removals \in [Exts -> Nat]
    /\ host.running \in BOOLEAN /\ (~host.running => host.grants = {})
    /\ DOMAIN host = {"running", "grants", "workers"}
    /\ GrantsSound(AllGrants)
    /\ \A i \in (granted + 1)..MaxGrants : uses[i] = 0
    /\ PermissionsHonest

LEMMA PlatformInvInit == PlatformInit => PlatformInv
  BY PlatformAssumption
  DEF PlatformInit, PlatformInv, AllGrants, GrantsSound, Load, File, NoHost, PermissionsHonest,
      OnceIsOnce, RemovedLosesGrants

\* Fewer grants with the same uses keep the invariant.
LEMMA FewerGrants ==
    ASSUME PlatformInv, AllGrants' \subseteq AllGrants, UNCHANGED <<granted, uses, removals>>,
           host'.running \in BOOLEAN, ~host'.running => host'.grants = {},
           DOMAIN host' = {"running", "grants", "workers"}
    PROVE  PlatformInv'
  BY DEF PlatformInv, AllGrants, GrantsSound, PermissionsHonest, OnceIsOnce, RemovedLosesGrants

LEMMA Loads == \A grants : Load(File(grants)) = grants
  BY DEF Load, File
LEMMA LoadsTorn == Load(Torn) = {}
  BY DEF Load, Torn

LEMMA GrantStep ==
    ASSUME PlatformInv, NEW e \in Exts, NEW scope \in Scopes, GrantPermission(e, scope)
    PROVE  PlatformInv'
<1> DEFINE new == [id |-> granted + 1, ext |-> e, scope |-> scope, run |-> runs,
                   version |-> registry[e].version, removal |-> removals[e]]
<1>1. /\ granted' = granted + 1 /\ granted < MaxGrants /\ (Concurrent \/ ~host.running)
      /\ grantFile' = File(Load(grantFile) \union {new})
      /\ UNCHANGED <<host, uses, removals>>
  BY Zenon DEF GrantPermission, Command
<1>2. AllGrants' = AllGrants \union {new}
  BY <1>1, Loads DEF AllGrants
<1>3. new.id = granted + 1 /\ new.ext = e /\ new.removal = removals[e]
  OBVIOUS
<1> HIDE DEF new
<1>4. granted \in Nat /\ MaxGrants \in Nat /\ uses[granted + 1] = 0
  BY <1>1, PlatformAssumption DEF PlatformInv
<1>5. GrantsSound(AllGrants)'
  BY <1>1, <1>2, <1>3, <1>4 DEF PlatformInv, GrantsSound
<1>6. PermissionsHonest'
  <2>1. \A g \in AllGrants' : g.scope = "once" => uses'[g.id] = 0
    BY <1>1, <1>2, <1>3, <1>4 DEF PlatformInv, PermissionsHonest, OnceIsOnce, AllGrants
  <2>2. ~Concurrent => \A g \in AllGrants' : g.removal = removals'[g.ext]
    BY <1>1, <1>2, <1>3 DEF PlatformInv, PermissionsHonest, RemovedLosesGrants, AllGrants
  <2> QED BY <2>1, <2>2 DEF PermissionsHonest, OnceIsOnce, RemovedLosesGrants, AllGrants
<1> QED BY <1>1, <1>4, <1>5, <1>6, PlatformAssumption DEF PlatformInv

LEMMA RemoveStep ==
    ASSUME PlatformInv, NEW e \in Exts, RemoveExtension(e)
    PROVE  PlatformInv'
<1>1. /\ removals' = [removals EXCEPT ![e] = @ + 1] /\ (Concurrent \/ ~host.running)
      /\ grantFile' = File(GrantsBut(e)) /\ UNCHANGED <<host, uses, granted>>
  BY Zenon DEF RemoveExtension, Lifecycle, Command, RemainingGrants
<1>2. AllGrants' \subseteq AllGrants /\ Load(grantFile') = GrantsBut(e)
  BY <1>1, Loads DEF AllGrants, GrantsBut
<1>3. removals' \in [Exts -> Nat]
  BY <1>1 DEF PlatformInv
<1>4. ~Concurrent => \A g \in AllGrants' : g.removal = removals'[g.ext]
  <2> SUFFICES ASSUME ~Concurrent, NEW g \in AllGrants' PROVE g.removal = removals'[g.ext]
    OBVIOUS
  <2>1. g \in GrantsBut(e)
    BY <1>1, <1>2 DEF AllGrants, PlatformInv
  <2>2. g \in AllGrants /\ g.ext # e /\ g.ext \in Exts
    BY <2>1 DEF GrantsBut, AllGrants, PlatformInv, GrantsSound
  <2>3. g.removal = removals[g.ext]
    BY <2>2 DEF PlatformInv, PermissionsHonest, RemovedLosesGrants, AllGrants
  <2> QED BY <1>1, <2>2, <2>3 DEF PlatformInv
<1>5. GrantsSound(AllGrants)' /\ \A g \in AllGrants' : g.scope = "once" => uses'[g.id] = 0
  BY <1>1, <1>2 DEF PlatformInv, GrantsSound, PermissionsHonest, OnceIsOnce, AllGrants
<1>6. PermissionsHonest'
  BY <1>4, <1>5 DEF PermissionsHonest, OnceIsOnce, RemovedLosesGrants, AllGrants
<1> QED BY <1>1, <1>3, <1>5, <1>6 DEF PlatformInv

\* A call uses up the grant that it takes out of the file, or one that is not for one call.
LEMMA CallExtensionStep ==
    ASSUME PlatformInv, NEW e \in Exts, CallExtension(e)
    PROVE  PlatformInv'
<1>1. PICK newest \in host.grants :
          \/ /\ \E g \in host.grants :
                    /\ IsOldestOnce(g, e)
                    /\ uses' = [uses EXCEPT ![g.id] = @ + 1]
                    /\ host' = [host EXCEPT !.grants = @ \ {g}]
                    /\ grantFile' = SaveGrants(host.grants \ {g})
          \/ /\ newest.scope # "once"
             /\ uses' = [uses EXCEPT ![newest.id] = @ + 1]
             /\ UNCHANGED <<host, grantFile>>
  BY Zenon DEF CallExtension
<1>2. UNCHANGED <<removals, granted>>
  BY Zenon DEF CallExtension, HostOnly
<1>3. CASE /\ newest.scope # "once" /\ uses' = [uses EXCEPT ![newest.id] = @ + 1]
           /\ UNCHANGED <<host, grantFile>>
  <2>1. AllGrants' = AllGrants /\ newest \in AllGrants /\ newest.id \in 1..granted
    BY <1>3 DEF AllGrants, PlatformInv, GrantsSound
  <2>2. uses' \in [1..MaxGrants -> Nat] /\ \A i \in (granted' + 1)..MaxGrants : uses'[i] = 0
    BY <1>2, <1>3, <2>1, PlatformAssumption DEF PlatformInv
  <2>3. \A g \in AllGrants' : g.scope = "once" => uses'[g.id] = 0
    <3> SUFFICES ASSUME NEW g \in AllGrants, g.scope = "once" PROVE uses'[g.id] = 0
      BY <2>1
    <3>1. g.id # newest.id /\ uses[g.id] = 0 /\ g.id \in 1..granted
      BY <1>3, <2>1 DEF PlatformInv, GrantsSound, PermissionsHonest, OnceIsOnce, AllGrants
    <3> QED BY <1>3, <2>1, <3>1, PlatformAssumption DEF PlatformInv
  <2>4. PermissionsHonest'
    BY <1>2, <1>3, <2>1, <2>3
    DEF PermissionsHonest, OnceIsOnce, RemovedLosesGrants, AllGrants, PlatformInv
  <2> QED BY <1>2, <1>3, <2>1, <2>2, <2>4 DEF PlatformInv, GrantsSound
<1>4. ASSUME NEW g \in host.grants, IsOldestOnce(g, e), uses' = [uses EXCEPT ![g.id] = @ + 1],
             host' = [host EXCEPT !.grants = @ \ {g}],
             grantFile' = SaveGrants(host.grants \ {g})
      PROVE  PlatformInv'
  <2>1. /\ host'.grants = host.grants \ {g} /\ host'.running = host.running
        /\ DOMAIN host' = {"running", "grants", "workers"}
    BY <1>4 DEF PlatformInv
  <2>2. AllGrants' = host.grants \ {g} /\ g \in AllGrants /\ g.id \in 1..granted
    BY <1>4, <2>1, Loads DEF AllGrants, SaveGrants, PlatformInv, GrantsSound
  <2>3. uses' \in [1..MaxGrants -> Nat] /\ \A i \in (granted' + 1)..MaxGrants : uses'[i] = 0
    BY <1>2, <1>4, <2>2, PlatformAssumption DEF PlatformInv
  <2>4. ASSUME NEW h \in AllGrants'
        PROVE  h \in AllGrants /\ h.id # g.id /\ h.id \in 1..granted
    BY <2>2 DEF PlatformInv, GrantsSound, AllGrants
  <2>5. \A h \in AllGrants' : h.scope = "once" => uses'[h.id] = 0
    BY <1>4, <2>4 DEF PlatformInv, PermissionsHonest, OnceIsOnce, AllGrants
  <2>6. ~Concurrent => \A h \in AllGrants' : h.removal = removals'[h.ext]
    BY <1>2, <2>4 DEF PlatformInv, PermissionsHonest, RemovedLosesGrants, AllGrants
  <2>7. PermissionsHonest'
    BY <2>5, <2>6 DEF PermissionsHonest, OnceIsOnce, RemovedLosesGrants, AllGrants
  <2>8. GrantsSound(AllGrants)'
    BY <1>2, <2>4 DEF PlatformInv, GrantsSound
  <2> QED BY <1>2, <2>1, <2>3, <2>7, <2>8 DEF PlatformInv
<1> QED BY <1>1, <1>3, <1>4

LEMMA PlatformInvStep == PlatformInv /\ [PlatformNext]_platformVars => PlatformInv'
<1> SUFFICES ASSUME PlatformInv, [PlatformNext]_platformVars PROVE PlatformInv'
  OBVIOUS
<1>1. host.running \in BOOLEAN /\ (~host.running => host.grants = {})
      /\ DOMAIN host = {"running", "grants", "workers"}
  BY DEF PlatformInv
<1>2. ASSUME NEW e \in Exts, RevokePermissions(e) PROVE PlatformInv'
  <2>1. grantFile' = File(GrantsBut(e)) /\ UNCHANGED <<host, granted, uses, removals>>
    BY <1>2, Zenon DEF RevokePermissions, Lifecycle, Command
  <2>2. AllGrants' \subseteq AllGrants
    BY <2>1, Loads DEF AllGrants, GrantsBut
  <2> QED BY <1>1, <2>1, <2>2, FewerGrants
<1>3. ASSUME NEW e \in Exts, NEW value \in BOOLEAN,
             \/ InstallExtension(e, value) \/ SetEnabled(e, value) \/ UpdateExtension(e)
             \/ QuarantineExtension(e) \/ ReleaseExtension(e)
      PROVE  PlatformInv'
  <2>1. UNCHANGED <<grantFile, host, granted, uses, removals>>
    BY <1>3, Zenon DEF InstallExtension, SetEnabled, UpdateExtension, QuarantineExtension,
                       ReleaseExtension, Lifecycle, Command
  <2> QED BY <1>1, <2>1, FewerGrants DEF AllGrants
<1>4. CASE StartHost
  <2>1. /\ host' = [NoHost EXCEPT !.running = TRUE, !.grants = Load(grantFile)]
        /\ UNCHANGED <<grantFile, granted, uses, removals>>
    BY <1>4, Zenon DEF StartHost, HostOnly
  <2>2. /\ host'.running = TRUE /\ host'.grants = Load(grantFile)
        /\ DOMAIN host' = {"running", "grants", "workers"}
    BY <2>1 DEF NoHost
  <2> QED BY <2>1, <2>2, FewerGrants DEF AllGrants
<1>5. CASE EndHost \/ \E e \in Exts : KillInSave(e)
  <2>1. /\ host' = NoHost /\ (grantFile' = grantFile \/ grantFile' = Torn)
        /\ UNCHANGED <<granted, uses, removals>>
    BY <1>5, Zenon DEF EndHost, KillInSave, HostOnly
  <2>2. AllGrants' \subseteq AllGrants
    BY <2>1, LoadsTorn DEF AllGrants, NoHost
  <2> QED BY <2>1, <2>2, FewerGrants DEF NoHost
<1>6. ASSUME NEW e \in Exts, StartWorker(e) \/ StopWorker(e) PROVE PlatformInv'
  <2>1. PICK left : host' = [host EXCEPT !.workers = left]
    BY <1>6 DEF StartWorker, StopWorker
  <2>2. UNCHANGED <<grantFile, granted, uses, removals>>
    BY <1>6, Zenon DEF StartWorker, StopWorker, HostOnly
  <2>3. /\ host'.running = host.running /\ host'.grants = host.grants
        /\ DOMAIN host' = {"running", "grants", "workers"}
    BY <1>1, <2>1
  <2> QED BY <1>1, <2>2, <2>3, FewerGrants DEF AllGrants
<1>7. CASE UNCHANGED platformVars
  BY <1>1, <1>7, FewerGrants DEF AllGrants, platformVars
<1> QED BY <1>2, <1>3, <1>4, <1>5, <1>6, <1>7, GrantStep, RemoveStep, CallExtensionStep, Zenon
        DEF PlatformNext

\* For any extensions, grants, lifecycle commands, calls and kills: a permission given once allows
\* one call, and a removed extension keeps no permission unless a host runs meanwhile.
THEOREM PermissionsHonestHolds == PlatformSpec => []PermissionsHonest
<1>1. PlatformInv => PermissionsHonest
  BY DEF PlatformInv
<1> QED BY <1>1, PlatformInvInit, PlatformInvStep, PTL DEF PlatformSpec
-----------------------------------------------------------------------------
(* CliSession. *)

Report == [status : Final \union {"RUNNING"}, first : Nat, last : Nat]

\* The changes of the run n of R are still at their positions in the file, as far as its report
\* and L, the runs rolled back from outside, say.
Found(R, L, n) ==
    /\ n \notin L
    /\ R[n].status # "RUNNING" /\ R[n].first < R[n].last

\* The file h of a conversation with the runs R against v, the changes the conversation goes on
\* from. It holds a beginning of them; if less than all, the latest run has been rolled back or has
\* recorded nothing.
Behind(v, h, R, L) ==
    /\ Len(h) <= Len(v)
    /\ \A i \in 1..Len(h) : h[i] = v[i]
    /\ Len(h) < Len(v) =>
           Len(R) > 0 /\ (Len(R) \in L \/ R[Len(R)].first >= Len(v))

\* What is in a run's range is the run's or the user's, and it is in the file.
RangesOwn(v, h, R, L) ==
    \A n \in 1..Len(R) : Found(R, L, n) =>
        /\ R[n].last <= Len(h)
        /\ \A i \in R[n].first + 1..R[n].last : v[i] \in {0, n}

\* The ranges are apart, and the latest run's begins behind the others.
RangesApart(R, L) ==
    \A j, n \in 1..Len(R) :
        Found(R, L, j) /\ j < n /\ (Found(R, L, n) \/ n = Len(R)) => R[j].last <= R[n].first

\* What was recorded since the latest run began is its own or the user's.
TailOwn(v, R) ==
    Len(R) > 0 => \A i \in R[Len(R)].first + 1..Len(v) : v[i] \in {0, Len(R)}

Fits(v, h, R, L) ==
    Behind(v, h, R, L) /\ RangesOwn(v, h, R, L) /\ RangesApart(R, L) /\ TailOwn(v, R)

\* R with another report of its latest run.
Again(R, status, end) ==
    [R EXCEPT ![Len(R)] = [R[Len(R)] EXCEPT !.status = status, !.last = end]]

-----------------------------------------------------------------------------
(* How a conversation's file and its runs change together. *)

LEMMA ReportNumbers ==
    ASSUME NEW R \in Seq(Report), NEW n \in 1..Len(R)
    PROVE  R[n].first \in Nat /\ R[n].last \in Nat
<1>1. R[n] \in Report
  OBVIOUS
<1> QED
  BY <1>1 DEF Report

LEMMA AgainType ==
    ASSUME NEW R \in Seq(Report), Len(R) > 0,
           NEW status \in Final, NEW end \in Nat
    PROVE  /\ Again(R, status, end) \in Seq(Report) /\ Len(Again(R, status, end)) = Len(R)
           /\ \A n \in 1..Len(R) : n # Len(R) => Again(R, status, end)[n] = R[n]
           /\ Again(R, status, end)[Len(R)].first = R[Len(R)].first
           /\ Again(R, status, end)[Len(R)].last = end
           /\ Again(R, status, end)[Len(R)].status = status
<1>1. R[Len(R)] \in Report
  OBVIOUS
<1> DEFINE r == [R[Len(R)] EXCEPT !.status = status, !.last = end]
<1>2. r \in Report /\ r.first = R[Len(R)].first /\ r.last = end /\ r.status = status
  BY <1>1 DEF Report
<1> HIDE DEF r
<1>3. Again(R, status, end) = [R EXCEPT ![Len(R)] = r]
  BY DEF Again, r
<1> QED
  BY <1>2, <1>3

\* Loading a conversation that somebody rolled back in the meantime.
LEMMA FitsLoaded ==
    ASSUME NEW v \in Seq(Nat), NEW h \in Seq(Nat), NEW R \in Seq(Report), NEW L,
           Fits(v, h, R, L)
    PROVE  Fits(h, h, R, L)
<1>1. Behind(h, h, R, L)
  BY DEF Behind
<1>2. RangesOwn(h, h, R, L)
  <2> SUFFICES ASSUME NEW n \in 1..Len(R), Found(R, L, n)
               PROVE  /\ R[n].last <= Len(h)
                      /\ \A i \in R[n].first + 1..R[n].last : h[i] \in {0, n}
    BY DEF RangesOwn
  <2>1. R[n].first \in Nat /\ R[n].last \in Nat
    BY ReportNumbers
  <2>2. R[n].last <= Len(h) /\ \A i \in R[n].first + 1..R[n].last : v[i] \in {0, n}
    BY DEF Fits, RangesOwn
  <2>3. \A i \in R[n].first + 1..R[n].last : i \in 1..Len(h)
    BY <2>1, <2>2
  <2>4. \A i \in 1..Len(h) : h[i] = v[i]
    BY DEF Fits, Behind
  <2> QED
    BY <2>2, <2>3, <2>4
<1>3. TailOwn(h, R)
  <2> SUFFICES ASSUME Len(R) > 0, NEW i \in R[Len(R)].first + 1..Len(h)
               PROVE  h[i] \in {0, Len(R)}
    BY DEF TailOwn
  <2>1. R[Len(R)].first \in Nat
    BY ReportNumbers
  <2>2. i \in 1..Len(h) /\ i \in R[Len(R)].first + 1..Len(v)
    BY <2>1 DEF Fits, Behind
  <2> QED
    BY <2>2 DEF Fits, Behind, TailOwn
<1> QED
  BY <1>1, <1>2, <1>3 DEF Fits

\* A change of the latest run, or of the user.
LEMMA FitsRecorded ==
    ASSUME NEW v \in Seq(Nat), NEW h \in Seq(Nat), NEW R \in Seq(Report), NEW L, NEW k \in Nat,
           Fits(v, h, R, L), k \in {0, Len(R)}
    PROVE  Fits(Append(v, k), Append(v, k), R, L)
<1> DEFINE w == Append(v, k)
<1>1. w \in Seq(Nat) /\ Len(w) = Len(v) + 1 /\ w[Len(v) + 1] = k
      /\ \A i \in 1..Len(v) : w[i] = v[i]
  OBVIOUS
<1> HIDE DEF w
<1>2. Behind(w, w, R, L)
  BY <1>1 DEF Behind
<1>3. RangesOwn(w, w, R, L)
  <2> SUFFICES ASSUME NEW n \in 1..Len(R), Found(R, L, n)
               PROVE  /\ R[n].last <= Len(w)
                      /\ \A i \in R[n].first + 1..R[n].last : w[i] \in {0, n}
    BY DEF RangesOwn
  <2>1. R[n].first \in Nat /\ R[n].last \in Nat
    BY ReportNumbers
  <2>2. R[n].last <= Len(v) /\ \A i \in R[n].first + 1..R[n].last : v[i] \in {0, n}
    BY <2>1 DEF Fits, RangesOwn, Behind
  <2>3. \A i \in R[n].first + 1..R[n].last : i \in 1..Len(v)
    BY <2>1, <2>2
  <2>4. R[n].last <= Len(w)
    BY <1>1, <2>1, <2>2
  <2> QED
    BY <1>1, <2>2, <2>3, <2>4
<1>4. TailOwn(w, R)
  <2> SUFFICES ASSUME Len(R) > 0, NEW i \in R[Len(R)].first + 1..Len(w)
               PROVE  w[i] \in {0, Len(R)}
    BY DEF TailOwn
  <2>1. R[Len(R)].first \in Nat
    BY ReportNumbers
  <2>2. CASE i = Len(v) + 1
    BY <2>2, <1>1
  <2>3. CASE i # Len(v) + 1
    <3>1. i \in 1..Len(v) /\ i \in R[Len(R)].first + 1..Len(v)
      BY <2>1, <2>3, <1>1
    <3> QED
      BY <3>1, <1>1 DEF Fits, TailOwn
  <2> QED
    BY <2>2, <2>3
<1>5. Fits(w, w, R, L)
  BY <1>2, <1>3, <1>4 DEF Fits
<1> QED
  BY <1>5 DEF w

\* A run begins where the conversation's changes end.
LEMMA FitsBegun ==
    ASSUME NEW v \in Seq(Nat), NEW h \in Seq(Nat), NEW R \in Seq(Report), NEW L,
           Fits(v, h, R, L)
    PROVE  LET r == [status |-> "RUNNING", first |-> Len(v), last |-> Len(v)]
           IN Append(R, r) \in Seq(Report) /\ Fits(v, h, Append(R, r), L)
<1> DEFINE r == [status |-> "RUNNING", first |-> Len(v), last |-> Len(v)]
           S == Append(R, r)
<1>1. r \in Report /\ r.first = Len(v) /\ r.last = Len(v) /\ r.status = "RUNNING"
  BY DEF Report
<1> HIDE DEF r
<1>2. S \in Seq(Report) /\ Len(S) = Len(R) + 1 /\ S[Len(S)] = r
      /\ \A n \in 1..Len(R) : S[n] = R[n]
  BY <1>1
<1> HIDE DEF S
<1>3. \A n \in 1..Len(S) : Found(S, L, n) => n \in 1..Len(R) /\ Found(R, L, n)
  BY <1>1, <1>2 DEF Found
<1>4. Behind(v, h, S, L)
  BY <1>1, <1>2 DEF Fits, Behind
<1>5. RangesOwn(v, h, S, L)
  BY <1>2, <1>3 DEF Fits, RangesOwn
<1>6. RangesApart(S, L)
  <2> SUFFICES ASSUME NEW j \in 1..Len(S), NEW n \in 1..Len(S), Found(S, L, j), j < n,
                      Found(S, L, n) \/ n = Len(S)
               PROVE  S[j].last <= S[n].first
    BY DEF RangesApart
  <2>1. j \in 1..Len(R) /\ Found(R, L, j) /\ S[j] = R[j]
    BY <1>2, <1>3
  <2>2. CASE n = Len(S)
    <3>1. R[j].last <= Len(h) /\ Len(h) <= Len(v) /\ R[j].last \in Nat
      BY <2>1, ReportNumbers DEF Fits, RangesOwn, Behind
    <3> QED
      BY <2>1, <2>2, <3>1, <1>1, <1>2
  <2>3. CASE Found(S, L, n) /\ n # Len(S)
    <3>1. n \in 1..Len(R) /\ Found(R, L, n) /\ S[n] = R[n]
      BY <2>3, <1>2, <1>3
    <3> QED
      BY <2>1, <3>1 DEF Fits, RangesApart
  <2> QED
    BY <2>2, <2>3
<1>7. TailOwn(v, S)
  BY <1>1, <1>2 DEF TailOwn
<1>8. Fits(v, h, S, L)
  BY <1>4, <1>5, <1>6, <1>7 DEF Fits
<1> QED
  BY <1>2, <1>8 DEF S, r

\* The latest run's report is made where the changes end.
LEMMA FitsReported ==
    ASSUME NEW v \in Seq(Nat), NEW h \in Seq(Nat), NEW R \in Seq(Report), NEW L,
           Len(R) > 0, NEW status \in Final, Fits(v, h, R, L)
    PROVE  Fits(v, h, Again(R, status, Len(v)), L)
<1> DEFINE S == Again(R, status, Len(v))
<1>1. /\ S \in Seq(Report) /\ Len(S) = Len(R)
      /\ \A n \in 1..Len(R) : n # Len(R) => S[n] = R[n]
      /\ S[Len(R)].first = R[Len(R)].first /\ S[Len(R)].last = Len(v)
  BY AgainType
<1> HIDE DEF S
<1>2. \A n \in 1..Len(R) : n # Len(R) => (Found(S, L, n) <=> Found(R, L, n))
  BY <1>1 DEF Found
<1>3. R[Len(R)].first \in Nat
  BY ReportNumbers
<1>4. Found(S, L, Len(R)) => Len(h) = Len(v)
  BY <1>1, <1>3 DEF Found, Fits, Behind
<1>5. Behind(v, h, S, L)
  BY <1>1 DEF Fits, Behind
<1>6. RangesOwn(v, h, S, L)
  <2> SUFFICES ASSUME NEW n \in 1..Len(R), Found(S, L, n)
               PROVE  /\ S[n].last <= Len(h)
                      /\ \A i \in S[n].first + 1..S[n].last : v[i] \in {0, n}
    BY <1>1 DEF RangesOwn
  <2>1. CASE n = Len(R)
    BY <2>1, <1>1, <1>4 DEF Fits, TailOwn
  <2>2. CASE n # Len(R)
    BY <2>2, <1>1, <1>2 DEF Fits, RangesOwn
  <2> QED
    BY <2>1, <2>2
<1>7. RangesApart(S, L)
  <2> SUFFICES ASSUME NEW j \in 1..Len(R), NEW n \in 1..Len(R), Found(S, L, j), j < n,
                      Found(S, L, n) \/ n = Len(R)
               PROVE  S[j].last <= S[n].first
    BY <1>1 DEF RangesApart
  <2>1. j # Len(R)
    OBVIOUS
  <2>2. Found(R, L, j) /\ S[j] = R[j] /\ (Found(R, L, n) \/ n = Len(R))
    BY <2>1, <1>1, <1>2
  <2>3. R[j].last <= R[n].first
    BY <2>2 DEF Fits, RangesApart
  <2>4. S[n].first = R[n].first
    BY <1>1
  <2> QED
    BY <2>2, <2>3, <2>4
<1>8. TailOwn(v, S)
  BY <1>1 DEF Fits, TailOwn
<1>9. Fits(v, h, S, L)
  BY <1>5, <1>6, <1>7, <1>8 DEF Fits
<1> QED
  BY <1>9 DEF S

\* The process takes back what was recorded since its latest run began.
LEMMA FitsTakenBack ==
    ASSUME NEW v \in Seq(Nat), NEW h \in Seq(Nat), NEW R \in Seq(Report), NEW L,
           Len(R) > 0, R[Len(R)].first < Len(v), NEW status \in Final, Fits(v, h, R, L)
    PROVE  LET first == R[Len(R)].first
               w == SubSeq(v, 1, first)
           IN Fits(w, w, Again(R, status, first), L)
<1> DEFINE first == R[Len(R)].first
           w == SubSeq(v, 1, first)
           S == Again(R, status, first)
<1>1. first \in Nat /\ first < Len(v)
  BY ReportNumbers
<1>2. /\ S \in Seq(Report) /\ Len(S) = Len(R)
      /\ \A n \in 1..Len(R) : n # Len(R) => S[n] = R[n]
      /\ S[Len(R)].first = first /\ S[Len(R)].last = first
  BY <1>1, AgainType
<1> HIDE DEF S
<1> HIDE DEF first
<1>3. w \in Seq(Nat) /\ Len(w) = first /\ \A i \in 1..first : w[i] = v[i]
  BY <1>1
<1> HIDE DEF w
<1>4. \A n \in 1..Len(R) : Found(S, L, n) => n < Len(R) /\ Found(R, L, n) /\ S[n] = R[n]
  BY <1>1, <1>2 DEF Found
<1>5. Behind(w, w, S, L)
  BY <1>3 DEF Behind
<1>6. \A n \in 1..Len(R) : Found(S, L, n) => R[n].last <= first
  BY <1>4 DEF Fits, RangesApart, first
<1>7. RangesOwn(w, w, S, L)
  <2> SUFFICES ASSUME NEW n \in 1..Len(R), Found(S, L, n)
               PROVE  /\ S[n].last <= Len(w)
                      /\ \A i \in S[n].first + 1..S[n].last : w[i] \in {0, n}
    BY <1>2 DEF RangesOwn
  <2>1. Found(R, L, n) /\ S[n] = R[n] /\ R[n].last <= first
    BY <1>4, <1>6
  <2>2. \A i \in R[n].first + 1..R[n].last : v[i] \in {0, n}
    BY <2>1 DEF Fits, RangesOwn
  <2>3. R[n].first \in Nat /\ R[n].last \in Nat
    BY ReportNumbers
  <2>4. \A i \in R[n].first + 1..R[n].last : i \in 1..first
    BY <1>1, <2>1, <2>3
  <2> QED
    BY <1>3, <2>1, <2>2, <2>4
<1>8. RangesApart(S, L)
  <2> SUFFICES ASSUME NEW j \in 1..Len(R), NEW n \in 1..Len(R), Found(S, L, j), j < n,
                      Found(S, L, n) \/ n = Len(R)
               PROVE  S[j].last <= S[n].first
    BY <1>2 DEF RangesApart
  <2>1. Found(R, L, j) /\ S[j] = R[j] /\ R[j].last <= first
    BY <1>4, <1>6
  <2>2. CASE n = Len(R)
    BY <2>1, <2>2, <1>2
  <2>3. CASE Found(S, L, n)
    BY <2>1, <2>3, <1>4 DEF Fits, RangesApart
  <2> QED
    BY <2>2, <2>3
<1>9. TailOwn(w, S)
  BY <1>1, <1>2, <1>3 DEF TailOwn
<1>10. Fits(w, w, S, L)
  BY <1>5, <1>7, <1>8, <1>9 DEF Fits
<1> QED
  BY <1>10 DEF S, w, first

\* A run whose changes are found is rolled back from outside.
LEMMA FitsRolledBack ==
    ASSUME NEW v \in Seq(Nat), NEW h \in Seq(Nat), NEW R \in Seq(Report), NEW L,
           NEW n \in 1..Len(R), Found(R, L, n), R[n].last = Len(h), Fits(v, h, R, L)
    PROVE  LET g == SubSeq(h, 1, Len(h) - (R[n].last - R[n].first))
           IN /\ g \in Seq(Nat) /\ Len(g) = R[n].first
              /\ Fits(v, g, R, L \union {n})
<1> DEFINE g == SubSeq(h, 1, Len(h) - (R[n].last - R[n].first))
           K == L \union {n}
<1>1. /\ \A j \in 1..Len(R) : R[j].first \in Nat /\ R[j].last \in Nat
      /\ R[n].first < Len(h)
  BY ReportNumbers DEF Found
<1>2. g = SubSeq(h, 1, R[n].first)
  BY <1>1
<1> HIDE DEF g
<1>3. g \in Seq(Nat) /\ Len(g) = R[n].first /\ \A i \in 1..Len(g) : g[i] = h[i]
  BY <1>1, <1>2
<1>4. \A j \in 1..Len(R) : Found(R, K, j) => Found(R, L, j) /\ j # n
  BY DEF Found
<1> HIDE DEF K
<1>5. Len(h) <= Len(v) /\ \A i \in 1..Len(h) : h[i] = v[i]
  BY DEF Fits, Behind
<1>6. Behind(v, g, R, K)
  <2>1. Len(g) <= Len(v) /\ \A i \in 1..Len(g) : g[i] = v[i]
    BY <1>1, <1>3, <1>5
  <2>2. Len(R) \in K \/ R[Len(R)].first >= Len(v)
    <3>1. CASE n = Len(R)
      BY <3>1 DEF K
    <3>2. CASE n # Len(R)
      <4>1. R[n].last <= R[Len(R)].first
        BY <3>2 DEF Fits, RangesApart
      <4>2. CASE Len(h) = Len(v)
        BY <4>1, <4>2, <1>1
      <4>3. CASE Len(h) # Len(v)
        <5>1. Len(h) < Len(v)
          BY <4>3, <1>5
        <5>2. Len(R) \in L \/ R[Len(R)].first >= Len(v)
          BY <5>1 DEF Fits, Behind
        <5> QED
          BY <5>2 DEF K
      <4> QED
        BY <4>2, <4>3
    <3> QED
      BY <3>1, <3>2
  <2> QED
    BY <2>1, <2>2 DEF Behind
<1>7. \A j \in 1..Len(R) : Found(R, K, j) => R[j].last <= R[n].first
  <2> SUFFICES ASSUME NEW j \in 1..Len(R), Found(R, K, j)
               PROVE  R[j].last <= R[n].first
    OBVIOUS
  <2>1. Found(R, L, j) /\ j # n
    BY <1>4
  <2>2. CASE j < n
    BY <2>1, <2>2 DEF Fits, RangesApart
  <2>3. CASE n < j
    <3>1. R[n].last <= R[j].first
      BY <2>1, <2>3 DEF Fits, RangesApart
    <3>2. R[j].last <= Len(h) /\ R[j].first < R[j].last
      BY <2>1 DEF Fits, RangesOwn, Found
    <3>3. R[j].first \in Nat /\ R[j].last \in Nat
      BY <1>1
    <3>4. Len(h) <= R[j].first
      BY <3>1
    <3>5. Len(h) \in Nat
      OBVIOUS
    <3>6. FALSE
      BY <3>2, <3>3, <3>4, <3>5
    <3> QED
      BY <3>6
  <2> QED
    BY <2>1, <2>2, <2>3
<1>8. RangesOwn(v, g, R, K)
  BY <1>3, <1>4, <1>7 DEF Fits, RangesOwn
<1>9. RangesApart(R, K)
  BY <1>4 DEF Fits, RangesApart
<1>10. Fits(v, g, R, K)
  BY <1>6, <1>8, <1>9 DEF Fits
<1> QED
  BY <1>3, <1>10 DEF g, K

-----------------------------------------------------------------------------
(* The invariant. *)

Undone(c) == {n \in Nat : <<c, n>> \in rolled}

\* The changes that a conversation goes on from: the agent's copy of its own.
View(c) == IF c = conv THEN mem ELSE hist[c]

CliShape ==
    /\ conv \in Conversations /\ mem \in Seq(Nat)
    /\ hist \in [Conversations -> Seq(Nat)]
    /\ sessionRuns \in [Conversations -> Seq(Report)]

\* The agent knows where the latest run of its conversation began.
StartKnown == start = IF Latest = 0 THEN 0 ELSE sessionRuns[conv][Latest].first

HistoriesFit ==
    \A c \in Conversations \ repeated : Fits(View(c), hist[c], sessionRuns[c], Undone(c))

\* What a single prompt holds for the user, its report says.
HeldReported ==
    /\ cliAt \in {"turn", "judging"} => Latest > 0
    /\ cliAt = "repl" => cliArgs.entry = "repl"
    /\ OneShot /\ heldOperation =>
           /\ cliAt \in {"judging", "exited"}
           /\ sessionRuns[conv][Latest].status \in WaitingStatuses

NoJobsYet == cliAt \in {"argv", "options", "checked", "agent"} => jobs = {} /\ ~heldOperation

SessionInv == CliShape /\ StartKnown /\ HistoriesFit

ExitInv == HeldReported /\ NoJobsYet /\ ZeroMeansDone /\ JobsReleased

CliInv == SessionInv /\ ExitInv

sessionVars == <<conv, mem, hist, sessionRuns, start, rolled, repeated>>

LEMMA LatestIs ==
    ASSUME CliShape
    PROVE  sessionRuns[conv] \in Seq(Report) /\ Latest = Len(sessionRuns[conv]) /\ Latest \in Nat
BY DEF CliShape, Latest

LEMMA CliInitInv == CliInit => CliInv
<1> SUFFICES ASSUME CliInit
             PROVE  CliInv
  OBVIOUS
<1>1. PICK s \in Earlier :
          sessionRuns = [c \in Conversations |->
              IF c = "own" THEN <<>> ELSE <<[status |-> s, first |-> 0, last |-> 1]>>]
  BY DEF CliInit
<1> DEFINE r == [status |-> s, first |-> 0, last |-> 1]
<1>2. r \in Report /\ r.first = 0 /\ r.last = 1
  BY CliAssumption DEF Report, Final
<1> HIDE DEF r
<1>3. sessionRuns["own"] = <<>> /\ sessionRuns["earlier"] = <<r>>
      /\ sessionRuns = [c \in Conversations |-> IF c = "own" THEN <<>> ELSE <<r>>]
  BY <1>1 DEF Conversations, r
<1>4. hist["own"] = <<>> /\ hist["earlier"] = <<1>> /\ hist \in [Conversations -> Seq(Nat)]
      /\ conv = "own" /\ mem = <<>> /\ start = 0 /\ rolled = {}
  BY DEF CliInit, Conversations
<1>5. <<r>> \in Seq(Report) /\ Len(<<r>>) = 1 /\ <<r>>[1] = r
  BY <1>2
<1>6. CliShape
  <2>1. sessionRuns \in [Conversations -> Seq(Report)]
    BY <1>3, <1>5
  <2> QED
    BY <2>1, <1>4 DEF CliShape, Conversations
<1>7. StartKnown
  BY <1>3, <1>4 DEF StartKnown, Latest
<1>8. HistoriesFit
  <2>1. Fits(View("own"), hist["own"], sessionRuns["own"], Undone("own"))
    BY <1>3, <1>4 DEF Fits, View, Behind, RangesOwn, RangesApart, TailOwn
  <2>2. View("earlier") = <<1>>
    BY <1>4 DEF View
  <2>3. Fits(<<1>>, <<1>>, <<r>>, Undone("earlier"))
    <3>1. Behind(<<1>>, <<1>>, <<r>>, Undone("earlier"))
      BY DEF Behind
    <3>2. RangesOwn(<<1>>, <<1>>, <<r>>, Undone("earlier"))
      BY <1>2, <1>5 DEF RangesOwn
    <3>3. RangesApart(<<r>>, Undone("earlier"))
      BY <1>5 DEF RangesApart
    <3>4. TailOwn(<<1>>, <<r>>)
      BY <1>2, <1>5 DEF TailOwn
    <3> QED
      BY <3>1, <3>2, <3>3, <3>4 DEF Fits
  <2> QED
    BY <2>1, <2>2, <2>3, <1>3, <1>4 DEF HistoriesFit, Conversations
<1>9. ExitInv
  BY DEF CliInit, ExitInv, HeldReported, NoJobsYet, ZeroMeansDone, JobsReleased
<1> QED
  BY <1>6, <1>7, <1>8, <1>9 DEF CliInv, SessionInv

LEMMA SessionKept == SessionInv /\ UNCHANGED sessionVars => SessionInv'
BY DEF SessionInv, CliShape, StartKnown, HistoriesFit, sessionVars, View, Undone, Latest

\* Another conversation, or the same one again.
LEMMA SessionLoaded ==
    ASSUME SessionInv, NEW c \in Conversations, Loading(c), UNCHANGED <<rolled, repeated>>
    PROVE  SessionInv'
<1>1. CliShape'
  BY DEF SessionInv, CliShape, Loading
<1>2. StartKnown'
  BY DEF SessionInv, CliShape, StartKnown, Loading, Latest
<1>3. HistoriesFit'
  <2> SUFFICES ASSUME NEW d \in Conversations \ repeated
               PROVE  Fits(View(d)', hist[d], sessionRuns[d], Undone(d))
    BY DEF HistoriesFit, Loading, Undone
  <2>1. Fits(View(d), hist[d], sessionRuns[d], Undone(d))
    BY DEF SessionInv, HistoriesFit
  <2>2. View(d)' = hist[d]
    BY DEF Loading, View
  <2>3. View(d) \in Seq(Nat) /\ hist[d] \in Seq(Nat) /\ sessionRuns[d] \in Seq(Report)
    BY DEF SessionInv, CliShape, View
  <2> QED
    BY <2>1, <2>2, <2>3, FitsLoaded
<1> QED
  BY <1>1, <1>2, <1>3 DEF SessionInv

\* Steps of the process that touch its own conversation only.
LEMMA OthersFit ==
    ASSUME SessionInv, UNCHANGED <<conv, rolled, repeated>>,
           \A c \in Conversations : c # conv =>
               hist'[c] = hist[c] /\ sessionRuns'[c] = sessionRuns[c],
           conv \notin repeated =>
               Fits(mem', hist'[conv], sessionRuns'[conv], Undone(conv))
    PROVE  HistoriesFit'
<1> SUFFICES ASSUME NEW c \in Conversations \ repeated
             PROVE  Fits(View(c)', hist'[c], sessionRuns'[c], Undone(c))
  BY DEF HistoriesFit, Undone
<1>1. CASE c = conv
  BY <1>1 DEF View
<1>2. CASE c # conv
  BY <1>2 DEF View, SessionInv, HistoriesFit
<1> QED
  BY <1>1, <1>2

LEMMA OwnFits ==
    ASSUME SessionInv
    PROVE  /\ mem \in Seq(Nat) /\ hist[conv] \in Seq(Nat) /\ sessionRuns[conv] \in Seq(Report)
           /\ Latest = Len(sessionRuns[conv]) /\ Latest \in Nat /\ conv \in Conversations
           /\ conv \notin repeated => Fits(mem, hist[conv], sessionRuns[conv], Undone(conv))
BY DEF SessionInv, CliShape, HistoriesFit, View, Latest

LEMMA SessionBegun ==
    ASSUME SessionInv, BeginRun, UNCHANGED <<rolled, repeated>>
    PROVE  SessionInv' /\ sessionRuns'[conv] # <<>>
<1> DEFINE r == [status |-> "RUNNING", first |-> Len(mem), last |-> Len(mem)]
           S == Append(sessionRuns[conv], r)
<1>1. /\ mem \in Seq(Nat) /\ hist[conv] \in Seq(Nat) /\ sessionRuns[conv] \in Seq(Report)
      /\ conv \in Conversations
      /\ conv \notin repeated => Fits(mem, hist[conv], sessionRuns[conv], Undone(conv))
  BY OwnFits
<1>2. r \in Report /\ r.first = Len(mem)
  BY <1>1 DEF Report
<1>3. /\ sessionRuns' = [sessionRuns EXCEPT ![conv] = S] /\ start' = Len(mem)
      /\ UNCHANGED <<conv, hist, mem>>
  BY DEF BeginRun
<1>4. conv \notin repeated => Fits(mem, hist[conv], S, Undone(conv))
  BY <1>1, FitsBegun
<1> HIDE DEF r
<1>5. S \in Seq(Report) /\ Len(S) > 0 /\ S[Len(S)] = r
  BY <1>1, <1>2
<1> HIDE DEF S
<1>6. sessionRuns'[conv] = S /\ \A c \in Conversations : c # conv => sessionRuns'[c] = sessionRuns[c]
  BY <1>1, <1>3 DEF SessionInv, CliShape
<1>7. CliShape'
  BY <1>3, <1>5 DEF SessionInv, CliShape
<1>8. StartKnown'
  BY <1>2, <1>3, <1>5, <1>6 DEF StartKnown, Latest
<1>9. HistoriesFit'
  BY <1>3, <1>4, <1>6, OthersFit
<1> QED
  BY <1>5, <1>6, <1>7, <1>8, <1>9 DEF SessionInv

\* The history after what may have been recorded in a step.
LEMMA RecordedFits ==
    ASSUME SessionInv, NEW n \in {0, Latest}, Recorded(n)
    PROVE  /\ mem' \in Seq(Nat) /\ hist' \in [Conversations -> Seq(Nat)]
           /\ \A c \in Conversations : c # conv => hist'[c] = hist[c]
           /\ conv \notin repeated => Fits(mem', hist'[conv], sessionRuns[conv], Undone(conv))
<1>1. /\ mem \in Seq(Nat) /\ hist[conv] \in Seq(Nat) /\ sessionRuns[conv] \in Seq(Report)
      /\ Latest = Len(sessionRuns[conv]) /\ Latest \in Nat /\ conv \in Conversations
      /\ conv \notin repeated => Fits(mem, hist[conv], sessionRuns[conv], Undone(conv))
  BY OwnFits
<1>2. mem' = Append(mem, n) /\ mem' \in Seq(Nat) /\ hist' = [hist EXCEPT ![conv] = mem']
  BY <1>1 DEF Recorded
<1>3. hist'[conv] = mem' /\ hist' \in [Conversations -> Seq(Nat)]
      /\ \A c \in Conversations : c # conv => hist'[c] = hist[c]
  BY <1>1, <1>2 DEF SessionInv, CliShape
<1>4. n \in Nat /\ n \in {0, Len(sessionRuns[conv])}
  BY <1>1
<1>5. conv \notin repeated => Fits(Append(mem, n), Append(mem, n), sessionRuns[conv], Undone(conv))
  BY <1>1, <1>4, FitsRecorded
<1> QED
  BY <1>2, <1>3, <1>5

LEMMA SessionRecorded ==
    ASSUME SessionInv, NEW n \in {0, Latest}, Recorded(n),
           UNCHANGED <<conv, sessionRuns, start, rolled, repeated>>
    PROVE  SessionInv'
<1>1. /\ mem' \in Seq(Nat) /\ hist' \in [Conversations -> Seq(Nat)]
      /\ \A c \in Conversations : c # conv => hist'[c] = hist[c]
      /\ conv \notin repeated => Fits(mem', hist'[conv], sessionRuns[conv], Undone(conv))
  BY RecordedFits
<1>2. CliShape'
  BY <1>1 DEF SessionInv, CliShape
<1>3. StartKnown'
  BY DEF SessionInv, StartKnown, Latest
<1>4. HistoriesFit'
  BY <1>1, OthersFit
<1> QED
  BY <1>2, <1>3, <1>4 DEF SessionInv

\* What a report changes.
LEMMA RunReportedIs ==
    ASSUME CliShape, Latest > 0, NEW status \in Final, NEW end \in Nat, RunReported(status, end)
    PROVE  /\ sessionRuns' \in [Conversations -> Seq(Report)]
           /\ sessionRuns'[conv] = Again(sessionRuns[conv], status, end)
           /\ \A c \in Conversations : c # conv => sessionRuns'[c] = sessionRuns[c]
           /\ Len(sessionRuns'[conv]) = Latest
           /\ sessionRuns'[conv][Latest].first = sessionRuns[conv][Latest].first
           /\ sessionRuns'[conv][Latest].status = status
<1> DEFINE S == Again(sessionRuns[conv], status, end)
<1>1. sessionRuns[conv] \in Seq(Report) /\ Latest = Len(sessionRuns[conv])
  BY LatestIs
<1>2. /\ S \in Seq(Report) /\ Len(S) = Len(sessionRuns[conv])
      /\ S[Len(sessionRuns[conv])].first = sessionRuns[conv][Len(sessionRuns[conv])].first
      /\ S[Len(sessionRuns[conv])].status = status
  BY <1>1, AgainType
<1>3. sessionRuns' = [sessionRuns EXCEPT ![conv] = S]
  BY <1>1 DEF RunReported, Again
<1> HIDE DEF S
<1>4. /\ sessionRuns' \in [Conversations -> Seq(Report)] /\ sessionRuns'[conv] = S
      /\ \A c \in Conversations : c # conv => sessionRuns'[c] = sessionRuns[c]
  BY <1>2, <1>3 DEF CliShape
<1>5. /\ Len(sessionRuns'[conv]) = Latest
      /\ sessionRuns'[conv][Latest].first = sessionRuns[conv][Latest].first
      /\ sessionRuns'[conv][Latest].status = status
  BY <1>1, <1>2, <1>4
<1> QED
  BY <1>4, <1>5 DEF S

\* A report where the changes end, after a change of the step or without one.
LEMMA SessionReported ==
    ASSUME SessionInv, Latest > 0, NEW status \in Final, RunReported(status, Len(mem')),
           Recorded(Latest) \/ UNCHANGED <<mem, hist>>,
           UNCHANGED <<conv, start, rolled, repeated>>
    PROVE  SessionInv'
<1>1. /\ mem' \in Seq(Nat) /\ hist' \in [Conversations -> Seq(Nat)]
      /\ \A c \in Conversations : c # conv => hist'[c] = hist[c]
      /\ conv \notin repeated => Fits(mem', hist'[conv], sessionRuns[conv], Undone(conv))
  <2>1. CASE Recorded(Latest)
    BY <2>1, RecordedFits
  <2>2. CASE UNCHANGED <<mem, hist>>
    BY <2>2, OwnFits DEF SessionInv, CliShape
  <2> QED
    BY <2>1, <2>2
<1>2. CliShape /\ Len(mem') \in Nat
  BY <1>1 DEF SessionInv
<1>3. /\ sessionRuns' \in [Conversations -> Seq(Report)]
      /\ sessionRuns'[conv] = Again(sessionRuns[conv], status, Len(mem'))
      /\ \A c \in Conversations : c # conv => sessionRuns'[c] = sessionRuns[c]
      /\ Len(sessionRuns'[conv]) = Latest
      /\ sessionRuns'[conv][Latest].first = sessionRuns[conv][Latest].first
  BY <1>2, RunReportedIs
<1>4. CliShape'
  BY <1>1, <1>3 DEF SessionInv, CliShape
<1>5. StartKnown'
  BY <1>3 DEF SessionInv, StartKnown, Latest
<1>6. sessionRuns[conv] \in Seq(Report) /\ Len(sessionRuns[conv]) > 0 /\ hist'[conv] \in Seq(Nat)
  BY <1>1, <1>2, LatestIs DEF CliShape
<1>7. conv \notin repeated => Fits(mem', hist'[conv], sessionRuns'[conv], Undone(conv))
  BY <1>1, <1>3, <1>6, FitsReported
<1>8. HistoriesFit'
  BY <1>1, <1>3, <1>7, OthersFit
<1> QED
  BY <1>4, <1>5, <1>8 DEF SessionInv

LEMMA SessionTakenBack ==
    ASSUME SessionInv, RollBackRun, UNCHANGED <<rolled, repeated>>
    PROVE  SessionInv'
<1>1. /\ mem \in Seq(Nat) /\ hist[conv] \in Seq(Nat) /\ sessionRuns[conv] \in Seq(Report)
      /\ Latest = Len(sessionRuns[conv]) /\ Latest > 0 /\ conv \in Conversations
      /\ conv \notin repeated => Fits(mem, hist[conv], sessionRuns[conv], Undone(conv))
  BY OwnFits DEF RollBackRun
<1>2. start = sessionRuns[conv][Latest].first /\ start \in Nat /\ start < Len(mem)
  BY <1>1, ReportNumbers DEF SessionInv, StartKnown, RollBackRun
<1>3. /\ mem' = SubSeq(mem, 1, start) /\ hist' = [hist EXCEPT ![conv] = mem']
      /\ RunReported("ROLLED_BACK", start) /\ UNCHANGED <<conv, start>>
  BY DEF RollBackRun
<1>4. mem' \in Seq(Nat)
  BY <1>1, <1>2, <1>3
<1>5. hist'[conv] = mem' /\ hist' \in [Conversations -> Seq(Nat)]
      /\ \A c \in Conversations : c # conv => hist'[c] = hist[c]
  BY <1>1, <1>3, <1>4 DEF SessionInv, CliShape
<1>6. CliShape /\ "ROLLED_BACK" \in Final
  BY DEF SessionInv, Final
<1>7. /\ sessionRuns' \in [Conversations -> Seq(Report)]
      /\ sessionRuns'[conv] = Again(sessionRuns[conv], "ROLLED_BACK", start)
      /\ \A c \in Conversations : c # conv => sessionRuns'[c] = sessionRuns[c]
      /\ Len(sessionRuns'[conv]) = Latest
      /\ sessionRuns'[conv][Latest].first = sessionRuns[conv][Latest].first
  BY <1>1, <1>2, <1>3, <1>6, RunReportedIs
<1>8. CliShape'
  BY <1>3, <1>4, <1>5, <1>7 DEF SessionInv, CliShape
<1>9. StartKnown'
  BY <1>3, <1>7 DEF SessionInv, StartKnown, Latest
<1>10. conv \notin repeated => Fits(mem', hist'[conv], sessionRuns'[conv], Undone(conv))
  BY <1>1, <1>2, <1>3, <1>5, <1>6, <1>7, FitsTakenBack
<1>11. HistoriesFit'
  BY <1>3, <1>5, <1>7, <1>10, OthersFit
<1> QED
  BY <1>8, <1>9, <1>11 DEF SessionInv

LEMMA BeginningOf ==
    ASSUME NEW h \in Seq(Nat), NEW k \in 0..Len(h)
    PROVE  SubSeq(h, 1, k) \in Seq(Nat) /\ Len(SubSeq(h, 1, k)) = k
OBVIOUS

\* noryx rollback, and what it takes.
LEMMA SessionRolledBack ==
    ASSUME SessionInv, NEW c \in Conversations, NEW n \in DOMAIN sessionRuns[c],
           RollbackOutside(c, n)
    PROVE  /\ SessionInv'
           /\ <<c, n>> \notin rolled /\ c \notin repeated =>
                  \A i \in Len(hist'[c]) + 1..Len(hist[c]) : hist[c][i] \in {0, n}
<1> DEFINE g == SubSeq(hist[c], 1, Len(hist[c]) - (sessionRuns[c][n].last - sessionRuns[c][n].first))
<1>1. hist[c] \in Seq(Nat) /\ sessionRuns[c] \in Seq(Report) /\ n \in 1..Len(sessionRuns[c])
      /\ View(c) \in Seq(Nat)
  BY DEF SessionInv, CliShape, View
<1>2. /\ sessionRuns[c][n].status # "RUNNING"
      /\ sessionRuns[c][n].first < sessionRuns[c][n].last
      /\ sessionRuns[c][n].last = Len(hist[c])
      /\ hist' = [hist EXCEPT ![c] = g]
      /\ rolled' = rolled \union {<<c, n>>}
      /\ repeated' = IF <<c, n>> \in rolled THEN repeated \union {c} ELSE repeated
      /\ UNCHANGED <<conv, sessionRuns, mem, start>>
  BY DEF RollbackOutside, MayRollBack
<1>3. sessionRuns[c][n].first \in Nat /\ sessionRuns[c][n].last \in Nat
  BY <1>1, ReportNumbers
<1>4. g \in Seq(Nat) /\ Len(g) = sessionRuns[c][n].first
  <2>1. g = SubSeq(hist[c], 1, sessionRuns[c][n].first)
    BY <1>2, <1>3
  <2>2. sessionRuns[c][n].first \in 0..Len(hist[c])
    BY <1>1, <1>2, <1>3
  <2> HIDE DEF g
  <2> QED
    BY <2>1, <2>2, <1>1, BeginningOf
<1>5. <<c, n>> \notin rolled /\ c \notin repeated =>
          /\ Fits(View(c), hist[c], sessionRuns[c], Undone(c))
          /\ Found(sessionRuns[c], Undone(c), n)
  BY <1>2 DEF SessionInv, HistoriesFit, Undone, Found
<1>6. <<c, n>> \notin rolled /\ c \notin repeated =>
          Fits(View(c), g, sessionRuns[c], Undone(c) \union {n})
  BY <1>1, <1>2, <1>5, FitsRolledBack
<1> HIDE DEF g
<1>7. hist'[c] = g /\ hist' \in [Conversations -> Seq(Nat)]
      /\ \A d \in Conversations : d # c => hist'[d] = hist[d]
  BY <1>2, <1>4 DEF SessionInv, CliShape
<1>8. CliShape' /\ StartKnown'
  BY <1>2, <1>7 DEF SessionInv, CliShape, StartKnown, Latest
<1>9. HistoriesFit'
  <2> SUFFICES ASSUME NEW d \in Conversations \ repeated'
               PROVE  Fits(View(d)', hist'[d], sessionRuns[d], Undone(d)')
    BY <1>2 DEF HistoriesFit
  <2>1. CASE d # c
    <3>1. Undone(d)' = Undone(d) /\ View(d)' = View(d) /\ hist'[d] = hist[d] /\ d \notin repeated
      BY <2>1, <1>2, <1>7 DEF Undone, View
    <3> QED
      BY <3>1 DEF SessionInv, HistoriesFit
  <2>2. CASE d = c
    <3>1. <<c, n>> \notin rolled /\ c \notin repeated
      BY <2>2, <1>2
    <3>2. Undone(c)' = Undone(c) \union {n}
      BY <1>1, <1>2 DEF Undone
    <3>3. Fits(View(c), g, sessionRuns[c], Undone(c) \union {n})
      BY <3>1, <1>6
    <3>4. CASE c = conv
      BY <3>2, <3>3, <3>4, <2>2, <1>2, <1>7 DEF View
    <3>5. CASE c # conv
      <4>1. View(c)' = g /\ View(c) = hist[c]
        BY <3>5, <1>2, <1>7 DEF View
      <4>2. Fits(g, g, sessionRuns[c], Undone(c) \union {n})
        BY <1>1, <1>4, <3>3, FitsLoaded
      <4> QED
        BY <4>1, <4>2, <3>2, <2>2, <1>7
    <3> QED
      BY <3>4, <3>5
  <2> QED
    BY <2>1, <2>2
<1>10. ASSUME <<c, n>> \notin rolled, c \notin repeated, NEW i \in Len(hist'[c]) + 1..Len(hist[c])
       PROVE  hist[c][i] \in {0, n}
  <2>1. View(c)[i] \in {0, n}
    BY <1>1, <1>2, <1>4, <1>5, <1>7, <1>10 DEF Fits, RangesOwn
  <2>2. i \in 1..Len(hist[c])
    BY <1>3, <1>4, <1>7
  <2>3. hist[c][i] = View(c)[i]
    BY <2>2, <1>5, <1>10 DEF Fits, Behind
  <2> QED
    BY <2>1, <2>3
<1> QED
  BY <1>8, <1>9, <1>10 DEF SessionInv

-----------------------------------------------------------------------------
(* The steps. *)

\* Until a turn begins, only loading a conversation touches the histories.
LEMMA EarlySteps ==
    ASSUME CliInv, UNCHANGED <<rolled, repeated>>,
           \/ Rejected \/ Doctor \/ Options \/ Info \/ Direct \/ Preflight \/ Web
           \/ MakeAgent \/ Prompt \/ Repl
    PROVE  CliInv'
<1>1. SessionInv'
  <2>1. UNCHANGED sessionVars
    BY DEF Rejected, Doctor, Options, Info, Direct, Preflight, Web, MakeAgent, Prompt, Repl,
           Exit, agentVars, sessionVars
  <2> QED
    BY <2>1, SessionKept DEF CliInv
<1>2. UNCHANGED <<conv, sessionRuns, heldOperation, jobs>>
  BY DEF Rejected, Doctor, Options, Info, Direct, Preflight, Web, MakeAgent, Prompt, Repl, agentVars
<1>3. ExitInv'
  <2>1. CASE Rejected
    BY <2>1, <1>2 DEF CliInv, ExitInv, HeldReported, NoJobsYet, ZeroMeansDone, JobsReleased,
           Rejected, Exit, OneShot, Latest
  <2>2. CASE Doctor
    BY <2>2, <1>2 DEF CliInv, ExitInv, HeldReported, NoJobsYet, ZeroMeansDone, JobsReleased,
           Doctor, Exit, OneShot, Latest
  <2>3. CASE Options
    <3>1. jobs = {} /\ ~heldOperation /\ cliAt' = "options"
      BY <2>3 DEF CliInv, ExitInv, NoJobsYet, Options
    <3> QED
      BY <3>1, <1>2 DEF ExitInv, HeldReported, NoJobsYet, ZeroMeansDone, JobsReleased
  <2>4. CASE Info
    BY <2>4, <1>2 DEF CliInv, ExitInv, HeldReported, NoJobsYet, ZeroMeansDone, JobsReleased,
           Info, Exit, OneShot, Latest
  <2>5. CASE Direct
    BY <2>5, <1>2 DEF CliInv, ExitInv, HeldReported, NoJobsYet, ZeroMeansDone, JobsReleased,
           Direct, Exit, OneShot, Latest
  <2>6. CASE Preflight
    BY <2>6, <1>2 DEF CliInv, ExitInv, HeldReported, NoJobsYet, ZeroMeansDone, JobsReleased,
           Preflight, Exit, OneShot, Latest
  <2>7. CASE Web
    BY <2>7, <1>2 DEF CliInv, ExitInv, HeldReported, NoJobsYet, ZeroMeansDone, JobsReleased,
           Web, Exit, OneShot, Latest
  <2>8. CASE MakeAgent
    BY <2>8, <1>2 DEF CliInv, ExitInv, HeldReported, NoJobsYet, ZeroMeansDone, JobsReleased,
           MakeAgent, Exit, OneShot, Latest
  <2>9. CASE Prompt
    BY <2>9, <1>2 DEF CliInv, ExitInv, HeldReported, NoJobsYet, ZeroMeansDone, JobsReleased,
           Prompt, OneShot, Latest
  <2>10. CASE Repl
    BY <2>10, <1>2 DEF CliInv, ExitInv, HeldReported, NoJobsYet, ZeroMeansDone, JobsReleased,
           Repl, OneShot, Latest
  <2> QED
    BY <2>1, <2>2, <2>3, <2>4, <2>5, <2>6, <2>7, <2>8, <2>9, <2>10
<1> QED
  BY <1>1, <1>3 DEF CliInv

LEMMA ClosingSteps ==
    ASSUME CliInv, UNCHANGED <<rolled, repeated>>, NEW c \in {"0", "1", "2", "3"},
           CloseAndExit(c),
           c = "0" /\ cliArgs.entry \in {"prompt", "print", "resume_run"} =>
               sessionRuns[conv][Latest].status \notin Failing \union WaitingStatuses
    PROVE  CliInv'
<1>1. SessionInv'
  BY SessionKept DEF CliInv, CloseAndExit, Closing, sessionVars
<1>2. /\ cliAt' = "exited" /\ exitCode' = c /\ jobs' = jobs \ {conv}
      /\ UNCHANGED <<cliArgs, conv, sessionRuns, heldOperation>>
  BY DEF CloseAndExit, Exit, Closing
<1>3. HeldReported'
  BY <1>2 DEF CliInv, ExitInv, HeldReported, OneShot, Latest
<1>4. NoJobsYet' /\ JobsReleased'
  BY <1>2 DEF NoJobsYet, JobsReleased
<1>5. ZeroMeansDone'
  BY <1>2, <1>3 DEF ZeroMeansDone, HeldReported, OneShot, Latest
<1> QED
  BY <1>1, <1>3, <1>4, <1>5 DEF CliInv, ExitInv

LEMMA LoadSteps ==
    ASSUME CliInv, UNCHANGED <<rolled, repeated>>,
           LoadConversation \/ ResumeRun \/ \E c \in Conversations : Switch(c)
    PROVE  CliInv'
<1>1. ASSUME NEW c \in Conversations, Loading(c), UNCHANGED <<exitCode, cliArgs>>,
             \/ cliAt \in {"agent", "loaded"} /\ cliAt' = "loaded"
             \/ cliAt = "loaded" /\ cliAt' = "asking"
             \/ cliAt = "repl" /\ cliAt' = "repl"
      PROVE  CliInv'
  <2>1. SessionInv'
    BY <1>1, SessionLoaded DEF CliInv
  <2>2. ~heldOperation \/ cliArgs.entry = "repl"
    BY <1>1 DEF CliInv, ExitInv, HeldReported, OneShot
  <2>3. ExitInv'
    BY <1>1, <2>2 DEF CliInv, ExitInv, HeldReported, NoJobsYet, ZeroMeansDone, JobsReleased,
        Loading, OneShot, Latest
  <2> QED
    BY <2>1, <2>3 DEF CliInv
<1>2. "earlier" \in Conversations
  BY DEF Conversations
<1>3. CASE LoadConversation
  <2>1. CASE cliAt' = "loaded" /\ UNCHANGED <<exitCode, cliArgs, agentVars>>
    <3>1. SessionInv'
      BY <2>1, SessionKept DEF CliInv, sessionVars, agentVars
    <3>2. ExitInv'
      BY <2>1, <1>3 DEF CliInv, ExitInv, HeldReported, NoJobsYet, ZeroMeansDone, JobsReleased,
          LoadConversation, agentVars, OneShot, Latest
    <3> QED
      BY <3>1, <3>2 DEF CliInv
  <2>2. CASE Loading("earlier") /\ cliAt' = "loaded" /\ UNCHANGED <<exitCode, cliArgs>>
    BY <2>2, <1>1, <1>2, <1>3 DEF LoadConversation
  <2>3. CASE CloseAndExit("1")
    BY <2>3, ClosingSteps
  <2> QED
    BY <1>3, <2>1, <2>2, <2>3 DEF LoadConversation
<1>4. CASE ResumeRun
  <2>1. CASE CloseAndExit("2")
    BY <2>1, ClosingSteps
  <2>2. CASE Loading("earlier") /\ cliAt' = "asking" /\ UNCHANGED <<exitCode, cliArgs>>
    BY <2>2, <1>1, <1>2, <1>4 DEF ResumeRun
  <2> QED
    BY <1>4, <2>1, <2>2 DEF ResumeRun
<1>5. CASE \E c \in Conversations : Switch(c)
  <2>1. PICK c \in Conversations : Switch(c)
    BY <1>5
  <2> QED
    BY <2>1, <1>1 DEF Switch
<1> QED
  BY <1>3, <1>4, <1>5

LEMMA TurnSteps ==
    ASSUME CliInv, UNCHANGED <<rolled, repeated>>,
           BeginRun \/ Edit \/ StartJob \/ Interrupt \/ \E status \in Outcomes : EndTurn(status)
    PROVE  CliInv'
<1>1. CASE BeginRun
  <2>1. SessionInv' /\ sessionRuns'[conv] # <<>>
    BY <1>1, SessionBegun DEF CliInv
  <2>2. Latest' > 0
    <3>1. conv' = conv /\ sessionRuns'[conv] \in Seq(Report)
      BY <1>1, <2>1 DEF BeginRun, SessionInv, CliShape
    <3> QED
      BY <2>1, <3>1 DEF Latest
  <2>3. ~heldOperation \/ cliArgs.entry = "repl"
    BY <1>1 DEF CliInv, ExitInv, HeldReported, OneShot, BeginRun
  <2>4. cliAt' = "turn" /\ UNCHANGED <<cliArgs, exitCode, heldOperation, jobs>>
    BY <1>1 DEF BeginRun
  <2>5. ExitInv'
    BY <2>2, <2>3, <2>4 DEF ExitInv, HeldReported, NoJobsYet, ZeroMeansDone, JobsReleased, OneShot
  <2> QED
    BY <2>1, <2>5 DEF CliInv
<1>2. CASE Edit
  <2>1. SessionInv'
    BY <1>2, SessionRecorded DEF Edit, CliInv
  <2>2. ExitInv'
    BY <1>2 DEF CliInv, ExitInv, HeldReported, NoJobsYet, ZeroMeansDone, JobsReleased,
        Edit, OneShot, Latest
  <2> QED
    BY <2>1, <2>2 DEF CliInv
<1>3. CASE StartJob
  <2>1. SessionInv'
    BY <1>3, SessionKept DEF StartJob, CliInv, sessionVars
  <2>2. ExitInv'
    BY <1>3 DEF CliInv, ExitInv, HeldReported, NoJobsYet, ZeroMeansDone, JobsReleased,
        StartJob, OneShot, Latest
  <2> QED
    BY <2>1, <2>2 DEF CliInv
<1>4. CASE Interrupt
  <2>1. SessionInv'
    BY <1>4, SessionKept DEF Interrupt, Exit, Closing, agentVars, CliInv, sessionVars
  <2>2. CASE OneShot
    <3>1. /\ cliAt \in {"turn", "judging"} /\ cliAt' = "exited" /\ exitCode' = "1"
          /\ UNCHANGED <<cliArgs, conv, sessionRuns, heldOperation>>
      BY <1>4, <2>2 DEF Interrupt, Exit, agentVars
    <3>2. HeldReported'
      BY <3>1 DEF CliInv, ExitInv, HeldReported, OneShot, Latest
    <3>3. NoJobsYet' /\ ZeroMeansDone' /\ JobsReleased'
      BY <2>2, <3>1 DEF NoJobsYet, ZeroMeansDone, JobsReleased, OneShot
    <3> QED
      BY <2>1, <3>2, <3>3 DEF CliInv, ExitInv
  <2>3. CASE ~OneShot
    <3>1. /\ cliAt' \in {"repl", "exited"} /\ UNCHANGED <<cliArgs, conv, heldOperation>>
          /\ cliAt' = "exited" => exitCode' = "1" /\ conv \notin jobs'
      BY <1>4, <2>3 DEF Interrupt, Exit, Closing, agentVars
    <3> QED
      BY <2>1, <2>3, <3>1 DEF CliInv, ExitInv, HeldReported, NoJobsYet, ZeroMeansDone, JobsReleased,
          OneShot
  <2> QED
    BY <2>1, <2>2, <2>3 DEF CliInv
<1>5. CASE \E status \in Outcomes : EndTurn(status)
  <2>1. PICK status \in Outcomes : EndTurn(status)
    BY <1>5
  <2>2. status \in Final /\ Latest > 0 /\ SessionInv /\ CliShape
    BY <2>1, CliAssumption DEF CliInv, SessionInv, ExitInv, HeldReported, EndTurn
  <2>3. RunReported(status, Len(mem)) /\ UNCHANGED <<conv, mem, hist, start>>
    BY <2>1 DEF EndTurn, RunFinished
  <2>4. SessionInv'
    BY <2>2, <2>3, SessionReported
  <2>5. Len(mem) \in Nat
    BY <2>2 DEF CliShape
  <2>6. Latest' = Latest /\ sessionRuns'[conv][Latest].status = status
    BY <2>2, <2>3, <2>5, RunReportedIs DEF Latest
  <2>7. /\ heldOperation' = (heldOperation \/ status \in WaitingStatuses)
        /\ cliAt = "turn" /\ cliAt' = (IF OneShot THEN "judging" ELSE "repl")
        /\ UNCHANGED <<cliArgs, exitCode, jobs>>
    BY <2>1 DEF EndTurn
  <2>8. OneShot => ~heldOperation
    BY <2>7 DEF CliInv, ExitInv, HeldReported
  <2>9. HeldReported'
    <3>1. OneShot' = OneShot
      BY <2>7 DEF OneShot
    <3>2. CASE OneShot
      BY <2>2, <2>3, <2>6, <2>7, <2>8, <3>1, <3>2 DEF HeldReported
    <3>3. CASE ~OneShot
      BY <2>7, <3>1, <3>3 DEF HeldReported, OneShot
    <3> QED
      BY <3>2, <3>3
  <2>10. NoJobsYet' /\ ZeroMeansDone' /\ JobsReleased'
    BY <2>7 DEF NoJobsYet, ZeroMeansDone, JobsReleased
  <2> QED
    BY <2>4, <2>9, <2>10 DEF CliInv, ExitInv
<1> QED
  BY <1>1, <1>2, <1>3, <1>4, <1>5

\* The code of a single prompt is made of the report and of what it waits for.
LEMMA JudgeSteps ==
    ASSUME CliInv, UNCHANGED <<rolled, repeated>>, Judge \/ Quit
    PROVE  CliInv'
<1>1. CASE Judge
  <2> DEFINE status == sessionRuns[conv][Latest].status
             failed == status = "AWAITING_CONFIRMATION"
  <2>1. PICK c \in IF cliArgs.entry = "prompt" THEN ReaderCodes(status) ELSE Codes(status, failed) :
            CloseAndExit(c)
    BY <1>1 DEF Judge
  <2>2. ReaderCodes(status) \subseteq {"0", "2", "3"}
        /\ ("0" \in ReaderCodes(status) => status = "VERIFIED")
    BY DEF ReaderCodes
  <2>3. Codes(status, failed) \subseteq {"0", "2", "3"}
        /\ ("0" \in Codes(status, failed) => status \notin Failing \union WaitingStatuses)
    BY DEF Codes, Failing, WaitingStatuses
  <2>4. c \in {"0", "1", "2", "3"}
    BY <2>1, <2>2, <2>3
  <2>5. c = "0" => status \notin Failing \union WaitingStatuses
    BY <2>1, <2>2, <2>3 DEF Failing, WaitingStatuses
  <2> QED
    BY <2>1, <2>4, <2>5, ClosingSteps
<1>2. CASE Quit
  <2>1. cliArgs.entry = "repl" /\ CloseAndExit("0")
    BY <1>2 DEF Quit, CliInv, ExitInv, HeldReported
  <2> QED
    BY <2>1, ClosingSteps
<1> QED
  BY <1>1, <1>2

LEMMA SessionSteps ==
    ASSUME CliInv, UNCHANGED <<rolled, repeated>>,
           UserCommand \/ RollBackRun \/ \E applies \in BOOLEAN : Answer(applies)
    PROVE  CliInv'
<1>1. cliAt = "repl" /\ cliArgs.entry = "repl" /\ UNCHANGED <<cliAt, cliArgs, exitCode, jobs>>
  BY DEF UserCommand, RollBackRun, Answer, CliInv, ExitInv, HeldReported
<1>2. ExitInv'
  BY <1>1 DEF ExitInv, HeldReported, NoJobsYet, ZeroMeansDone, JobsReleased, OneShot
<1>3. SessionInv
  BY DEF CliInv
<1>4. CASE UserCommand
  <2>1. /\ Recorded(0) \/ UNCHANGED <<mem, hist>>
        /\ UNCHANGED <<conv, sessionRuns, start>>
    BY <1>4 DEF UserCommand
  <2>2. SessionInv'
    BY <1>3, <2>1, SessionRecorded, SessionKept DEF sessionVars
  <2> QED
    BY <2>2, <1>2 DEF CliInv
<1>5. CASE RollBackRun
  BY <1>2, <1>3, <1>5, SessionTakenBack DEF CliInv
<1>6. CASE \E applies \in BOOLEAN : Answer(applies)
  <2>1. PICK applies \in BOOLEAN : Answer(applies)
    BY <1>6
  <2>2. /\ Recorded(Latest) \/ UNCHANGED <<mem, hist>>
        /\ UNCHANGED <<conv, start>>
    BY <2>1 DEF Answer
  <2>3. CASE Latest = 0
    <3>1. UNCHANGED sessionRuns
      BY <2>1, <2>3 DEF Answer
    <3>2. SessionInv'
      BY <1>3, <2>2, <3>1, SessionRecorded, SessionKept DEF sessionVars
    <3> QED
      BY <3>2, <1>2 DEF CliInv
  <2>4. CASE Latest # 0
    <3>1. PICK status \in Outcomes \ WaitingStatuses : RunReported(status, Len(mem'))
      BY <2>1, <2>4 DEF Answer
    <3>2. status \in Final /\ Latest > 0
      BY <2>4, <1>3, CliAssumption, OwnFits
    <3>3. SessionInv'
      BY <1>3, <2>2, <3>1, <3>2, SessionReported
    <3> QED
      BY <3>3, <1>2 DEF CliInv
  <2> QED
    BY <2>3, <2>4
<1> QED
  BY <1>4, <1>5, <1>6

LEMMA OutsideSteps ==
    ASSUME CliInv, NEW c \in Conversations, NEW n \in DOMAIN sessionRuns[c], RollbackOutside(c, n)
    PROVE  CliInv'
<1>1. SessionInv'
  BY SessionRolledBack DEF CliInv
<1>2. UNCHANGED <<cliArgs, cliAt, exitCode, conv, sessionRuns, heldOperation, jobs>>
  BY DEF RollbackOutside
<1>3. ExitInv'
  BY <1>2 DEF CliInv, ExitInv, HeldReported, NoJobsYet, ZeroMeansDone, JobsReleased, OneShot, Latest
<1> QED
  BY <1>1, <1>3 DEF CliInv

LEMMA CliStepInv == CliInv /\ [CliNext]_cliVars => CliInv'
<1> SUFFICES ASSUME CliInv, [CliNext]_cliVars
             PROVE  CliInv'
  OBVIOUS
<1>1. CASE CliProcess /\ UNCHANGED <<rolled, repeated>>
  BY <1>1, EarlySteps, LoadSteps, TurnSteps, JudgeSteps, SessionSteps DEF CliProcess
<1>2. CASE \E c \in Conversations : \E n \in DOMAIN sessionRuns[c] : RollbackOutside(c, n)
  BY <1>2, OutsideSteps
<1>3. CASE UNCHANGED cliVars
  <2>1. UNCHANGED sessionVars /\ UNCHANGED <<cliArgs, cliAt, exitCode, heldOperation, jobs>>
    BY <1>3 DEF cliVars, agentVars, sessionVars
  <2>2. SessionInv'
    BY <2>1, SessionKept DEF CliInv
  <2>3. ExitInv'
    BY <2>1 DEF CliInv, ExitInv, HeldReported, NoJobsYet, ZeroMeansDone, JobsReleased, OneShot,
        Latest, sessionVars
  <2> QED
    BY <2>2, <2>3 DEF CliInv
<1> QED
  BY <1>1, <1>2, <1>3 DEF CliNext

LEMMA CliTakesOwn ==
    ASSUME CliInv, CliNext, NEW c \in Conversations \ repeated',
           NEW n \in DOMAIN sessionRuns[c], <<c, n>> \in rolled' \ rolled,
           NEW i \in Len(hist'[c]) + 1..Len(hist[c])
    PROVE  hist[c][i] \in {0, n}
<1>1. PICK d \in Conversations : \E m \in DOMAIN sessionRuns[d] : RollbackOutside(d, m)
  BY DEF CliNext
<1>2. PICK m \in DOMAIN sessionRuns[d] : RollbackOutside(d, m)
  BY <1>1
<1>3. rolled' = rolled \union {<<d, m>>} /\ repeated \subseteq repeated'
  BY <1>2 DEF RollbackOutside
<1>4. d = c /\ m = n /\ <<c, n>> \notin rolled /\ c \notin repeated
  BY <1>3
<1> QED
  BY <1>2, <1>4, SessionRolledBack DEF CliInv

\* One process's exit code says what its prompt came to, its jobs end with it, and noryx rollback
\* takes back the changes of the run it was asked for (MCHost).
THEOREM SessionEndsCleanHolds == CliSpec => SessionEndsClean
<1>1. CliInv => ZeroMeansDone /\ JobsReleased
  BY DEF CliInv, ExitInv
<1>2. CliInv /\ [CliNext]_cliVars => [TakesItsOwn]_cliVars
  BY CliTakesOwn DEF TakesItsOwn
<1> QED
  BY <1>1, <1>2, CliInitInv, CliStepInv, PTL DEF CliSpec, SessionEndsClean
=============================================================================
