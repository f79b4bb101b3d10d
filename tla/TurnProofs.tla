----------------------------- MODULE TurnProofs ------------------------------
(***************************************************************************)
(* What is proved of the parts of a turn, for every value of their         *)
(* constants: HostedTurn (how often a run asks the model, and that what it *)
(* sends follows the protocol of tool calls), ToolGate (nothing runs more  *)
(* often than it was agreed to, edits stay in scope), TestEvidence (what   *)
(* is judged VERIFIED has no failing test), ReleaseGate (what is accepted  *)
(* is bound to what is there) and VerifiedTurn (a turn reported VERIFIED   *)
(* was tested and reviewed as it is).                                      *)
(***************************************************************************)
EXTENDS HostedTurn, ToolGate, TestEvidence, ReleaseGate, VerifiedTurn, SequenceTheorems,
        FiniteSetTheorems, WellFoundedInduction, TLAPS

-----------------------------------------------------------------------------
(* How often a run asks the model.                                         *)

\* While a run goes on, its requests are the turns it counted and the empty
\* responses it forgave.
RequestsCounted ==
    /\ pc \in PcValues
    /\ iteration \in 0..MaxTurns
    /\ empties \in 0..MaxEmptyRetries
    /\ requests \in Nat
    /\ pc \in {"loop", "requesting", "tools"} =>
          empties < MaxEmptyRetries /\ requests = iteration + empties
    /\ pc = "requesting" => iteration > 0
    /\ requests <= MaxTurns + MaxEmptyRetries - 1

\* Nothing was asked before the first message.
LEMMA RequestsCountedInit == Init => RequestsCounted
  BY TurnAssumption DEF Init, RequestsCounted, PcValues

\* Every step keeps the count: a new turn starts from zero, a request adds a
\* turn, a forgiven response trades its turn for a retry.
LEMMA RequestsCountedStep == RequestsCounted /\ [Next]_vars => RequestsCounted'
  <1> SUFFICES ASSUME RequestsCounted, [Next]_vars PROVE RequestsCounted'
    OBVIOUS
  <1> USE TurnAssumption DEF RequestsCounted, PcValues
  <1>1. CASE UserMessage
    BY <1>1 DEF UserMessage, Begin
  <1>2. CASE ResumeAfterApproval
    BY <1>2 DEF ResumeAfterApproval, Begin
  <1>3. CASE LoopTop
    BY <1>3 DEF LoopTop
  <1>4. CASE TurnsExhausted \/ ProviderFails
    BY <1>4 DEF TurnsExhausted, ProviderFails, Fails
  <1>5. CASE StreamEscapes \/ Cancel
    BY <1>5 DEF StreamEscapes, Cancel, kernel
  <1>6. CASE RespondEmpty
    BY <1>6 DEF RespondEmpty
  <1>7. CASE EmptyGivesUp
    BY <1>7 DEF EmptyGivesUp, Fails
  <1>8. CASE RespondText
    BY <1>8 DEF RespondText
  <1>9. CASE RespondCalls
    BY <1>9 DEF RespondCalls
  <1>10. CASE ToolReturns
    BY <1>10 DEF ToolReturns
  <1>11. ASSUME NEW gate \in Gates, ToolPauses(gate) PROVE RequestsCounted'
    BY <1>11 DEF ToolPauses
  <1>12. ASSUME NEW gate \in Gates, NEW op \in Ops, Resolve(gate, op) PROVE RequestsCounted'
    BY <1>12 DEF Resolve, kernel
  <1>13. CASE UNCHANGED vars
    BY <1>13 DEF vars
  <1> QED
    BY <1>1, <1>2, <1>3, <1>4, <1>5, <1>6, <1>7, <1>8, <1>9, <1>10, <1>11,
       <1>12, <1>13 DEF Next, KernelStep

\* A run asks the model at most max_turns times plus the empty responses it
\* forgives (run_interactive gives the turn of an empty response back).
THEOREM RequestsBoundedHolds == Spec => []RequestsBounded
  <1>1. RequestsCounted => RequestsBounded
    BY DEF RequestsCounted, RequestsBounded
  <1> QED
    BY RequestsCountedInit, RequestsCountedStep, <1>1, PTL DEF Spec

-----------------------------------------------------------------------------
(* The invariant of the conversation.                                      *)

\* The messages there are.
Msg ==
    {System, User} \cup [role : {"assistant"}, calls : Seq(Nat)] \cup [role : {"tool"}, call : Nat]

\* The tool calls there are.
Call == [id : Nat, op : Ops \cup {Plain}]

\* The calls of assistant message m are answered one after the other at the
\* end of msgs; those of rest still have to be.
Answering(msgs, m, rest) ==
    /\ m \in DOMAIN msgs /\ msgs[m].role = "assistant"
    /\ Len(msgs[m].calls) = Len(msgs) - m + Len(rest)
    /\ \A k \in 1..(Len(msgs) - m) : msgs[m + k] = Tool(msgs[m].calls[k])
    /\ \A k \in 1..Len(rest) : msgs[m].calls[Len(msgs) - m + k] = rest[k].id
    /\ \A i \in DOMAIN msgs : Owned(msgs, i) /\ (i # m => Answered(msgs, i))

\* The shape of the conversation.
ConversationOK ==
    /\ messages \in Seq(Msg) /\ current \in Seq(Msg) /\ last \in Seq(Msg)
    /\ results \in Seq(Nat) /\ calls \in Seq(Call)
    /\ callOf \in [Gates \X Ops -> Nat] /\ nextId \in Nat /\ pending \subseteq Gates \X Ops

\* What is sent follows the protocol if the conversation did when the turn
\* began; between two requests the calls of the last response are answered.
Sending ==
    FollowsProtocol(messages) =>
        /\ pc \in {"loop", "requesting"} => FollowsProtocol(current)
        /\ pc = "tools" => \E m \in DOMAIN current : Answering(current, m, calls)

\* Without a pause no review is queued and no tool exchange is kept.
Unpaused ==
    ~paused => /\ pending = {} /\ pc # "resolved"
               /\ \A i \in DOMAIN messages : messages[i] \in {User, Text}

ProtocolInv == ConversationOK /\ Sending /\ Unpaused

-----------------------------------------------------------------------------
(* Messages and what follows them.                                         *)

LEMMA Kinds ==
    /\ System \in Msg /\ User \in Msg /\ Text \in Msg
    /\ System.role = "system" /\ User.role = "user"
    /\ Text.role = "assistant" /\ Text.calls = <<>>
    /\ \A id \in Nat : Tool(id) \in Msg /\ Tool(id).role = "tool" /\ Tool(id).call = id
    /\ \A batch \in Seq(Nat) :
           Assistant(batch) \in Msg /\ Assistant(batch).role = "assistant" /\ Assistant(batch).calls = batch
    /\ \A m \in Msg : m.role \in {"system", "user", "assistant", "tool"}
    /\ \A m \in Msg : m.role = "assistant" => m.calls \in Seq(Nat)
    /\ \A m \in Msg : m.role = "tool" => m.call \in Nat
<1>1. <<>> \in Seq(Nat)
  OBVIOUS
<1> QED
  BY <1>1 DEF Msg, System, User, Text, Tool, Assistant

\* Message i of msgs has the call that message j is the result of.
Caller(msgs, j, i) ==
    /\ msgs[i].role = "assistant"
    /\ j - i \in DOMAIN msgs[i].calls
    /\ msgs[i].calls[j - i] = msgs[j].call

\* A message at the end leaves what was answered and owned.
LEMMA AppendKeeps ==
    ASSUME NEW s, s \in Seq(Msg), NEW m \in Msg, NEW t, t = Append(s, m),
           NEW i \in Nat, i \in 1..Len(s)
    PROVE  /\ Answered(s, i) => Answered(t, i)
           /\ Owned(s, i) => Owned(t, i)
<1>1. /\ Len(t) = Len(s) + 1 /\ Len(s) \in Nat
      /\ \A j \in 1..Len(s) : t[j] = s[j]
  BY AppendProperties, LenProperties
<1>2. s[i] \in Msg /\ t[i] = s[i]
  BY <1>1, ElementOfSeq
<1>3. ASSUME Answered(s, i) PROVE Answered(t, i)
  <2>1. SUFFICES ASSUME t[i].role = "assistant", NEW k \in DOMAIN t[i].calls
                 PROVE  i + k <= Len(t) /\ t[i + k] = Tool(t[i].calls[k])
    BY DEF Answered
  <2>2. k \in Nat \ {0}
    BY <1>2, <2>1, Kinds, LenProperties
  <2>3. i + k <= Len(s) /\ s[i + k] = Tool(s[i].calls[k])
    BY <1>2, <1>3, <2>1 DEF Answered
  <2> QED
    BY <1>1, <1>2, <2>2, <2>3
<1>4. ASSUME Owned(s, i) PROVE Owned(t, i)
  <2>1. CASE ~IsTool(t[i])
    BY <2>1 DEF Owned
  <2>2. CASE IsTool(s[i])
    <3>1. PICK j \in 1..(i - 1) : Caller(s, i, j)
      BY <1>4, <2>2 DEF Owned, Caller
    <3>2. Caller(t, i, j)
      <4>1. t[j] = s[j]
        BY <1>1
      <4> QED
        BY <1>2, <3>1, <4>1 DEF Caller
    <3> QED
      BY <3>2 DEF Owned, Caller
  <2> QED
    BY <1>2, <2>1, <2>2
<1> QED
  BY <1>3, <1>4

\* A message without calls at the end damages nothing.
LEMMA AppendPlain ==
    ASSUME NEW s, s \in Seq(Msg), FollowsProtocol(s), NEW m \in {System, User, Text}
    PROVE  Append(s, m) \in Seq(Msg) /\ FollowsProtocol(Append(s, m))
<1>1. PICK t : t = Append(s, m)
  OBVIOUS
<1>2. /\ m \in Msg /\ t \in Seq(Msg) /\ Len(s) \in Nat
      /\ DOMAIN t = 1..(Len(s) + 1) /\ DOMAIN s = 1..Len(s)
      /\ t[Len(s) + 1] = m
  BY <1>1, Kinds, AppendProperties, LenProperties
<1>3. ASSUME NEW i \in 1..Len(s) PROVE Answered(t, i) /\ Owned(t, i)
  <2>1. i \in Nat /\ Answered(s, i) /\ Owned(s, i)
    BY <1>2 DEF FollowsProtocol
  <2> QED
    BY <1>1, <1>2, <2>1, AppendKeeps
<1>4. Answered(t, Len(s) + 1) /\ Owned(t, Len(s) + 1)
  <2>1. ~IsTool(m)
    BY Kinds DEF IsTool
  <2>2. m.role = "assistant" => DOMAIN m.calls = {}
    BY Kinds
  <2> QED
    BY <1>2, <2>1, <2>2 DEF Answered, Owned
<1> QED
  BY <1>1, <1>2, <1>3, <1>4 DEF FollowsProtocol

\* Messages that keep their distances and lose only what no kept result
\* belongs to still follow the protocol: s from position b + 1 on is put
\* behind p plain messages.
LEMMA ShiftedFollows ==
    ASSUME NEW s, s \in Seq(Msg), FollowsProtocol(s), NEW t, t \in Seq(Msg),
           NEW n \in Nat, NEW b \in Nat, NEW p \in Nat, Len(s) = b + n, Len(t) = p + n,
           b = 0 \/ (n > 0 /\ ~IsTool(s[b + 1])),
           \A i \in 1..p : t[i] \in {System, User, Text},
           \A i \in 1..n : t[p + i] = s[b + i]
    PROVE  FollowsProtocol(t)
<1>1. DOMAIN s = 1..(b + n) /\ DOMAIN t = 1..(p + n)
  BY LenProperties
<1>2. ASSUME NEW i \in 1..p
      PROVE  Answered(t, i) /\ Owned(t, i)
  <2>0. t[i] \in {System, User, Text}
    OBVIOUS
  <2>1. ~IsTool(t[i])
    BY <2>0, Kinds DEF IsTool
  <2>2. t[i].role = "assistant" => DOMAIN t[i].calls = {}
    BY <2>0, Kinds
  <2> QED
    BY <2>1, <2>2 DEF Answered, Owned
<1>3. ASSUME NEW i \in 1..n
      PROVE  Answered(t, p + i) /\ Owned(t, p + i)
  <2>1. b + i \in DOMAIN s /\ t[p + i] = s[b + i]
    BY <1>1
  <2>2. Answered(s, b + i) /\ Owned(s, b + i) /\ s[b + i] \in Msg
    BY <2>1, <1>1, ElementOfSeq DEF FollowsProtocol
  <2>3. Answered(t, p + i)
    <3>1. SUFFICES ASSUME s[b + i].role = "assistant"
                   PROVE  \A k \in DOMAIN s[b + i].calls :
                              p + i + k <= Len(t) /\ t[p + i + k] = Tool(s[b + i].calls[k])
      BY <2>1 DEF Answered
    <3>2. DOMAIN s[b + i].calls \subseteq Nat
      <4>1. s[b + i].calls \in Seq(Nat)
        BY <2>2, <3>1, Kinds
      <4>2. PICK m \in Nat : DOMAIN s[b + i].calls = 1..m
        BY <4>1, LenProperties
      <4> QED
        BY <4>2
    <3>3. \A k \in DOMAIN s[b + i].calls : b + i + k <= b + n /\ s[b + i + k] = Tool(s[b + i].calls[k])
      BY <2>2, <3>1 DEF Answered
    <3>4. \A k \in Nat : b + i + k <= b + n =>
              /\ p + i + k <= p + n /\ i + k \in 1..n
              /\ p + i + k = p + (i + k) /\ b + i + k = b + (i + k)
      OBVIOUS
    <3>5. \A k \in Nat : b + i + k <= b + n => p + i + k <= Len(t) /\ t[p + i + k] = s[b + i + k]
      BY <3>4
    <3> QED
      BY <3>2, <3>3, <3>5
  <2>4. Owned(t, p + i)
    <3>1. CASE ~IsTool(t[p + i])
      BY <3>1 DEF Owned
    <3>2. SUFFICES ASSUME IsTool(s[b + i]) PROVE Owned(t, p + i)
      BY <2>1, <3>1
    <3>3. PICK o \in 1..(b + i - 1) : Caller(s, b + i, o)
      BY <2>2, <3>2 DEF Owned, Caller
    \* The message that is kept first is a result only of a message before it.
    <3>4. o > b
      <4>1. SUFFICES ASSUME o <= b PROVE FALSE
        BY <3>3
      <4>2. o \in DOMAIN s /\ o \in Nat /\ b # 0 /\ 1 <= o
        BY <1>1, <4>1
      <4>3. Answered(s, o) /\ s[o] \in Msg
        BY <1>1, <4>2, ElementOfSeq DEF FollowsProtocol
      <4>4. s[o].calls \in Seq(Nat)
        BY <3>3, <4>3, Kinds DEF Caller
      <4>5. PICK m \in Nat : DOMAIN s[o].calls = 1..m /\ \A k \in 1..m : s[o].calls[k] \in Nat
        BY <4>4, LenProperties, ElementOfSeq
      <4>6. (b + i) - o \in 1..m
        BY <3>3, <4>5, Zenon DEF Caller
      <4>7. (b + 1) - o \in 1..m /\ o + ((b + 1) - o) = b + 1
        <5>1. (b + 1) - o >= 1 /\ (b + 1) - o <= (b + i) - o /\ (b + 1) - o \in Nat
          BY <4>1, <4>2
        <5>2. (b + i) - o <= m
          BY <4>6
        <5> QED
          BY <4>2, <4>5, <5>1, <5>2
      <4>8. s[b + 1] = Tool(s[o].calls[(b + 1) - o])
        BY <3>3, <4>3, <4>5, <4>7 DEF Answered, Caller
      <4>9. IsTool(s[b + 1])
        <5>1. PICK id \in Nat : id = s[o].calls[(b + 1) - o]
          BY <4>5, <4>7
        <5>2. Tool(id).role = "tool" /\ s[b + 1] = Tool(id)
          BY ONLY <5>1, <4>8, Kinds
        <5> QED
          BY ONLY <5>2 DEF IsTool
      <4> QED
        BY <4>2, <4>9
    <3>5. PICK a \in 1..(i - 1) : o = b + a
      <4>1. o - b \in 1..(i - 1) /\ o = b + (o - b)
        BY <3>4
      <4> QED
        BY <4>1
    <3>6. /\ p + a \in 1..(p + i - 1) /\ a \in 1..n
          /\ (p + i) - (p + a) = (b + i) - (b + a)
      OBVIOUS
    <3>7. t[p + a] = s[o]
      BY <3>5, <3>6
    <3>8. Caller(t, p + i, p + a)
      BY <2>1, <3>3, <3>5, <3>6, <3>7 DEF Caller
    <3> QED
      BY <3>6, <3>8 DEF Owned, Caller
  <2> QED
    BY <2>3, <2>4
<1>4. \A j \in 1..(p + n) : j \in 1..p \/ \E i \in 1..n : j = p + i
  <2>1. SUFFICES ASSUME NEW j \in 1..(p + n), j \notin 1..p PROVE \E i \in 1..n : j = p + i
    OBVIOUS
  <2>2. j - p \in 1..n /\ j = p + (j - p)
    BY <2>1
  <2> QED
    BY <2>2
<1> QED
  BY <1>1, <1>2, <1>3, <1>4 DEF FollowsProtocol

-----------------------------------------------------------------------------
(* compact_messages.                                                       *)

\* A set of numbers that is not empty has a least element.
LEMMA LeastNumber ==
    ASSUME NEW S \in SUBSET Nat, S # {}
    PROVE  \E m \in S : \A n \in S : m <= n
<1>1. PICK m \in S : \A n \in S : <<n, m>> \notin OpToRel(<, Nat)
  BY NatLessThanWellFounded, WFMin, Zenon
<1>2. \A n \in S : ~(n < m)
  BY <1>1, Zenon DEF OpToRel
<1> QED
  BY <1>2

\* There is a cut, and it separates no result from its call: going back from
\* the messages to keep, the first message or one that is no result comes.
LEMMA CutExists ==
    ASSUME NEW s, s \in Seq(Msg), NEW keep \in Nat \ {0}, Len(s) > keep + 2
    PROVE  /\ Cut(s, keep) \in 1..Len(s)
           /\ Cut(s, keep) = 1 \/ ~IsTool(s[Cut(s, keep)])
<1> DEFINE top == Len(s) - keep + 1
           Good(i) == i = 1 \/ ~IsTool(s[i])
           Back == {d \in Nat : d <= top - 1 /\ Good(top - d)}
<1>1. Len(s) \in Nat /\ top \in Nat /\ top > 3 /\ top <= Len(s)
  BY LenProperties
<1> HIDE DEF top
<1>2. top - 1 \in Back
  BY <1>1
<1>3. PICK d \in Back : \A e \in Back : d <= e
  <2>1. Back \in SUBSET Nat /\ Back # {}
    BY <1>2
  <2> HIDE DEF Back
  <2> QED
    BY <2>1, LeastNumber, Zenon
<1>4. /\ top - d \in 1..top
      /\ top - d = 1 \/ ~IsTool(s[top - d])
      /\ \A j \in ((top - d) + 1)..top : IsTool(s[j])
  <2>1. top - d \in 1..top /\ Good(top - d)
    BY <1>1, <1>3
  <2>2. ASSUME NEW j \in ((top - d) + 1)..top
        PROVE  IsTool(s[j])
    <3>1. top - j \in Nat /\ top - j < d /\ top - (top - j) = j /\ top - j <= top - 1
      BY <1>1, <1>3, <2>2
    <3>2. top - j \notin Back
      BY <1>3, <3>1
    <3> QED
      BY <3>1, <3>2
  <2> QED
    BY <2>1, <2>2
<1>5. /\ Cut(s, keep) \in 1..top
      /\ Cut(s, keep) = 1 \/ ~IsTool(s[Cut(s, keep)])
  BY <1>4 DEF Cut, top
<1> QED
  BY <1>1, <1>5

\* t is h and behind it the messages of s from position c on.
PutBehind(h, s, c, t) ==
    \E n, b, p \in Nat :
        /\ t \in Seq(Msg) /\ b + 1 = c /\ p = Len(h)
        /\ Len(s) = b + n /\ Len(t) = p + n
        /\ \A i \in 1..p : t[i] = h[i]
        /\ \A i \in 1..n : t[p + i] = s[b + i]

LEMMA Behind ==
    ASSUME NEW s, s \in Seq(Msg), NEW h, h \in Seq(Msg), NEW c \in Nat,
           c = 1 \/ c \in 1..Len(s), NEW t, t = h \o SubSeq(s, c, Len(s))
    PROVE  PutBehind(h, s, c, t)
<1> DEFINE r == SubSeq(s, c, Len(s))
           n == Len(s) - c + 1
           b == c - 1
           p == Len(h)
<1>1. Len(s) \in Nat /\ p \in Nat /\ DOMAIN s = 1..Len(s)
  BY LenProperties
<1>2. n \in Nat /\ b \in Nat /\ b + 1 = c /\ Len(s) = b + n
  BY <1>1
<1>3. /\ r \in Seq(Msg) /\ Len(r) = n
      /\ \A i \in 1..n : r[i] = s[b + i]
  <2>1. \A i \in c..Len(s) : s[i] \in Msg
    BY <1>1, ElementOfSeq
  <2>2. /\ r \in Seq(Msg)
        /\ Len(r) = IF c <= Len(s) THEN Len(s) - c + 1 ELSE 0
        /\ \A i \in 1..(Len(s) - c + 1) : r[i] = s[c + i - 1]
    BY <1>1, <2>1, SubSeqProperties
  <2> QED
    BY <1>1, <2>2
<1>t. t = h \o r
  OBVIOUS
<1> HIDE DEF n, b, p, r
<1>4. /\ t \in Seq(Msg) /\ Len(t) = p + n
      /\ \A i \in 1..(p + n) : t[i] = IF i <= p THEN h[i] ELSE r[i - p]
  BY <1>3, <1>t, ConcatProperties DEF p
<1>5. \A i \in 1..p : t[i] = h[i]
  BY <1>1, <1>2, <1>4
<1>6. \A i \in 1..n : t[p + i] = s[b + i]
  BY <1>1, <1>2, <1>3, <1>4
<1> QED
  BY <1>1, <1>2, <1>4, <1>5, <1>6 DEF p, PutBehind

\* What is put behind plain messages follows the protocol if it did, and if
\* it does not begin with a result.
LEMMA BehindFollows ==
    ASSUME NEW s, s \in Seq(Msg), FollowsProtocol(s), NEW c \in Nat,
           c = 1 \/ (c \in 1..Len(s) /\ ~IsTool(s[c])),
           NEW h, h \in Seq(Msg), \A i \in DOMAIN h : h[i] \in {System, User, Text}
    PROVE  /\ h \o SubSeq(s, c, Len(s)) \in Seq(Msg)
           /\ FollowsProtocol(h \o SubSeq(s, c, Len(s)))
<1>0. PICK t : t = h \o SubSeq(s, c, Len(s))
  OBVIOUS
<1>c. c = 1 \/ c \in 1..Len(s)
  OBVIOUS
<1>1. PICK n, b, p \in Nat :
          /\ t \in Seq(Msg) /\ b + 1 = c /\ p = Len(h)
          /\ Len(s) = b + n /\ Len(t) = p + n
          /\ \A i \in 1..p : t[i] = h[i]
          /\ \A i \in 1..n : t[p + i] = s[b + i]
  <2>1. PutBehind(h, s, c, t)
    BY <1>0, <1>c, Behind
  <2> QED
    BY <2>1 DEF PutBehind
<1>2. \A i \in 1..p : t[i] \in {System, User, Text}
  BY <1>1, LenProperties
<1>3. b = 0 \/ (n > 0 /\ ~IsTool(s[b + 1]))
  BY <1>1
<1>4. FollowsProtocol(t)
  BY <1>1, <1>2, <1>3, ShiftedFollows
<1> QED
  BY <1>0, <1>1, <1>4

\* Compaction keeps the protocol, and a conversation without tool exchanges
\* keeps none.
LEMMA CompactedFollows ==
    ASSUME NEW s, s \in Seq(Msg), NEW keep \in Nat \ {0}
    PROVE  /\ Compacted(s, keep) \in Seq(Msg)
           /\ FollowsProtocol(s) => FollowsProtocol(Compacted(s, keep))
           /\ (\A i \in DOMAIN s : s[i] \in {User, Text}) =>
                  \A i \in DOMAIN Compacted(s, keep) : Compacted(s, keep)[i] \in {User, Text}
<1> DEFINE c == Cut(s, keep)
           h == <<User, Text>>
           t == h \o SubSeq(s, c, Len(s))
<1>1. CASE Compacted(s, keep) = s
  BY <1>1
<1>2. CASE Len(s) > keep + 2 /\ Compacted(s, keep) = t
  <2>1. /\ c \in Nat /\ (c = 1 \/ c \in 1..Len(s))
        /\ c = 1 \/ (c \in 1..Len(s) /\ ~IsTool(s[c]))
    BY <1>2, CutExists
  <2>2. h \in Seq(Msg) /\ Len(h) = 2 /\ \A i \in DOMAIN h : h[i] \in {User, Text}
    BY Kinds
  <2> HIDE DEF c, h
  <2>3. PICK n, b, p \in Nat :
            /\ t \in Seq(Msg) /\ b + 1 = c /\ p = Len(h)
            /\ Len(s) = b + n /\ Len(t) = p + n
            /\ \A i \in 1..p : t[i] = h[i]
            /\ \A i \in 1..n : t[p + i] = s[b + i]
    <3>1. PutBehind(h, s, c, t)
      BY <2>1, <2>2, Behind
    <3> QED
      BY <3>1 DEF PutBehind
  <2>4. FollowsProtocol(s) => FollowsProtocol(t)
    BY <2>1, <2>2, BehindFollows
  <2>5. ASSUME \A i \in DOMAIN s : s[i] \in {User, Text}
        PROVE  \A i \in DOMAIN t : t[i] \in {User, Text}
    <3> HIDE DEF t
    <3>1. DOMAIN t = 1..(p + n) /\ DOMAIN s = 1..(b + n) /\ DOMAIN h = 1..p
      BY <2>2, <2>3, LenProperties
    <3>2. \A i \in 1..p : t[i] \in {User, Text}
      BY <2>2, <2>3, <3>1
    <3>3. ASSUME NEW i \in 1..n PROVE t[p + i] \in {User, Text}
      <4>1. b + i \in DOMAIN s /\ t[p + i] = s[b + i]
        BY <2>3, <3>1
      <4> QED
        BY <2>5, <4>1
    <3>4. \A j \in 1..(p + n) : j \in 1..p \/ (j - p \in 1..n /\ j = p + (j - p))
      OBVIOUS
    <3> QED
      BY <3>1, <3>2, <3>3, <3>4
  <2> QED
    BY <1>2, <2>3, <2>4, <2>5
<1>3. Compacted(s, keep) = s \/ (Len(s) > keep + 2 /\ Compacted(s, keep) = t)
  <2>1. Len(s) \in Nat
    BY LenProperties
  <2>2. CASE Len(s) > CompactAbove /\ ~(Len(s) <= keep + 2)
    <3>1. Compacted(s, keep) = t
      BY <2>2, Zenon DEF Compacted, CompactMessages
    <3> QED
      BY <2>1, <2>2, <3>1
  <2>3. CASE ~(Len(s) > CompactAbove) \/ Len(s) <= keep + 2
    BY <2>3, Zenon DEF Compacted, CompactMessages
  <2> QED
    BY <2>2, <2>3
<1> QED
  BY <1>1, <1>2, <1>3

\* The system message comes before the conversation.
LEMMA SystemFirst ==
    ASSUME NEW s, s \in Seq(Msg)
    PROVE  /\ <<System>> \o s \in Seq(Msg)
           /\ FollowsProtocol(s) => FollowsProtocol(<<System>> \o s)
<1>1. /\ <<System>> \in Seq(Msg)
      /\ \A i \in DOMAIN <<System>> : <<System>>[i] \in {System, User, Text}
  BY Kinds
<1>2. SubSeq(s, 1, Len(s)) = s
  BY SubSeqFull
<1>3. <<System>> \o s \in Seq(Msg)
  BY <1>1, ConcatProperties
<1>4. FollowsProtocol(s) => FollowsProtocol(<<System>> \o SubSeq(s, 1, Len(s)))
  BY <1>1, BehindFollows
<1> QED
  BY <1>2, <1>3, <1>4

-----------------------------------------------------------------------------
(* A response with calls and the results behind it.                        *)

\* The calls of a new response all have to be answered.
LEMMA CallsBegin ==
    ASSUME NEW s, s \in Seq(Msg), FollowsProtocol(s), NEW batch, batch \in Seq(Nat),
           NEW rest, rest \in Seq(Call), Len(rest) = Len(batch),
           \A k \in 1..Len(batch) : rest[k].id = batch[k]
    PROVE  /\ Append(s, Assistant(batch)) \in Seq(Msg)
           /\ \E m \in DOMAIN Append(s, Assistant(batch)) : Answering(Append(s, Assistant(batch)), m, rest)
<1>1. PICK t : t = Append(s, Assistant(batch))
  OBVIOUS
<1>2. PICK m \in Nat : m = Len(s) + 1
  BY LenProperties
<1>3. /\ Assistant(batch) \in Msg /\ t \in Seq(Msg) /\ Len(s) \in Nat /\ Len(t) = m
      /\ DOMAIN t = 1..m /\ DOMAIN s = 1..Len(s) /\ t[m] = Assistant(batch)
  BY <1>1, <1>2, Kinds, AppendProperties, LenProperties
<1>4. t[m].role = "assistant" /\ t[m].calls = batch
  BY <1>3, Kinds
<1>5. \A i \in DOMAIN t : Owned(t, i) /\ (i # m => Answered(t, i))
  <2>1. ASSUME NEW i \in 1..Len(s) PROVE Answered(t, i) /\ Owned(t, i)
    <3>1. i \in Nat /\ Answered(s, i) /\ Owned(s, i)
      BY <1>3 DEF FollowsProtocol
    <3> QED
      BY <1>1, <1>3, <3>1, AppendKeeps
  <2>2. Owned(t, m)
    BY <1>4 DEF Owned, IsTool
  <2> QED
    BY <1>2, <1>3, <2>1, <2>2
<1>6. Len(batch) \in Nat /\ Len(t) - m = 0
  BY <1>3, LenProperties
<1>7. Answering(t, m, rest)
  <2>1. /\ m \in DOMAIN t
        /\ Len(t[m].calls) = Len(t) - m + Len(rest)
    BY <1>2, <1>3, <1>4, <1>6
  <2>2. \A k \in 1..(Len(t) - m) : t[m + k] = Tool(t[m].calls[k])
    BY <1>6
  <2>3. \A k \in 1..Len(rest) : t[m].calls[Len(t) - m + k] = rest[k].id
    BY <1>4, <1>6
  <2> QED
    BY <1>4, <1>5, <2>1, <2>2, <2>3 DEF Answering
<1> QED
  BY <1>1, <1>2, <1>3, <1>7

\* The result of the first of them that is left.
LEMMA NextResult ==
    ASSUME NEW s, s \in Seq(Msg), NEW m \in Nat, NEW rest, rest \in Seq(Call), rest # <<>>,
           Answering(s, m, rest)
    PROVE  /\ Append(s, Tool(Head(rest).id)) \in Seq(Msg)
           /\ m \in DOMAIN Append(s, Tool(Head(rest).id))
           /\ Answering(Append(s, Tool(Head(rest).id)), m, Tail(rest))
<1>1. PICK id : id = Head(rest).id
  OBVIOUS
<1>2. PICK t : t = Append(s, Tool(id))
  OBVIOUS
<1>3. PICK tl : tl = Tail(rest)
  OBVIOUS
<1>4. /\ Len(rest) \in Nat \ {0} /\ rest[1].id = id /\ id \in Nat
      /\ Len(tl) = Len(rest) - 1 /\ \A k \in 1..Len(tl) : tl[k] = rest[k + 1]
  <2>1. Len(rest) \in Nat \ {0} /\ rest[1] \in Call /\ id = rest[1].id
    BY <1>1, LenProperties, ElementOfSeq, EmptySeq
  <2>2. Len(tl) = Len(rest) - 1 /\ \A k \in 1..Len(tl) : tl[k] = rest[k + 1]
    BY <1>3, HeadTailProperties
  <2> QED
    BY <2>1, <2>2 DEF Call
<1>5. PICK n \in Nat : n = Len(s)
  BY LenProperties
<1>6. /\ Tool(id) \in Msg /\ t \in Seq(Msg) /\ Len(t) = n + 1
      /\ DOMAIN t = 1..(n + 1) /\ DOMAIN s = 1..n /\ t[n + 1] = Tool(id)
      /\ \A j \in 1..n : t[j] = s[j]
  BY <1>2, <1>4, <1>5, Kinds, AppendProperties, LenProperties
<1>7. /\ m \in 1..n /\ s[m] \in Msg /\ t[m] = s[m] /\ s[m].role = "assistant"
      /\ s[m].calls \in Seq(Nat)
  BY <1>6, Kinds, ElementOfSeq DEF Answering
<1>8. /\ Len(s[m].calls) = (n - m) + Len(rest)
      /\ \A k \in 1..(n - m) : s[m + k] = Tool(s[m].calls[k])
      /\ \A k \in 1..Len(rest) : s[m].calls[(n - m) + k] = rest[k].id
  BY <1>5 DEF Answering
<1>9. /\ (n + 1) - m = (n - m) + 1 /\ n - m \in Nat
      /\ s[m].calls[(n - m) + 1] = id
      /\ (n - m) + 1 \in DOMAIN s[m].calls
  BY <1>4, <1>7, <1>8, LenProperties
<1>10. \A k \in 1..((n + 1) - m) : t[m + k] = Tool(t[m].calls[k])
  <2>1. SUFFICES ASSUME NEW k \in 1..((n + 1) - m)
                 PROVE  t[m + k] = Tool(s[m].calls[k])
    BY <1>7
  <2>2. CASE k = (n - m) + 1
    BY <1>6, <1>7, <1>9, <2>2
  <2>3. CASE k \in 1..(n - m)
    BY <1>6, <1>7, <1>8, <2>3
  <2> QED
    BY <1>9, <2>2, <2>3
<1>11. \A k \in 1..Len(tl) : t[m].calls[((n + 1) - m) + k] = tl[k].id
  <2>1. SUFFICES ASSUME NEW k \in 1..Len(tl)
                 PROVE  s[m].calls[((n + 1) - m) + k] = rest[k + 1].id
    BY <1>4, <1>7
  <2>2. k + 1 \in 1..Len(rest) /\ ((n + 1) - m) + k = (n - m) + (k + 1)
    BY <1>4, <1>9
  <2> QED
    BY <1>8, <2>2
<1>12. \A i \in 1..(n + 1) : Owned(t, i) /\ (i # m => Answered(t, i))
  <2>1. \A i \in 1..n : Owned(s, i) /\ (i # m => Answered(s, i))
    BY <1>6 DEF Answering
  <2>2. ASSUME NEW i \in 1..n PROVE Owned(t, i) /\ (i # m => Answered(t, i))
    <3>1. i \in Nat /\ i \in 1..Len(s)
      BY <1>5
    <3> QED
      BY <1>2, <1>6, <2>1, <3>1, AppendKeeps
  <2>3. Answered(t, n + 1)
    BY <1>4, <1>6, Kinds DEF Answered
  <2>4. Owned(t, n + 1)
    <3>1. Caller(t, n + 1, m)
      <4>1. (n + 1) - m \in DOMAIN t[m].calls /\ t[m].calls[(n + 1) - m] = id
        BY <1>7, <1>9
      <4>2. t[n + 1].call = id
        BY <1>4, <1>6, Kinds
      <4> QED
        BY <1>7, <4>1, <4>2 DEF Caller
    <3>2. m \in 1..((n + 1) - 1)
      BY <1>7
    <3> QED
      BY <3>1, <3>2 DEF Owned, Caller
  <2> QED
    BY <2>2, <2>3, <2>4
<1>13. Len(t[m].calls) = (Len(t) - m) + Len(tl)
  BY <1>4, <1>6, <1>7, <1>8
<1>14. Answering(t, m, tl)
  BY <1>6, <1>7, <1>10, <1>11, <1>12, <1>13 DEF Answering
<1> QED
  BY <1>1, <1>2, <1>3, <1>6, <1>14 DEF Answering

\* With the last result the conversation is in order again.
LEMMA AllAnswered ==
    ASSUME NEW s, s \in Seq(Msg), NEW m \in Nat, Answering(s, m, <<>>)
    PROVE  FollowsProtocol(s)
<1>1. PICK n \in Nat : n = Len(s) /\ DOMAIN s = 1..n
  BY LenProperties
<1>2. m \in 1..n /\ s[m] \in Msg /\ s[m].role = "assistant" /\ s[m].calls \in Seq(Nat)
  BY <1>1, Kinds, ElementOfSeq DEF Answering
<1>3. Len(s[m].calls) = n - m
  BY <1>1, <1>2 DEF Answering
<1>4. Answered(s, m)
  <2>1. \A k \in 1..(n - m) : m + k <= n /\ s[m + k] = Tool(s[m].calls[k])
    BY <1>1, <1>2 DEF Answering
  <2> QED
    BY <1>1, <1>2, <1>3, <2>1, LenProperties DEF Answered
<1> QED
  BY <1>4 DEF Answering, FollowsProtocol

-----------------------------------------------------------------------------
(* Every step keeps the invariant.                                         *)

\* Both compaction limits are positive numbers.
LEMMA Limits == KeepKernel \in Nat \ {0} /\ KeepAgent \in Nat \ {0}
  BY TurnAssumption

\* Nothing was said before the first message.
LEMMA ProtocolInit == Init => ProtocolInv
<1>1. Init => ConversationOK
  BY EmptySeq DEF Init, ConversationOK, Unbound
<1>2. Init => Sending /\ Unpaused
  BY DEF Init, Sending, Unpaused
<1> QED
  BY <1>1, <1>2 DEF ProtocolInv

\* A turn begins with the conversation, compacted, behind the system message.
LEMMA BeginHolds ==
    ASSUME NEW h, h \in Seq(Msg), Begin(h)
    PROVE  /\ messages' \in Seq(Msg) /\ current' \in Seq(Msg)
           /\ FollowsProtocol(messages') => FollowsProtocol(current')
           /\ (\A i \in DOMAIN h : h[i] \in {User, Text}) =>
                  \A i \in DOMAIN messages' : messages'[i] \in {User, Text}
<1>1. messages' = Compacted(h, KeepAgent) /\ current' = <<System>> \o messages'
  BY DEF Begin
<1>2. /\ messages' \in Seq(Msg)
      /\ (\A i \in DOMAIN h : h[i] \in {User, Text}) =>
             \A i \in DOMAIN messages' : messages'[i] \in {User, Text}
  BY <1>1, Limits, CompactedFollows
<1> QED
  BY <1>1, <1>2, SystemFirst

\* The new calls of a response have the identifiers of its message.
LEMMA NewCalls ==
    ASSUME ConversationOK, NEW n \in Nat, NEW op \in [1..n -> Ops \cup {Plain}],
           NEW cs, cs = [i \in 1..n |-> [id |-> nextId + i - 1, op |-> op[i]]]
    PROVE  /\ Ids(n) \in Seq(Nat) /\ Len(Ids(n)) = n
           /\ cs \in Seq(Call) /\ Len(cs) = n
           /\ \A k \in 1..n : cs[k].id = Ids(n)[k]
<1>1. nextId \in Nat
  BY DEF ConversationOK
<1>2. \A i \in 1..n : nextId + i - 1 \in Nat
  BY <1>1
<1>3. Ids(n) \in [1..n -> Nat] /\ cs \in [1..n -> Call]
  BY <1>2 DEF Ids, Call
<1>4. Ids(n) \in Seq(Nat) /\ Len(Ids(n)) = n /\ cs \in Seq(Call) /\ Len(cs) = n
  BY <1>3, SeqDef, LenProperties
<1> QED
  BY <1>4 DEF Ids

\* The call to be executed next.
LEMMA FirstCall ==
    ASSUME NEW cs, cs \in Seq(Call), cs # <<>>
    PROVE  Head(cs).id \in Nat /\ Tail(cs) \in Seq(Call)
<1>1. Head(cs) \in Call /\ Tail(cs) \in Seq(Call)
  BY HeadTailProperties
<1> QED
  BY <1>1 DEF Call

\* A plain message more.
LEMMA PlainAppended ==
    ASSUME NEW s, s \in Seq(Msg), \A i \in DOMAIN s : s[i] \in {User, Text},
           NEW m \in {User, Text}
    PROVE  /\ Append(s, m) \in Seq(Msg)
           /\ \A i \in DOMAIN Append(s, m) : Append(s, m)[i] \in {User, Text}
<1>1. m \in Msg
  BY Kinds
<1>2. PICK t : t = Append(s, m)
  OBVIOUS
<1>3. /\ t \in Seq(Msg) /\ Len(s) \in Nat /\ DOMAIN s = 1..Len(s)
      /\ DOMAIN t = 1..(Len(s) + 1) /\ t[Len(s) + 1] = m
      /\ \A i \in 1..Len(s) : t[i] = s[i]
  BY <1>1, <1>2, AppendProperties, LenProperties
<1>4. \A i \in DOMAIN t : t[i] \in {User, Text}
  BY <1>3
<1> QED
  BY <1>2, <1>3, <1>4

\* The messages stay messages and the calls stay calls.
LEMMA ConversationStep == ConversationOK /\ [Next]_vars => ConversationOK'
<1> SUFFICES ASSUME ConversationOK, [Next]_vars PROVE ConversationOK'
  OBVIOUS
<1> USE DEF ConversationOK
<1>1. CASE UserMessage
  <2>1. Append(messages, User) \in Seq(Msg)
    BY Kinds, AppendProperties
  <2> QED
    BY <1>1, <2>1, BeginHolds, EmptySeq DEF UserMessage, Begin
<1>2. CASE ResumeAfterApproval
  BY <1>2, BeginHolds, EmptySeq DEF ResumeAfterApproval, Begin
<1>3. CASE LoopTop
  BY <1>3, Limits, CompactedFollows DEF LoopTop
<1>4. CASE TurnsExhausted \/ ProviderFails \/ StreamEscapes \/ Cancel
  BY <1>4 DEF TurnsExhausted, ProviderFails, StreamEscapes, Cancel, Fails, kernel
<1>5. CASE RespondEmpty
  BY <1>5, Kinds DEF RespondEmpty
<1>6. CASE EmptyGivesUp
  BY <1>6, Kinds, AppendProperties DEF EmptyGivesUp, Fails
<1>7. CASE RespondText
  BY <1>7, Kinds, AppendProperties DEF RespondText
<1>8. CASE RespondCalls
  <2>0. PICK n \in 1..MaxCalls : \E op \in [1..n -> Ops \cup {Plain}] :
            /\ current' = Append(current, Assistant(Ids(n)))
            /\ last' = <<Assistant(Ids(n))>>
            /\ calls' = [i \in 1..n |-> [id |-> nextId + i - 1, op |-> op[i]]]
            /\ nextId' = nextId + n
    BY <1>8 DEF RespondCalls
  <2>1. PICK op \in [1..n -> Ops \cup {Plain}] :
            /\ current' = Append(current, Assistant(Ids(n)))
            /\ last' = <<Assistant(Ids(n))>>
            /\ calls' = [i \in 1..n |-> [id |-> nextId + i - 1, op |-> op[i]]]
            /\ nextId' = nextId + n
    BY <2>0
  <2>2. Ids(n) \in Seq(Nat) /\ calls' \in Seq(Call) /\ Assistant(Ids(n)) \in Msg
    <3>1. n \in Nat
      BY TurnAssumption
    <3> QED
      BY <2>1, <3>1, NewCalls, Kinds
  <2>3. current' \in Seq(Msg) /\ last' \in Seq(Msg) /\ nextId' \in Nat
    BY <2>1, <2>2, AppendProperties
  <2> QED
    BY <1>8, <2>2, <2>3 DEF RespondCalls
<1>9. CASE ToolReturns
  <2>1. Head(calls).id \in Nat /\ Tail(calls) \in Seq(Call)
    BY <1>9, FirstCall DEF ToolReturns
  <2> QED
    BY <1>9, <2>1, Kinds, AppendProperties DEF ToolReturns
<1>10. ASSUME NEW gate \in Gates, ToolPauses(gate)
       PROVE  ConversationOK'
  <2>1. PICK id \in Nat : id = Head(calls).id
    BY <1>10, FirstCall DEF ToolPauses
  <2>2. results' = IF gate = "command" THEN Append(results, id) ELSE results
    BY <1>10, <2>1 DEF ToolPauses
  <2>3. results' \in Seq(Nat)
    BY <2>1, <2>2, AppendProperties
  <2>4. PICK found : found = [i \in DOMAIN results' |-> Tool(results'[i])]
    OBVIOUS
  <2>5. found \in Seq(Msg)
    <3>1. PICK n \in Nat : DOMAIN results' = 1..n /\ \A i \in 1..n : results'[i] \in Nat
      BY <2>3, LenProperties, ElementOfSeq
    <3>2. found \in [1..n -> Msg]
      BY <2>4, <3>1, Kinds
    <3> QED
      BY <3>2, SeqDef
  <2>6. messages' = ((messages \o last) \o found) \o <<Text>>
    BY <1>10, <2>1, <2>4 DEF ToolPauses
  <2>7. messages' \in Seq(Msg)
    <3>1. messages \o last \in Seq(Msg)
      BY ConcatProperties
    <3>2. (messages \o last) \o found \in Seq(Msg)
      BY <2>5, <3>1, ConcatProperties
    <3>3. <<Text>> \in Seq(Msg)
      BY Kinds
    <3> QED
      BY <2>6, <3>2, <3>3, ConcatProperties
  <2>8. pending' \subseteq Gates \X Ops /\ callOf' \in [Gates \X Ops -> Nat]
    BY <1>10, <2>1 DEF ToolPauses
  <2> QED
    BY <1>10, <2>3, <2>7, <2>8, EmptySeq DEF ToolPauses
<1>11. ASSUME NEW gate \in Gates, NEW op \in Ops, Resolve(gate, op)
       PROVE  ConversationOK'
  <2>1. callOf[<<gate, op>>] \in Nat
    OBVIOUS
  <2>2. messages' \in Seq(Msg)
    BY <1>11, <2>1, Kinds, AppendProperties DEF Resolve
  <2>3. callOf' \in [Gates \X Ops -> Nat]
    BY <1>11 DEF Resolve, Unbound
  <2>4. pending' \subseteq Gates \X Ops
    <3>1. (CHOOSE g \in Gates : g # gate) \in Gates
      BY DEF Gates
    <3> QED
      BY <1>11, <3>1 DEF Resolve
  <2> QED
    BY <1>11, <2>2, <2>3, <2>4 DEF Resolve, kernel
<1>12. CASE UNCHANGED vars
  BY <1>12 DEF vars
<1> QED
  BY <1>1, <1>2, <1>3, <1>4, <1>5, <1>6, <1>7, <1>8, <1>9, <1>10, <1>11, <1>12
     DEF Next, KernelStep

\* What a turn works on stays in order while the conversation it began with is.
LEMMA SendingStep == ConversationOK /\ Sending /\ [Next]_vars => Sending'
<1> SUFFICES ASSUME ConversationOK, Sending, [Next]_vars, FollowsProtocol(messages')
             PROVE  /\ pc' \in {"loop", "requesting"} => FollowsProtocol(current')
                    /\ pc' = "tools" => \E m \in DOMAIN current' : Answering(current', m, calls')
  BY DEF Sending
<1>1. CASE UserMessage
  <2>1. Append(messages, User) \in Seq(Msg)
    BY Kinds, AppendProperties DEF ConversationOK
  <2> QED
    BY <1>1, <2>1, BeginHolds DEF UserMessage
<1>2. CASE ResumeAfterApproval
  BY <1>2, BeginHolds DEF ResumeAfterApproval, ConversationOK
<1>3. CASE LoopTop
  <2>1. FollowsProtocol(current) /\ current' = Compacted(current, KeepKernel) /\ pc' = "requesting"
    BY <1>3 DEF LoopTop, Sending
  <2> QED
    BY <2>1, Limits, CompactedFollows DEF ConversationOK
<1>4. CASE \/ TurnsExhausted \/ ProviderFails \/ StreamEscapes \/ Cancel \/ EmptyGivesUp \/ RespondText
           \/ (\E gate \in Gates : ToolPauses(gate))
           \/ (\E gate \in Gates, op \in Ops : Resolve(gate, op))
  <2>1. pc' \in {"idle", "resolved"}
    BY <1>4 DEF TurnsExhausted, ProviderFails, StreamEscapes, Cancel, EmptyGivesUp, RespondText,
                Fails, ToolPauses, Resolve
  <2> QED
    BY <2>1
<1>5. CASE RespondEmpty
  BY <1>5 DEF RespondEmpty, Sending
<1>6. CASE RespondCalls
  <2>0. PICK n \in 1..MaxCalls : \E op \in [1..n -> Ops \cup {Plain}] :
            /\ current' = Append(current, Assistant(Ids(n)))
            /\ calls' = [i \in 1..n |-> [id |-> nextId + i - 1, op |-> op[i]]]
    BY <1>6 DEF RespondCalls
  <2>1. PICK op \in [1..n -> Ops \cup {Plain}] :
            /\ current' = Append(current, Assistant(Ids(n)))
            /\ calls' = [i \in 1..n |-> [id |-> nextId + i - 1, op |-> op[i]]]
    BY <2>0
  <2>2. pc' = "tools" /\ FollowsProtocol(current) /\ current \in Seq(Msg)
    BY <1>6 DEF RespondCalls, Sending, ConversationOK
  <2>3. /\ Ids(n) \in Seq(Nat) /\ Len(Ids(n)) = n
        /\ calls' \in Seq(Call) /\ Len(calls') = n
        /\ \A k \in 1..n : calls'[k].id = Ids(n)[k]
    <3>1. n \in Nat
      BY TurnAssumption
    <3> QED
      BY <2>1, <3>1, NewCalls
  <2>4. \E m \in DOMAIN current' : Answering(current', m, calls')
    BY <2>1, <2>2, <2>3, CallsBegin
  <2> QED
    BY <2>2, <2>4
<1>7. CASE ToolReturns
  <2>1. PICK m \in DOMAIN current : Answering(current, m, calls)
    BY <1>7 DEF ToolReturns, Sending
  <2>2. m \in Nat /\ current \in Seq(Msg) /\ calls \in Seq(Call) /\ calls # <<>>
    BY <1>7, <2>1, LenProperties DEF ToolReturns, ConversationOK
  <2>3. /\ current' = Append(current, Tool(Head(calls).id)) /\ calls' = Tail(calls)
        /\ pc' = IF Tail(calls) = <<>> THEN "loop" ELSE "tools"
    BY <1>7 DEF ToolReturns
  <2>4. current' \in Seq(Msg) /\ m \in DOMAIN current' /\ Answering(current', m, calls')
    BY <2>1, <2>2, <2>3, NextResult
  <2>5. CASE calls' = <<>>
    BY <2>2, <2>3, <2>4, <2>5, AllAnswered
  <2> QED
    BY <2>3, <2>4, <2>5
<1>8. CASE UNCHANGED vars
  BY <1>8 DEF vars, Sending
<1> QED
  BY <1>1, <1>2, <1>3, <1>4, <1>5, <1>6, <1>7, <1>8 DEF Next, KernelStep

\* Only a pause queues a review or keeps a tool exchange.
LEMMA UnpausedStep == ConversationOK /\ Unpaused /\ [Next]_vars => Unpaused'
<1> SUFFICES ASSUME ConversationOK, Unpaused, [Next]_vars, ~paused'
             PROVE  /\ pending' = {} /\ pc' # "resolved"
                    /\ \A i \in DOMAIN messages' : messages'[i] \in {User, Text}
  BY DEF Unpaused
<1>1. CASE UserMessage
  <2>1. /\ Append(messages, User) \in Seq(Msg)
        /\ \A i \in DOMAIN Append(messages, User) : Append(messages, User)[i] \in {User, Text}
    <3>1. ~paused
      BY <1>1 DEF UserMessage, Begin
    <3>2. \A i \in DOMAIN messages : messages[i] \in {User, Text}
      BY <3>1 DEF Unpaused
    <3> QED
      BY <3>2, PlainAppended DEF ConversationOK
  <2>2. \A i \in DOMAIN messages' : messages'[i] \in {User, Text}
    BY <1>1, <2>1, BeginHolds DEF UserMessage
  <2> QED
    BY <1>1, <2>2 DEF UserMessage, Begin, Unpaused
<1>2. CASE ResumeAfterApproval
  BY <1>2 DEF ResumeAfterApproval, Begin, Unpaused
<1>3. CASE RespondText
  <2>1. \A i \in DOMAIN messages : messages[i] \in {User, Text}
    BY <1>3 DEF RespondText, Unpaused
  <2>2. \A i \in DOMAIN messages' : messages'[i] \in {User, Text}
    <3>1. messages' = Append(messages, Text)
      BY <1>3 DEF RespondText
    <3> QED
      BY <2>1, <3>1, PlainAppended DEF ConversationOK
  <2> QED
    BY <1>3, <2>2 DEF RespondText, Unpaused
<1>4. CASE \/ LoopTop \/ TurnsExhausted \/ ProviderFails \/ StreamEscapes \/ Cancel
           \/ RespondEmpty \/ EmptyGivesUp \/ RespondCalls \/ ToolReturns
  <2>1. /\ UNCHANGED <<messages, pending, paused>>
        /\ pc' \in {"idle", "loop", "requesting", "tools"}
    BY <1>4 DEF LoopTop, TurnsExhausted, ProviderFails, StreamEscapes, Cancel, RespondEmpty,
                EmptyGivesUp, RespondCalls, ToolReturns, Fails
  <2> QED
    BY <2>1 DEF Unpaused
<1>5. CASE \E gate \in Gates : ToolPauses(gate)
  BY <1>5 DEF ToolPauses
<1>6. CASE \E gate \in Gates, op \in Ops : Resolve(gate, op)
  BY <1>6 DEF Resolve, Unpaused
<1>7. CASE UNCHANGED vars
  BY <1>7 DEF vars, Unpaused
<1> QED
  BY <1>1, <1>2, <1>3, <1>4, <1>5, <1>6, <1>7 DEF Next, KernelStep

\* A conversation of user messages and texts follows the protocol.
LEMMA PlainFollows ==
    ASSUME NEW s, s \in Seq(Msg), \A i \in DOMAIN s : s[i] \in {User, Text}
    PROVE  FollowsProtocol(s)
<1>1. ASSUME NEW i \in DOMAIN s
      PROVE  Answered(s, i) /\ Owned(s, i)
  <2>1. ~IsTool(s[i])
    BY <1>1, Kinds DEF IsTool
  <2>2. s[i].role = "assistant" => DOMAIN s[i].calls = {}
    <3>1. DOMAIN Text.calls = {} /\ User.role # "assistant"
      BY Kinds
    <3> QED
      BY <1>1, <3>1
  <2> QED
    BY <2>1, <2>2 DEF Answered, Owned
<1> QED
  BY <1>1 DEF FollowsProtocol

\* What the providers are sent, and what the agent keeps until a call of the
\* conversation pauses, follows the protocol of tool calls: every call is
\* followed by its result and every result by no other call's, through both
\* compactions, failures, retries and cancellations (run_interactive and
\* _run_hosted_turn).
THEOREM ProtocolKeptHolds == Spec => []ProtocolKept
<1>1. ProtocolInv /\ [Next]_vars => ProtocolInv'
  BY ConversationStep, SendingStep, UnpausedStep DEF ProtocolInv
<1>2. ProtocolInv => ProtocolKept
  <2>1. ProtocolInv => HistoryFollowsProtocol
    BY PlainFollows DEF ProtocolInv, ConversationOK, Unpaused, HistoryFollowsProtocol
  <2>2. ProtocolInv => KernelKeepsProtocol
    BY DEF ProtocolInv, Sending, KernelKeepsProtocol
  <2> QED
    BY <2>1, <2>2 DEF ProtocolKept
<1> QED
  BY ProtocolInit, <1>1, <1>2, PTL DEF Spec

-----------------------------------------------------------------------------
(* The gates before a tool call. *)

Confirmable == [op : Operations, editOk : BOOLEAN]
Held == [op : Operations, hash : Operations \X Nat]
Comes == [confirmed : BOOLEAN, initiated : BOOLEAN, editOk : BOOLEAN]

GateTypes ==
    /\ ids \in Nat /\ text \in Nat
    /\ DOMAIN confirmations \subseteq 1..ids /\ confirmations \in [DOMAIN confirmations -> Confirmable]
    /\ DOMAIN edits \subseteq 1..ids /\ edits \in [DOMAIN edits -> Held]
    /\ contract \in [allowed : SUBSET STRING, files : SUBSET STRING, lines : Nat, expansions : Nat]
    /\ ran \in [Operations -> [total : Nat, inReview : Nat, typed : Nat]]
    /\ given \in [Operations -> [confirmed : Nat, reviewed : Nat]]

\* An operation waits for one confirmation at a time.
OneEach(queue) == \A i, j \in DOMAIN queue : queue[i].op = queue[j].op => i = j

\* What a review has agreed to is still to be used while the call waits for
\* a confirmation besides.
Owed(queue, o) == IF \E i \in DOMAIN queue : queue[i].op = o /\ queue[i].editOk THEN 1 ELSE 0
ReviewsKept == \A o \in Operations :
    Op[o].edit => ran[o].inReview + Owed(confirmations, o) <= given[o].reviewed

AdmittedFinite ==
    /\ IsFiniteSet(contract.files) /\ IsFiniteSet(contract.allowed \ Allowed)

GateInv == GateTypes /\ OneEach(confirmations) /\ ReviewsKept /\ AdmittedFinite /\ GatesHold

-----------------------------------------------------------------------------
LEMMA GateNames ==
    /\ GateSet = {"capability", "shell", "permission", "policy", "network", "scope", "outside",
                  "package", "review", "hooks", "safety"}
    /\ \A g \in GateSet : Position[g] \in Nat
<1>1. DOMAIN GateOrder = 1..11
  BY DEF GateOrder
<1>2. GateSet = {GateOrder[i] : i \in 1..11}
  BY <1>1 DEF GateSet, ToSet
<1>3. GateSet = {GateOrder[1], GateOrder[2], GateOrder[3], GateOrder[4], GateOrder[5], GateOrder[6],
                 GateOrder[7], GateOrder[8], GateOrder[9], GateOrder[10], GateOrder[11]}
  BY <1>2
<1>4. ASSUME NEW g \in GateSet PROVE Position[g] \in Nat
  <2>1. \E i \in DOMAIN GateOrder : GateOrder[i] = g
    BY <1>1, <1>2
  <2>2. Position[g] \in DOMAIN GateOrder
    BY <2>1 DEF Position
  <2> QED
    BY <1>1, <2>2
<1> QED
  BY <1>3, <1>4 DEF GateOrder

\* The call stops at the first gate that blocks it or asks, if there is one.
LEMMA StopsAtFirst ==
    ASSUME NEW o \in Operations, NEW by \in Comes
    PROVE  \/ /\ StopsAt(o, by) = "none"
              /\ \A g \in GateSet : ~Blocks(o, g, by) /\ ~Asks(o, g, by)
           \/ /\ StopsAt(o, by) \in GateSet
              /\ Blocks(o, StopsAt(o, by), by) \/ Asks(o, StopsAt(o, by), by)
              /\ \A g \in GateSet : Blocks(o, g, by) \/ Asks(o, g, by)
                                        => Position[StopsAt(o, by)] <= Position[g]
<1> DEFINE stops == {g \in GateSet : Blocks(o, g, by) \/ Asks(o, g, by)}
<1>1. CASE stops = {}
  BY <1>1 DEF StopsAt
<1>2. CASE stops # {}
  <2> DEFINE places == {Position[g] : g \in stops}
  <2>1. places \in SUBSET Nat /\ places # {}
    BY <1>2, GateNames
  <2>2. PICK m \in places : \A n \in places : <<n, m>> \notin OpToRel(<, Nat)
    BY <2>1, NatLessThanWellFounded, WFMin
  <2>3. \A n \in places : ~(n < m)
    BY <2>1, <2>2 DEF OpToRel
  <2>4. \E g \in stops : \A h \in stops : Position[g] <= Position[h]
    <3>0. \A n \in places : n \in Nat /\ m \in Nat /\ m <= n
      <4> HIDE DEF places
      <4> QED
        BY <2>1, <2>3
    <3>1. PICK g \in stops : Position[g] = m
      OBVIOUS
    <3>2. \A h \in stops : Position[h] \in places
      OBVIOUS
    <3>3. \A h \in stops : Position[g] <= Position[h]
      BY <3>0, <3>1, <3>2
    <3> QED
      BY <3>3
  <2>5. StopsAt(o, by) = CHOOSE g \in stops : \A h \in stops : Position[g] <= Position[h]
    BY <1>2 DEF StopsAt
  <2> HIDE DEF stops, places
  <2>6. StopsAt(o, by) \in stops /\ \A h \in stops : Position[StopsAt(o, by)] <= Position[h]
    BY <2>4, <2>5
  <2> QED
    BY <2>6 DEF stops
<1> QED
  BY <1>1, <1>2

Dangerous(o) == o \in MustConfirm
PolicyAsks(o) == o \in MustAgree

\* What runs came with what each gate asks.
LEMMA RunsAgreed ==
    ASSUME NEW o \in Operations, NEW by \in Comes, StopsAt(o, by) = "none"
    PROVE  /\ Dangerous(o) => by.confirmed
           /\ PolicyAsks(o) => by.confirmed \/ by.initiated
           /\ Op[o].edit /\ mode = "review" => by.editOk
           /\ InScope(o)
<1>0. \A g \in GateSet : ~Blocks(o, g, by) /\ ~Asks(o, g, by)
  BY StopsAtFirst, GateNames
<1>1. Dangerous(o) => by.confirmed
  BY <1>0, GateNames DEF Dangerous, MustConfirm, Asks
<1>2. PolicyAsks(o) => by.confirmed \/ by.initiated
  <2>1. ~Blocks(o, "policy", by) /\ ~Asks(o, "policy", by)
    BY <1>0, GateNames
  <2> QED
    BY <2>1 DEF PolicyAsks, MustAgree, Asks, Blocks, PolicyDecision
<1>3. Op[o].edit /\ mode = "review" => by.editOk
  BY <1>0, GateNames DEF Asks
<1>4. InScope(o)
  BY <1>0, GateNames DEF Blocks
<1> QED
  BY <1>1, <1>2, <1>3, <1>4

\* What passes the scope gate is in scope.
LEMMA PastScope ==
    ASSUME NEW o \in Operations, NEW by \in Comes,
           \/ StopsAt(o, by) = "none" \/ Position["scope"] < Position[StopsAt(o, by)]
    PROVE  InScope(o)
<1>1. CASE StopsAt(o, by) = "none"
  BY <1>1, RunsAgreed
<1>2. CASE StopsAt(o, by) # "none" /\ Position["scope"] < Position[StopsAt(o, by)]
  <2>1. "scope" \in GateSet /\ StopsAt(o, by) \in GateSet
    BY <1>2, GateNames, StopsAtFirst
  <2>2. ~(Position[StopsAt(o, by)] <= Position["scope"])
    BY <1>2, <2>1, GateNames
  <2>3. ~Blocks(o, "scope", by)
    BY <1>2, <2>1, <2>2, StopsAtFirst
  <2> QED
    BY <2>3 DEF Blocks
<1> QED
  BY <1>1, <1>2

-----------------------------------------------------------------------------
(* The scope contract. *)

ContractKept == GateTypes /\ AdmittedFinite /\ ScopeKept

LEMMA AddedOne ==
    ASSUME NEW S, NEW x, IsFiniteSet(S)
    PROVE  /\ IsFiniteSet(S \union {x}) /\ Cardinality(S) \in Nat
           /\ Cardinality(S \union {x}) \in Nat /\ Cardinality(S \union {x}) <= Cardinality(S) + 1
<1>1. Cardinality(S) \in Nat
  BY FS_CardinalityType
<1> QED
  BY <1>1, FS_AddElement

LEMMA ExpandedKept ==
    ASSUME ContractKept, NEW o \in Operations, NEW stop,
           (stop = "none" \/ Position["scope"] < Position[stop]) => InScope(o)
    PROVE  LET c == Expanded(o, stop)
           IN /\ c \in [allowed : SUBSET STRING, files : SUBSET STRING, lines : Nat, expansions : Nat]
              /\ c.files = contract.files /\ c.lines = contract.lines
              /\ contract.allowed \subseteq c.allowed
              /\ IsFiniteSet(c.allowed \ Allowed) /\ Cardinality(c.allowed \ Allowed) <= c.expansions
              /\ c.expansions <= ExpansionBudget
              /\ \A f \in c.allowed \ Allowed : \E p \in Operations : Op[p].file = f /\ Op[p].evidence
              /\ stop = "none" /\ Op[o].edit => Op[o].file \in c.allowed
<1> USE DEF ContractKept, GateTypes, AdmittedFinite, ScopeKept
<1> DEFINE c == Expanded(o, stop)
<1>0. Op[o].file \in STRING /\ Op[o].lines \in Nat
  BY GateAssumption
<1>1. CASE ~(Op[o].edit /\ NeedsExpansion(o) /\ (stop = "none" \/ Position["scope"] < Position[stop]))
  BY <1>1 DEF Expanded, NeedsExpansion
<1>2. CASE Op[o].edit /\ NeedsExpansion(o) /\ (stop = "none" \/ Position["scope"] < Position[stop])
  <2>1. contract.expansions < ExpansionBudget /\ Op[o].evidence
    BY <1>2 DEF InScope, Expandable
  <2>2. c = [allowed |-> contract.allowed \union {Op[o].file}, files |-> contract.files,
             lines |-> contract.lines, expansions |-> contract.expansions + 1]
    BY <1>2 DEF Expanded
  <2> DEFINE admitted == contract.allowed \ Allowed
  <2>3. /\ c.allowed = contract.allowed \union {Op[o].file} /\ c.expansions = contract.expansions + 1
        /\ c.files = contract.files /\ c.lines = contract.lines
        /\ c \in [allowed : SUBSET STRING, files : SUBSET STRING, lines : Nat, expansions : Nat]
    BY <2>2, <1>0
  <2> HIDE DEF c
  <2>4. c.allowed \ Allowed \in {admitted, admitted \union {Op[o].file}}
    BY <2>3
  <2>5. IsFiniteSet(admitted) /\ Cardinality(admitted) <= contract.expansions
    OBVIOUS
  <2> HIDE DEF admitted
  <2>6. /\ IsFiniteSet(admitted \union {Op[o].file})
        /\ Cardinality(admitted) \in Nat
        /\ Cardinality(admitted \union {Op[o].file}) <= Cardinality(admitted) + 1
    BY <2>5, AddedOne
  <2>10. contract.expansions \in Nat
    OBVIOUS
  <2>7. IsFiniteSet(c.allowed \ Allowed) /\ Cardinality(c.allowed \ Allowed) <= c.expansions
    <3> HIDE DEF ContractKept, GateTypes, AdmittedFinite, ScopeKept
    <3>0. c.expansions = contract.expansions + 1
      BY <2>3
    <3>1. Cardinality(admitted) + 1 <= c.expansions /\ Cardinality(admitted) <= c.expansions
      BY <3>0, <2>5, <2>6, <2>10
    <3>2. Cardinality(admitted \union {Op[o].file}) <= c.expansions
      <4>1. Cardinality(admitted \union {Op[o].file}) \in Nat
        BY <2>5, AddedOne
      <4> QED
        BY <4>1, <3>0, <3>1, <2>6, <2>10
    <3>3. \A S \in {admitted, admitted \union {Op[o].file}} :
             IsFiniteSet(S) /\ Cardinality(S) <= c.expansions
      BY <3>1, <3>2, <2>5, <2>6
    <3> QED
      BY <2>4, <3>3
  <2>8. c.expansions <= ExpansionBudget
    BY <2>1, <2>3, GateAssumption
  <2>9. \A f \in c.allowed \ Allowed : \E p \in Operations : Op[p].file = f /\ Op[p].evidence
    BY <2>1, <2>3
  <2> QED
    BY <2>3, <2>7, <2>8, <2>9 DEF c
<1> QED
  BY <1>1, <1>2

\* What a call leaves of the contract, wherever it stops.
LEMMA ContractStep ==
    ASSUME ContractKept, NEW o \in Operations, NEW by \in Comes, NEW cs, NEW es,
           Execute(o, by, cs, es)
    PROVE  /\ contract' \in [allowed : SUBSET STRING, files : SUBSET STRING, lines : Nat,
                             expansions : Nat]
           /\ AdmittedFinite' /\ ScopeKept'
<1> DEFINE stop == StopsAt(o, by)
           c == Expanded(o, stop)
<1>1. (stop = "none" \/ Position["scope"] < Position[stop]) => InScope(o)
  BY PastScope
<1>2. /\ c \in [allowed : SUBSET STRING, files : SUBSET STRING, lines : Nat, expansions : Nat]
      /\ c.files = contract.files /\ c.lines = contract.lines
      /\ IsFiniteSet(c.allowed \ Allowed) /\ Cardinality(c.allowed \ Allowed) <= c.expansions
      /\ contract.allowed \subseteq c.allowed
      /\ c.expansions <= ExpansionBudget
      /\ \A f \in c.allowed \ Allowed : \E p \in Operations : Op[p].file = f /\ Op[p].evidence
      /\ stop = "none" /\ Op[o].edit => Op[o].file \in c.allowed
  BY <1>1, ExpandedKept
<1>3. /\ IsFiniteSet(contract.files) /\ contract.files \subseteq contract.allowed
      /\ Cardinality(contract.files) <= MaxChangedFiles /\ contract.lines <= MaxChangedLines
      /\ contract.lines \in Nat
  BY DEF ContractKept, ScopeKept, AdmittedFinite, GateTypes
<1>4. Op[o].file \in STRING /\ Op[o].lines \in Nat
  BY GateAssumption
<1>5. contract' = c \/ (stop = "none" /\ Op[o].edit /\ contract' = Registered(o, c))
  BY DEF Execute, Run, Registered
<1> HIDE DEF c, stop
<1>6. CASE contract' = c
  BY <1>2, <1>3, <1>6 DEF AdmittedFinite, ScopeKept
<1>7. CASE stop = "none" /\ Op[o].edit /\ contract' = Registered(o, c)
  <2>1. InScope(o)
    BY <1>1, <1>7
  <2>2. /\ Cardinality(contract.files \union {Op[o].file}) <= MaxChangedFiles
        /\ contract.lines + Op[o].lines <= MaxChangedLines
    BY <1>7, <2>1 DEF InScope, InBudget
  <2>3. contract' = [allowed |-> c.allowed, files |-> c.files \union {Op[o].file},
                     lines |-> c.lines + Op[o].lines, expansions |-> c.expansions]
    BY <1>7 DEF Registered
  <2>4. IsFiniteSet(contract.files \union {Op[o].file})
    BY <1>3, AddedOne
  <2>5. /\ contract'.allowed = c.allowed /\ contract'.expansions = c.expansions
        /\ contract'.files = contract.files \union {Op[o].file}
        /\ contract'.lines = contract.lines + Op[o].lines
        /\ contract' \in [allowed : SUBSET STRING, files : SUBSET STRING, lines : Nat,
                          expansions : Nat]
    BY <2>3, <1>2, <1>3, <1>4
  <2>6. Op[o].file \in c.allowed
    BY <1>2, <1>7
  <2>7. AdmittedFinite'
    BY <2>4, <2>5, <1>2 DEF AdmittedFinite
  <2>8. ScopeKept'
    BY <2>2, <2>5, <2>6, <1>2, <1>3 DEF ScopeKept
  <2> QED
    BY <2>5, <2>7, <2>8
<1> QED
  BY <1>5, <1>6, <1>7

-----------------------------------------------------------------------------
(* The queues. *)

Waiting(queue, n) ==
    DOMAIN queue \subseteq 1..n /\ queue \in [DOMAIN queue -> Confirmable] /\ OneEach(queue)
InReview(queue, n) == DOMAIN queue \subseteq 1..n /\ queue \in [DOMAIN queue -> Held]

LEMMA TakeKeeps ==
    ASSUME ids \in Nat, NEW queue, NEW id
    PROVE  /\ Waiting(queue, ids) => Waiting(Take(queue, id), ids)
           /\ InReview(queue, ids) => InReview(Take(queue, id), ids)
<1>1. /\ DOMAIN Take(queue, id) = DOMAIN queue \ {id}
      /\ \A y \in DOMAIN queue \ {id} : Take(queue, id)[y] = queue[y]
      /\ Take(queue, id) = [y \in DOMAIN queue \ {id} |-> queue[y]]
  BY DEF Take, Without
<1>2. ASSUME Waiting(queue, ids) PROVE Waiting(Take(queue, id), ids)
  BY <1>1, <1>2 DEF Waiting, OneEach
<1>3. ASSUME InReview(queue, ids) PROVE InReview(Take(queue, id), ids)
  BY <1>1, <1>3 DEF InReview
<1> QED
  BY <1>2, <1>3

LEMMA WithKeeps ==
    ASSUME ids \in Nat, NEW queue
    PROVE  /\ \A v \in Confirmable : Waiting(queue, ids) /\ (\A i \in DOMAIN queue : queue[i].op # v.op)
                  => Waiting(With(queue, ids + 1, v), ids + 1)
           /\ \A v \in Held : InReview(queue, ids) => InReview(With(queue, ids + 1, v), ids + 1)
<1> DEFINE more(v) == With(queue, ids + 1, v)
<1>1. ASSUME NEW v
      PROVE  /\ DOMAIN more(v) = DOMAIN queue \union {ids + 1}
             /\ more(v)[ids + 1] = v
             /\ \A y \in DOMAIN queue : y # ids + 1 => more(v)[y] = queue[y]
             /\ more(v) = [y \in DOMAIN queue \union {ids + 1} |->
                             IF y = ids + 1 THEN v ELSE queue[y]]
  BY DEF With
<1>2. ASSUME NEW v \in Confirmable, Waiting(queue, ids), \A i \in DOMAIN queue : queue[i].op # v.op
      PROVE  Waiting(more(v), ids + 1)
  <2>1. DOMAIN queue \subseteq 1..ids /\ queue \in [DOMAIN queue -> Confirmable] /\ OneEach(queue)
    BY <1>2 DEF Waiting
  <2>5. \A y \in DOMAIN queue : y \in 1..(ids + 1) /\ y # ids + 1
    BY <2>1
  <2>6. DOMAIN more(v) = DOMAIN queue \union {ids + 1} /\ ids + 1 \in 1..(ids + 1)
    <3>1. DOMAIN more(v) = DOMAIN queue \union {ids + 1}
      BY <1>1
    <3>2. ids + 1 \in 1..(ids + 1)
      OBVIOUS
    <3> QED
      BY <3>1, <3>2
  <2>2. ids + 1 \notin DOMAIN queue /\ DOMAIN more(v) \subseteq 1..(ids + 1)
    <3> HIDE DEF more
    <3> QED
      BY <2>5, <2>6
  <2>3. more(v) \in [DOMAIN more(v) -> Confirmable]
    BY <1>1, <2>1, <2>2
  <2>4. OneEach(more(v))
    <3>1. \A i \in DOMAIN queue : more(v)[i] = queue[i]
      BY <1>1, <2>2
    <3>2. more(v)[ids + 1] = v /\ DOMAIN more(v) = DOMAIN queue \union {ids + 1}
      BY <1>1
    <3> HIDE DEF more
    <3> QED
      BY <3>1, <3>2, <1>2, <2>1 DEF OneEach
  <2> QED
    BY <2>2, <2>3, <2>4 DEF Waiting
<1>3. ASSUME NEW v \in Held, InReview(queue, ids) PROVE InReview(more(v), ids + 1)
  <2>1. DOMAIN queue \subseteq 1..ids /\ queue \in [DOMAIN queue -> Held]
    BY <1>3 DEF InReview
  <2>5. \A y \in DOMAIN queue : y \in 1..(ids + 1) /\ y # ids + 1
    BY <2>1
  <2>6. DOMAIN more(v) = DOMAIN queue \union {ids + 1} /\ ids + 1 \in 1..(ids + 1)
    <3>1. DOMAIN more(v) = DOMAIN queue \union {ids + 1}
      BY <1>1
    <3>2. ids + 1 \in 1..(ids + 1)
      OBVIOUS
    <3> QED
      BY <3>1, <3>2
  <2>2. ids + 1 \notin DOMAIN queue /\ DOMAIN more(v) \subseteq 1..(ids + 1)
    <3> HIDE DEF more
    <3> QED
      BY <2>5, <2>6
  <2>3. more(v) \in [DOMAIN more(v) -> Held]
    BY <1>1, <2>1, <2>2, <1>3
  <2> QED
    BY <2>2, <2>3 DEF InReview
<1> QED
  BY <1>2, <1>3

\* What a further confirmation adds to what is owed.
LEMMA OwedWith ==
    ASSUME ids \in Nat, NEW queue, Waiting(queue, ids), NEW o \in Operations, NEW ok \in BOOLEAN,
           NEW p \in Operations
    PROVE  Owed(With(queue, ids + 1, [op |-> o, editOk |-> ok]), p)
               <= Owed(queue, p) + (IF p = o /\ ok THEN 1 ELSE 0)
<1> DEFINE v == [op |-> o, editOk |-> ok]
           more == With(queue, ids + 1, v)
<1>1. /\ DOMAIN more = DOMAIN queue \union {ids + 1}
      /\ more[ids + 1] = v
      /\ \A y \in DOMAIN queue : y # ids + 1 => more[y] = queue[y]
  BY DEF With
<1>2. v.op = o /\ v.editOk = ok
  OBVIOUS
<1> HIDE DEF more, v
<1>3. (\E i \in DOMAIN more : more[i].op = p /\ more[i].editOk)
          => (\E i \in DOMAIN queue : queue[i].op = p /\ queue[i].editOk) \/ (p = o /\ ok)
  BY <1>1, <1>2
<1>4. Owed(more, p) <= Owed(queue, p) + (IF p = o /\ ok THEN 1 ELSE 0)
  BY <1>3 DEF Owed
<1> QED
  BY <1>4 DEF more, v

Extra(b) == IF b THEN 1 ELSE 0

\* What a call leaves in the queues.
LEMMA QueueStep ==
    ASSUME GateTypes, NEW o \in Operations, NEW by \in Comes, NEW cs, NEW es,
           Waiting(cs, ids), InReview(es, ids), Execute(o, by, cs, es)
    PROVE  /\ ids' \in Nat /\ Waiting(confirmations', ids') /\ InReview(edits', ids')
           /\ StopsAt(o, by) = "none" => confirmations' = cs
           /\ \A p \in Operations :
                  Owed(confirmations', p) <= Owed(cs, p) + Extra(p = o /\ by.editOk)
<1>0. ids \in Nat /\ text \in Nat /\ by.editOk \in BOOLEAN
  BY DEF GateTypes, Comes
<1>1. \A p \in Operations : Owed(cs, p) <= Owed(cs, p) + Extra(p = o /\ by.editOk)
  BY DEF Owed, Extra
<1>2. CASE confirmations' = cs /\ edits' = es /\ ids' = ids
  BY <1>0, <1>1, <1>2
<1>3. CASE QueueEdit(o, es) /\ confirmations' = cs /\ StopsAt(o, by) # "none"
  <2> DEFINE v == [op |-> o, hash |-> Diff(o)]
  <2>1. v \in Held
    BY <1>0 DEF Held, Diff
  <2>2. \/ edits' = es /\ ids' = ids
        \/ edits' = With(es, ids + 1, v) /\ ids' = ids + 1
    BY <1>3 DEF QueueEdit
  <2> HIDE DEF v
  <2>3. InReview(edits', ids') /\ ids' \in Nat
    BY <2>1, <2>2, <1>0, WithKeeps
  <2>4. Waiting(cs, ids')
    BY <2>2, <1>0 DEF Waiting
  <2> QED
    BY <2>3, <2>4, <1>1, <1>3
<1>4. CASE QueueConfirmation(o, by, cs) /\ edits' = es /\ StopsAt(o, by) # "none"
  <2> DEFINE v == [op |-> o, editOk |-> by.editOk]
  <2>1. v \in Confirmable /\ v.op = o
    BY <1>0 DEF Confirmable
  <2>2. CASE confirmations' = cs /\ ids' = ids
    BY <2>2, <1>0, <1>1, <1>4
  <2>3. CASE /\ \A i \in DOMAIN cs : cs[i].op # o
             /\ confirmations' = With(cs, ids + 1, v) /\ ids' = ids + 1
    <3>1. Waiting(confirmations', ids')
      <4> HIDE DEF v
      <4> QED
        BY <2>1, <2>3, <1>0, WithKeeps
    <3>2. \A p \in Operations :
              Owed(confirmations', p) <= Owed(cs, p) + Extra(p = o /\ by.editOk)
      BY <2>3, <1>0, OwedWith DEF Extra
    <3>3. InReview(edits', ids') /\ ids' \in Nat
      BY <2>3, <1>0, <1>4 DEF InReview
    <3> QED
      BY <3>1, <3>2, <3>3, <1>4
  <2> QED
    BY <1>4, <2>2, <2>3 DEF QueueConfirmation
<1> QED
  BY <1>2, <1>3, <1>4 DEF Execute

\* What a call adds to the counts, and what agreement it came with.
LEMMA RanStep ==
    ASSUME GateTypes, NEW o \in Operations, NEW by \in Comes, NEW cs, NEW es,
           Execute(o, by, cs, es)
    PROVE  /\ text' \in Nat
           /\ ran' \in [Operations -> [total : Nat, inReview : Nat, typed : Nat]]
           /\ \A p \in Operations :
                  /\ Dangerous(p) => ran'[p].total <= ran[p].total + Extra(p = o /\ by.confirmed)
                  /\ PolicyAsks(p) => ran'[p].total + ran[p].typed
                         <= ran[p].total + ran'[p].typed + Extra(p = o /\ by.confirmed)
                  /\ Op[p].edit /\ StopsAt(o, by) = "none"
                         => ran'[p].inReview <= ran[p].inReview + Extra(p = o /\ by.editOk)
                  /\ StopsAt(o, by) # "none" => ran'[p].inReview = ran[p].inReview
                  /\ ran'[p].typed >= ran[p].typed
<1>0. /\ ran \in [Operations -> [total : Nat, inReview : Nat, typed : Nat]] /\ text \in Nat
      /\ \A p \in Operations :
             ran[p].total \in Nat /\ ran[p].inReview \in Nat /\ ran[p].typed \in Nat
  BY DEF GateTypes
<1>1. CASE StopsAt(o, by) # "none"
  <2>1. ran' = ran /\ text' = text
    BY <1>1 DEF Execute
  <2> QED
    BY <2>1, <1>0, <1>1 DEF Extra
<1>2. CASE StopsAt(o, by) = "none"
  <2>1. Run(o, by)
    BY <1>2 DEF Execute
  <2> DEFINE now == [total |-> ran[o].total + 1,
                     inReview |-> IF mode = "review" THEN ran[o].inReview + 1 ELSE ran[o].inReview,
                     typed |-> IF by.initiated THEN ran[o].typed + 1 ELSE ran[o].typed]
  <2>2. ran' = [ran EXCEPT ![o] = now] /\ text' \in Nat
    BY <2>1, <1>0 DEF Run
  <2>3. now \in [total : Nat, inReview : Nat, typed : Nat]
    BY <1>0
  <2>4. /\ now.total = ran[o].total + 1
        /\ now.inReview = IF mode = "review" THEN ran[o].inReview + 1 ELSE ran[o].inReview
        /\ now.typed = IF by.initiated THEN ran[o].typed + 1 ELSE ran[o].typed
    OBVIOUS
  <2> HIDE DEF now
  <2>5. ran' \in [Operations -> [total : Nat, inReview : Nat, typed : Nat]]
    BY <2>2, <2>3, <1>0
  <2>6. ran'[o] = now /\ \A p \in Operations : p # o => ran'[p] = ran[p]
    BY <2>2, <1>0
  <2>7. /\ Dangerous(o) => by.confirmed
        /\ PolicyAsks(o) => by.confirmed \/ by.initiated
        /\ Op[o].edit /\ mode = "review" => by.editOk
    BY <1>2, RunsAgreed
  <2>8. ASSUME NEW p \in Operations, p # o
        PROVE  /\ Dangerous(p) => ran'[p].total <= ran[p].total + Extra(p = o /\ by.confirmed)
               /\ PolicyAsks(p) => ran'[p].total + ran[p].typed
                      <= ran[p].total + ran'[p].typed + Extra(p = o /\ by.confirmed)
               /\ Op[p].edit => ran'[p].inReview <= ran[p].inReview + Extra(p = o /\ by.editOk)
               /\ ran'[p].typed >= ran[p].typed
    BY <2>6, <2>8, <1>0 DEF Extra
  <2>9. /\ Dangerous(o) => ran'[o].total <= ran[o].total + Extra(by.confirmed)
        /\ PolicyAsks(o) => ran'[o].total + ran[o].typed
               <= ran[o].total + ran'[o].typed + Extra(by.confirmed)
        /\ Op[o].edit => ran'[o].inReview <= ran[o].inReview + Extra(by.editOk)
        /\ ran'[o].typed >= ran[o].typed
    BY <2>4, <2>6, <2>7, <1>0 DEF Extra
  <2>10. /\ Extra(o = o /\ by.confirmed) = Extra(by.confirmed)
         /\ Extra(o = o /\ by.editOk) = Extra(by.editOk)
    BY DEF Extra
  <2> QED
    BY <2>2, <2>5, <2>8, <2>9, <2>10, <1>2
<1> QED
  BY <1>1, <1>2

\* A call that comes with what the user has agreed to keeps the promise.
LEMMA CallKept ==
    ASSUME GateInv, NEW o \in Operations, NEW by \in Comes, NEW cs, NEW es,
           Execute(o, by, cs, es), Waiting(cs, ids), InReview(es, ids),
           given' \in [Operations -> [confirmed : Nat, reviewed : Nat]],
           \A p \in Operations :
               /\ given'[p].confirmed >= given[p].confirmed + Extra(p = o /\ by.confirmed)
               /\ ran[p].inReview + Owed(cs, p) + Extra(p = o /\ by.editOk) <= given'[p].reviewed
                  \/ ~Op[p].edit
    PROVE  GateInv'
<1>1. GateTypes /\ ContractKept /\ OneShot
  BY DEF GateInv, ContractKept, GatesHold
<1>2. /\ contract' \in [allowed : SUBSET STRING, files : SUBSET STRING, lines : Nat,
                        expansions : Nat]
      /\ AdmittedFinite' /\ ScopeKept'
  BY <1>1, ContractStep
<1>3. /\ ids' \in Nat /\ Waiting(confirmations', ids') /\ InReview(edits', ids')
      /\ StopsAt(o, by) = "none" => confirmations' = cs
      /\ \A p \in Operations :
             Owed(confirmations', p) <= Owed(cs, p) + Extra(p = o /\ by.editOk)
  BY <1>1, QueueStep
<1>4. /\ text' \in Nat
      /\ ran' \in [Operations -> [total : Nat, inReview : Nat, typed : Nat]]
      /\ \A p \in Operations :
             /\ Dangerous(p) => ran'[p].total <= ran[p].total + Extra(p = o /\ by.confirmed)
             /\ PolicyAsks(p) => ran'[p].total + ran[p].typed
                    <= ran[p].total + ran'[p].typed + Extra(p = o /\ by.confirmed)
             /\ Op[p].edit /\ StopsAt(o, by) = "none"
                    => ran'[p].inReview <= ran[p].inReview + Extra(p = o /\ by.editOk)
             /\ StopsAt(o, by) # "none" => ran'[p].inReview = ran[p].inReview
             /\ ran'[p].typed >= ran[p].typed
  BY <1>1, RanStep
<1>5. GateTypes'
  BY <1>2, <1>3, <1>4 DEF GateTypes, Waiting, InReview
<1>6. OneEach(confirmations)'
  BY <1>3 DEF Waiting, OneEach
<1>7. ASSUME NEW p \in Operations
      PROVE  /\ ran[p].total \in Nat /\ ran[p].inReview \in Nat /\ ran[p].typed \in Nat
             /\ ran'[p].total \in Nat /\ ran'[p].inReview \in Nat /\ ran'[p].typed \in Nat
             /\ given[p].confirmed \in Nat /\ given[p].reviewed \in Nat
             /\ given'[p].confirmed \in Nat /\ given'[p].reviewed \in Nat
  BY <1>1, <1>4 DEF GateTypes
<1>8. \A q, p : Owed(q, p) \in {0, 1}
  BY DEF Owed
<1>9. \A b \in BOOLEAN : Extra(b) \in {0, 1}
  BY DEF Extra
<1>10. ASSUME NEW p \in Operations, Op[p].edit
       PROVE  ran'[p].inReview + Owed(confirmations', p) <= given'[p].reviewed
  <2>1. ran[p].inReview + Owed(cs, p) + Extra(p = o /\ by.editOk) <= given'[p].reviewed
    BY <1>10
  <2>2. Owed(confirmations', p) \in {0, 1} /\ Owed(cs, p) \in {0, 1}
    BY <1>8
  <2>3. Extra(p = o /\ by.editOk) \in {0, 1}
    BY DEF Extra
  <2>4. CASE StopsAt(o, by) = "none"
    <3>1. ran'[p].inReview <= ran[p].inReview + Extra(p = o /\ by.editOk)
      BY <1>4, <1>10, <2>4
    <3>2. Owed(confirmations', p) = Owed(cs, p)
      BY <1>3, <2>4
    <3> HIDE DEF Extra, Owed
    <3> QED
      BY <3>1, <3>2, <2>1, <2>2, <2>3, <1>7
  <2>5. CASE StopsAt(o, by) # "none"
    <3>1. ran'[p].inReview = ran[p].inReview
      BY <1>4, <2>5
    <3>2. Owed(confirmations', p) <= Owed(cs, p) + Extra(p = o /\ by.editOk)
      BY <1>3
    <3> QED
      BY <3>1, <3>2, <2>1, <2>2, <2>3, <1>7
  <2> QED
    BY <2>4, <2>5
<1>11. ReviewsKept'
  BY <1>10 DEF ReviewsKept, Owed
<1>12. ASSUME NEW p \in Operations
       PROVE  /\ Dangerous(p) => ran'[p].total <= given'[p].confirmed
              /\ PolicyAsks(p) => ran'[p].total <= given'[p].confirmed + ran'[p].typed
              /\ Op[p].edit => ran'[p].inReview <= given'[p].reviewed
  <2>1. /\ Dangerous(p) => ran[p].total <= given[p].confirmed
        /\ PolicyAsks(p) => ran[p].total <= given[p].confirmed + ran[p].typed
    BY <1>1 DEF OneShot, Dangerous, PolicyAsks, MustConfirm, MustAgree, MustReview
  <2>2. given'[p].confirmed >= given[p].confirmed + Extra(p = o /\ by.confirmed)
    OBVIOUS
  <2>3. Extra(p = o /\ by.confirmed) \in {0, 1}
    BY DEF Extra
  <2>4. Dangerous(p) => ran'[p].total <= given'[p].confirmed
    BY <2>1, <2>2, <2>3, <1>4, <1>7
  <2>5. PolicyAsks(p) => ran'[p].total <= given'[p].confirmed + ran'[p].typed
    BY <2>1, <2>2, <2>3, <1>4, <1>7
  <2>6. Owed(confirmations', p) \in {0, 1}
    BY <1>8
  <2>7. Op[p].edit => ran'[p].inReview <= given'[p].reviewed
    BY <1>10, <2>6, <1>7
  <2> QED
    BY <2>4, <2>5, <2>7
<1>13. OneShot'
  BY <1>12 DEF OneShot, Dangerous, PolicyAsks, MustConfirm, MustAgree, MustReview
<1> QED
  BY <1>2, <1>5, <1>6, <1>11, <1>13 DEF GateInv, GatesHold

-----------------------------------------------------------------------------
(* The steps. *)

\* What is owed once an entry is taken from the queue.
LEMMA OwedTaken ==
    ASSUME NEW queue, OneEach(queue), NEW id \in DOMAIN queue, queue[id].editOk \in BOOLEAN, NEW p
    PROVE  Owed(Take(queue, id), p) + Extra(p = queue[id].op /\ queue[id].editOk) <= Owed(queue, p)
<1> DEFINE rest == Take(queue, id)
<1>1. DOMAIN rest = DOMAIN queue \ {id} /\ \A y \in DOMAIN rest : rest[y] = queue[y]
  BY DEF Take, Without
<1> HIDE DEF rest
<1>2. (\E i \in DOMAIN rest : rest[i].op = p /\ rest[i].editOk)
          => (\E i \in DOMAIN queue : queue[i].op = p /\ queue[i].editOk)
  BY <1>1
<1>3. p = queue[id].op => ~(\E i \in DOMAIN rest : rest[i].op = p /\ rest[i].editOk)
  BY <1>1 DEF OneEach
<1>4. p = queue[id].op /\ queue[id].editOk
          => \E i \in DOMAIN queue : queue[i].op = p /\ queue[i].editOk
  OBVIOUS
<1>5. Owed(rest, p) + Extra(p = queue[id].op /\ queue[id].editOk) <= Owed(queue, p)
  BY <1>2, <1>3, <1>4 DEF Owed, Extra
<1> QED
  BY <1>5 DEF rest

LEMMA GateCounts ==
    ASSUME GateTypes
    PROVE  \A p \in Operations :
               /\ ran[p].total \in Nat /\ ran[p].inReview \in Nat /\ ran[p].typed \in Nat
               /\ given[p].confirmed \in Nat /\ given[p].reviewed \in Nat
BY DEF GateTypes

LEMMA QueuesGood ==
    ASSUME GateInv
    PROVE  /\ ids \in Nat /\ text \in Nat
           /\ Waiting(confirmations, ids) /\ InReview(edits, ids)
           /\ given \in [Operations -> [confirmed : Nat, reviewed : Nat]]
BY DEF GateInv, GateTypes, Waiting, InReview

LEMMA CallStep ==
    ASSUME GateInv, NEW o \in Operations, ModelCalls(o) \/ UserCalls(o)
    PROVE  GateInv'
<1>1. PICK by \in Comes : /\ ~by.confirmed /\ ~by.editOk
                          /\ Execute(o, by, confirmations, edits)
  <2>1. CASE ModelCalls(o)
    <3>1. Model \in Comes /\ ~Model.confirmed /\ ~Model.editOk
      BY DEF Model, Comes
    <3> QED
      BY <2>1, <3>1 DEF ModelCalls
  <2>2. CASE UserCalls(o)
    <3> DEFINE by == [Model EXCEPT !.initiated = TRUE]
    <3>1. by \in Comes /\ ~by.confirmed /\ ~by.editOk
      BY DEF Model, Comes
    <3> QED
      BY <2>2, <3>1 DEF UserCalls
  <2> QED
    BY <2>1, <2>2
<1>2. given' = given
  BY DEF ModelCalls, UserCalls
<1>3. ASSUME NEW p \in Operations
      PROVE  /\ given'[p].confirmed >= given[p].confirmed + Extra(p = o /\ by.confirmed)
             /\ \/ ran[p].inReview + Owed(confirmations, p) + Extra(p = o /\ by.editOk)
                       <= given'[p].reviewed
                \/ ~Op[p].edit
  <2>1. Extra(p = o /\ by.confirmed) = 0 /\ Extra(p = o /\ by.editOk) = 0
    BY <1>1 DEF Extra
  <2>2. Owed(confirmations, p) \in {0, 1}
    BY DEF Owed
  <2>3. Op[p].edit => ran[p].inReview + Owed(confirmations, p) <= given[p].reviewed
    BY DEF GateInv, ReviewsKept
  <2> QED
    BY <2>1, <2>2, <2>3, <1>2, GateCounts DEF GateInv
<1> QED
  BY <1>1, <1>2, <1>3, QueuesGood, CallKept

LEMMA ConfirmStep ==
    ASSUME GateInv, NEW id \in DOMAIN confirmations, ConfirmPendingOperation(id)
    PROVE  GateInv'
<1> DEFINE o == confirmations[id].op
           by == [Model EXCEPT !.confirmed = TRUE, !.editOk = confirmations[id].editOk]
           rest == Take(confirmations, id)
<1>1. o \in Operations /\ confirmations[id].editOk \in BOOLEAN /\ OneEach(confirmations)
  BY DEF GateInv, GateTypes, Confirmable
<1>2. by \in Comes /\ by.confirmed = TRUE /\ by.editOk = confirmations[id].editOk
  BY <1>1 DEF Model, Comes
<1>3. Execute(o, by, rest, edits) /\ given' = [given EXCEPT ![o].confirmed = @ + 1]
  BY DEF ConfirmPendingOperation
<1>4. /\ given' \in [Operations -> [confirmed : Nat, reviewed : Nat]]
      /\ \A p \in Operations : /\ given'[p].reviewed = given[p].reviewed
                               /\ given'[p].confirmed = given[p].confirmed + Extra(p = o)
  <2>1. given \in [Operations -> [confirmed : Nat, reviewed : Nat]]
    BY QueuesGood
  <2>2. given' = [given EXCEPT ![o] = [given[o] EXCEPT !.confirmed = given[o].confirmed + 1]]
    BY <1>3, <1>1, <2>1
  <2> HIDE DEF o
  <2>3. given'[o].confirmed = given[o].confirmed + 1 /\ given'[o].reviewed = given[o].reviewed
    BY <1>1, <2>1, <2>2
  <2>4. \A p \in Operations : p # o => given'[p] = given[p]
    BY <1>1, <2>1, <2>2
  <2>5. given' \in [Operations -> [confirmed : Nat, reviewed : Nat]]
    BY <1>1, <2>1, <2>2
  <2>6. \A p \in Operations : given[p].confirmed \in Nat
    BY <2>1
  <2> QED
    BY <2>3, <2>4, <2>5, <2>6 DEF Extra
<1>5. Waiting(rest, ids) /\ InReview(edits, ids)
  BY QueuesGood, TakeKeeps
<1>6. ASSUME NEW p \in Operations
      PROVE  /\ given'[p].confirmed >= given[p].confirmed + Extra(p = o /\ by.confirmed)
             /\ \/ ran[p].inReview + Owed(rest, p) + Extra(p = o /\ by.editOk)
                       <= given'[p].reviewed
                \/ ~Op[p].edit
  <2>1. Owed(rest, p) + Extra(p = o /\ by.editOk) <= Owed(confirmations, p)
    BY <1>1, <1>2, OwedTaken
  <2>2. Extra(p = o /\ by.confirmed) = Extra(p = o)
    BY <1>2 DEF Extra
  <2>3. /\ Owed(rest, p) \in {0, 1} /\ Owed(confirmations, p) \in {0, 1}
        /\ Extra(p = o /\ by.editOk) \in {0, 1} /\ Extra(p = o) \in {0, 1}
    BY DEF Owed, Extra
  <2>4. Op[p].edit => ran[p].inReview + Owed(confirmations, p) <= given[p].reviewed
    BY DEF GateInv, ReviewsKept
  <2>5. /\ ran[p].inReview \in Nat /\ given[p].confirmed \in Nat /\ given[p].reviewed \in Nat
    BY GateCounts DEF GateInv
  <2> HIDE DEF o, by, rest
  <2>6. given'[p].confirmed >= given[p].confirmed + Extra(p = o /\ by.confirmed)
    BY <1>4, <2>2, <2>3, <2>5
  <2>7. Op[p].edit => ran[p].inReview + Owed(rest, p) + Extra(p = o /\ by.editOk)
                          <= given'[p].reviewed
    BY <1>4, <2>1, <2>3, <2>4, <2>5
  <2> QED
    BY <2>6, <2>7
<1> HIDE DEF o, by, rest
<1> QED
  BY <1>1, <1>2, <1>3, <1>4, <1>5, <1>6, CallKept

LEMMA ApplyStep ==
    ASSUME GateInv, NEW id \in DOMAIN edits, ApplyPendingEdit(id)
    PROVE  GateInv'
<1> DEFINE o == edits[id].op
           by == [Model EXCEPT !.editOk = TRUE]
           rest == Take(edits, id)
<1>1. o \in Operations
  BY DEF GateInv, GateTypes, Held
<1>2. by \in Comes /\ by.confirmed = FALSE /\ by.editOk = TRUE
  BY DEF Model, Comes
<1>3. Execute(o, by, confirmations, rest) /\ given' = [given EXCEPT ![o].reviewed = @ + 1]
  BY DEF ApplyPendingEdit
<1>4. /\ given' \in [Operations -> [confirmed : Nat, reviewed : Nat]]
      /\ \A p \in Operations : /\ given'[p].confirmed = given[p].confirmed
                               /\ given'[p].reviewed = given[p].reviewed + Extra(p = o)
  <2>1. given \in [Operations -> [confirmed : Nat, reviewed : Nat]]
    BY QueuesGood
  <2>2. given' = [given EXCEPT ![o] = [given[o] EXCEPT !.reviewed = given[o].reviewed + 1]]
    BY <1>3, <1>1, <2>1
  <2> HIDE DEF o
  <2>3. given'[o].reviewed = given[o].reviewed + 1 /\ given'[o].confirmed = given[o].confirmed
    BY <1>1, <2>1, <2>2
  <2>4. \A p \in Operations : p # o => given'[p] = given[p]
    BY <1>1, <2>1, <2>2
  <2>5. given' \in [Operations -> [confirmed : Nat, reviewed : Nat]]
    BY <1>1, <2>1, <2>2
  <2>6. \A p \in Operations : given[p].reviewed \in Nat
    BY <2>1
  <2> QED
    BY <2>3, <2>4, <2>5, <2>6 DEF Extra
<1>5. Waiting(confirmations, ids) /\ InReview(rest, ids)
  BY QueuesGood, TakeKeeps
<1>6. ASSUME NEW p \in Operations
      PROVE  /\ given'[p].confirmed >= given[p].confirmed + Extra(p = o /\ by.confirmed)
             /\ \/ ran[p].inReview + Owed(confirmations, p) + Extra(p = o /\ by.editOk)
                       <= given'[p].reviewed
                \/ ~Op[p].edit
  <2>1. Extra(p = o /\ by.confirmed) = 0 /\ Extra(p = o /\ by.editOk) = Extra(p = o)
    BY <1>2 DEF Extra
  <2>2. Owed(confirmations, p) \in {0, 1} /\ Extra(p = o) \in {0, 1}
    BY DEF Owed, Extra
  <2>3. Op[p].edit => ran[p].inReview + Owed(confirmations, p) <= given[p].reviewed
    BY DEF GateInv, ReviewsKept
  <2>4. /\ ran[p].inReview \in Nat /\ given[p].confirmed \in Nat /\ given[p].reviewed \in Nat
    BY GateCounts DEF GateInv
  <2> HIDE DEF o, by, rest
  <2>5. given'[p].confirmed >= given[p].confirmed + Extra(p = o /\ by.confirmed)
    BY <1>4, <2>1, <2>4
  <2>6. Op[p].edit => ran[p].inReview + Owed(confirmations, p) + Extra(p = o /\ by.editOk)
                          <= given'[p].reviewed
    BY <1>4, <2>1, <2>2, <2>3, <2>4
  <2> QED
    BY <2>5, <2>6
<1> HIDE DEF o, by, rest
<1> QED
  BY <1>1, <1>2, <1>3, <1>4, <1>5, <1>6, CallKept

\* What the user does besides: no call runs.
LEMMA UserStep ==
    ASSUME GateInv,
           \/ \E id \in DOMAIN confirmations : CancelPendingOperation(id)
           \/ \E id \in DOMAIN edits : RejectPendingEdit(id)
           \/ \E id \in DOMAIN edits, o \in Operations : ReplacePendingEdit(id, o)
           \/ \E m \in Modes : ChangeMode(m)
           \/ UserEditsFile
           \/ UNCHANGED gateVars
    PROVE  GateInv'
<1>1. contract' = contract /\ ran' = ran /\ given' = given /\ ids' = ids /\ text' \in Nat
  BY QueuesGood DEF CancelPendingOperation, RejectPendingEdit, ReplacePendingEdit, ChangeMode,
     UserEditsFile, gateVars
<1>2. \/ confirmations' = confirmations
      \/ \E id \in DOMAIN confirmations : confirmations' = Take(confirmations, id)
  BY DEF CancelPendingOperation, RejectPendingEdit, ReplacePendingEdit, ChangeMode,
     UserEditsFile, gateVars
<1>3. \/ edits' = edits
      \/ \E id \in DOMAIN edits : edits' = Take(edits, id)
      \/ \E id \in DOMAIN edits, o \in Operations : edits' = [edits EXCEPT ![id].op = o]
  BY DEF CancelPendingOperation, RejectPendingEdit, ReplacePendingEdit, ChangeMode,
     UserEditsFile, gateVars
<1>4. Waiting(confirmations', ids')
  BY <1>1, <1>2, QueuesGood, TakeKeeps
<1>5. InReview(edits', ids')
  <2>1. CASE \E id \in DOMAIN edits, o \in Operations : edits' = [edits EXCEPT ![id].op = o]
    <3>1. PICK id \in DOMAIN edits, o \in Operations :
              edits' = [edits EXCEPT ![id] = [edits[id] EXCEPT !.op = o]]
      BY <2>1, QueuesGood DEF InReview
    <3>2. edits \in [DOMAIN edits -> Held] /\ DOMAIN edits \subseteq 1..ids
      BY QueuesGood DEF InReview
    <3>3. [edits[id] EXCEPT !.op = o] \in Held
      BY <3>2 DEF Held
    <3> QED
      BY <3>1, <3>2, <3>3, <1>1 DEF InReview
  <2> QED
    BY <2>1, <1>1, <1>3, QueuesGood, TakeKeeps
<1>6. ASSUME NEW p \in Operations
      PROVE  Owed(confirmations', p) \in {0, 1} /\ Owed(confirmations', p) <= Owed(confirmations, p)
  <2>1. (\E i \in DOMAIN confirmations' : confirmations'[i].op = p /\ confirmations'[i].editOk)
            => \E i \in DOMAIN confirmations : confirmations[i].op = p /\ confirmations[i].editOk
    BY <1>2 DEF Take, Without
  <2> QED
    BY <2>1 DEF Owed
<1>7. ReviewsKept'
  <2>1. ASSUME NEW p \in Operations, Op[p].edit
        PROVE  ran'[p].inReview + Owed(confirmations', p) <= given'[p].reviewed
    <3>1. ran[p].inReview + Owed(confirmations, p) <= given[p].reviewed
      BY <2>1 DEF GateInv, ReviewsKept
    <3>2. ran[p].inReview \in Nat /\ given[p].reviewed \in Nat
      BY GateCounts DEF GateInv
    <3>3. Owed(confirmations, p) \in {0, 1}
      BY DEF Owed
    <3> QED
      BY <3>1, <3>2, <3>3, <1>1, <1>6
  <2> QED
    BY <2>1 DEF ReviewsKept, Owed
<1>8. GateTypes' /\ OneEach(confirmations)'
  BY <1>1, <1>4, <1>5, QueuesGood DEF GateInv, GateTypes, Waiting, InReview, OneEach
<1>9. AdmittedFinite' /\ GatesHold'
  BY <1>1 DEF GateInv, AdmittedFinite, GatesHold, OneShot, ScopeKept
<1> QED
  BY <1>7, <1>8, <1>9 DEF GateInv

LEMMA GateStart == GateInit => GateInv
<1> SUFFICES ASSUME GateInit PROVE GateInv
  OBVIOUS
<1>1. GateTypes
  BY GateAssumption DEF GateInit, GateTypes
<1>2. OneEach(confirmations) /\ ReviewsKept
  BY DEF GateInit, OneEach, ReviewsKept, Owed
<1>3. /\ contract.files = {} /\ contract.allowed = Allowed /\ contract.allowed \ Allowed = {}
      /\ contract.lines = 0 /\ contract.expansions = 0
  BY DEF GateInit
<1>4. AdmittedFinite /\ ScopeKept
  BY <1>3, FS_EmptySet, GateAssumption DEF AdmittedFinite, ScopeKept
<1>5. OneShot
  BY DEF GateInit, OneShot, MustConfirm, MustAgree, MustReview
<1> QED
  BY <1>1, <1>2, <1>4, <1>5 DEF GateInv, GatesHold

\* Whatever the model and the user call, approve, cancel, replace and change, and in whatever
\* order, nothing runs more often than it was agreed to, and edits stay in the scope contract.
THEOREM GatesHoldHolds == GateSpec => []GatesHold
<1>1. GateInv /\ [GateNext]_gateVars => GateInv'
  BY CallStep, ConfirmStep, ApplyStep, UserStep DEF GateNext
<1>2. GateInv => GatesHold
  BY DEF GateInv
<1> QED
  BY <1>1, <1>2, GateStart, PTL DEF GateSpec

-----------------------------------------------------------------------------
(* The test evidence. *)

EvidenceTypes ==
    /\ content \in [Files -> Nat] /\ rev \in Nat \ {0}
    /\ broken \subseteq Present
    /\ DOMAIN expected \subseteq Files /\ planned \subseteq DOMAIN expected
    /\ evidence \in Seq(Record) /\ mislabelled \in BOOLEAN

\* No record is of a later revision.
RecordsPast == \A i \in DOMAIN evidence : evidence[i].rev <= rev

\* A run of the whole suite that passed speaks for its revision.
SuitesTrue ==
    \A i \in DOMAIN evidence :
        evidence[i].rev = rev /\ evidence[i].scope = "full_suite" /\ evidence[i].verified
            /\ ~mislabelled => broken = {}

\* The suite of the verifier is the last that was tested.
SuiteLast ==
    phase # "execute" =>
        \E k \in DOMAIN evidence :
            /\ evidence[k].about = "test"
            /\ \/ evidence[k].scope = "full_suite"
               \/ evidence[k].scope = "targeted" /\ ~evidence[k].verified
            /\ \A j \in DOMAIN evidence : j > k => evidence[j].about = "integrity"

\* What was planned is expected as it was at first, or as a recorded edit left it.
ExpectedRecorded == \A f \in planned : expected[f] \in {0, 1} \union recorded

VerdictLast == phase # "judged" => verdict = "none"

EvidenceInv ==
    /\ VerdictLast
    /\ EvidenceTypes /\ RecordsPast /\ SuitesTrue /\ SuiteLast /\ ExpectedRecorded
    /\ EvidenceHonest

-----------------------------------------------------------------------------
(* Records. *)

\* A profile, as the parser of commands makes it.
Profile == [valid : BOOLEAN, scope : {"full_suite", "targeted", "script", "unknown"},
            targets : SUBSET Tests]

LEMMA ProfileIsOne ==
    ASSUME NEW command, command.targets \subseteq Tests, NEW present
    PROVE  /\ Analyse(command, present) \in Profile
           /\ command.form \in {"suite", "joined"} => Analyse(command, present).scope = "full_suite"
           /\ command.form = "paths" => Analyse(command, present).scope = "targeted"
           /\ Analyse(command, present).scope = "full_suite" => command.form \in {"suite", "joined"}
<1> DEFINE p == Analyse(command, present)
<1>1. p.valid \in BOOLEAN /\ p.targets \subseteq Tests
  BY DEF Analyse
<1>2. /\ p.scope \in {"full_suite", "targeted", "script", "unknown"}
      /\ command.form \in {"suite", "joined"} => p.scope = "full_suite"
      /\ command.form = "paths" => p.scope = "targeted"
      /\ p.scope = "full_suite" => command.form \in {"suite", "joined"}
  BY DEF Analyse
<1>3. p \in Profile
  BY <1>1, <1>2 DEF Analyse, Profile
<1> QED
  BY <1>2, <1>3

\* Where every file of a run was there before, every file is as it was expected.
LEMMA PreExistingIsExpected ==
    ASSUME NEW profile \in Profile, Origin(profile) = "pre_existing"
    PROVE  \A f \in (IF profile.scope = "full_suite" THEN Present ELSE profile.targets) :
               f \in DOMAIN expected /\ content[f] # 0 /\ content[f] = expected[f]
<1> DEFINE paths == IF profile.scope = "full_suite" THEN Present ELSE profile.targets
           states == {ProvenanceOf(f) : f \in paths}
<1>1. states \subseteq {"model_generated", "unknown", "pre_existing", "modified_pre_existing"}
  BY DEF ProvenanceOf
<1>2. IsFiniteSet(states)
  <2>1. IsFiniteSet({"model_generated", "unknown", "pre_existing", "modified_pre_existing"})
    <3>1. IsFiniteSet({} \union {"model_generated"})
      BY FS_EmptySet, FS_AddElement
    <3>2. IsFiniteSet(({} \union {"model_generated"}) \union {"unknown"})
      BY <3>1, FS_AddElement
    <3>3. IsFiniteSet((({} \union {"model_generated"}) \union {"unknown"}) \union {"pre_existing"})
      BY <3>2, FS_AddElement
    <3>4. IsFiniteSet(((({} \union {"model_generated"}) \union {"unknown"})
                          \union {"pre_existing"}) \union {"modified_pre_existing"})
      BY <3>3, FS_AddElement
    <3>5. {"model_generated", "unknown", "pre_existing", "modified_pre_existing"}
              = ((({} \union {"model_generated"}) \union {"unknown"})
                    \union {"pre_existing"}) \union {"modified_pre_existing"}
      OBVIOUS
    <3> QED
      BY <3>4, <3>5
  <2> QED
    BY <1>1, <2>1, FS_Subset
<1>3. Cardinality(states) = 1 /\ (CHOOSE s \in states : TRUE) = "pre_existing"
  BY DEF Origin
<1>4. \E x : states = {x}
  BY <1>2, <1>3, FS_Singleton
<1>5. states = {"pre_existing"}
  BY <1>3, <1>4
<1>6. \A f \in paths : ProvenanceOf(f) = "pre_existing"
  BY <1>5
<1> QED
  BY <1>6 DEF ProvenanceOf

LEMMA OriginIsOne ==
    ASSUME NEW profile \in Profile
    PROVE  Origin(profile) \in Origins
<1> DEFINE paths == IF profile.scope = "full_suite" THEN Present ELSE profile.targets
           states == {ProvenanceOf(f) : f \in paths}
<1>1. states \subseteq {"model_generated", "unknown", "pre_existing", "modified_pre_existing"}
  BY DEF ProvenanceOf
<1>2. paths # {} => (CHOOSE s \in states : TRUE) \in states
  <2>1. paths # {} => states # {}
    OBVIOUS
  <2> QED
    BY <2>1
<1> QED
  BY <1>1, <1>2 DEF Origin, Origins

\* What may be added to the evidence while nothing changes: the record of a check that is honest.
Honest(e) ==
    /\ e \in Record /\ e.rev = rev
    /\ e.scope = "full_suite" /\ e.verified /\ ~mislabelled' => broken = {}
    /\ e.origin = "pre_existing" =>
           \A t \in planned \intersect (IF e.scope = "full_suite" THEN Present ELSE e.targets) :
               content[t] \in {1} \union recorded

LEMMA TestIsHonest ==
    ASSUME EvidenceTypes, ExpectedRecorded, NEW profile \in Profile, NEW verified \in BOOLEAN,
           profile.scope = "full_suite" /\ verified /\ ~mislabelled' => broken = {}
    PROVE  Honest(TestRecord(profile, verified))
<1> DEFINE e == TestRecord(profile, verified)
<1>1. /\ e.about = "test" /\ e.scope = profile.scope /\ e.targets = profile.targets
      /\ e.verified = verified /\ e.rev = rev /\ e.origin = Origin(profile)
  BY DEF TestRecord
<1>2. e \in Record
  <2>1. /\ profile.scope \in {"none", "full_suite", "targeted", "script", "unknown"}
        /\ profile.targets \in SUBSET Tests /\ rev \in Nat /\ Origin(profile) \in Origins
    BY OriginIsOne DEF Profile, EvidenceTypes
  <2> QED
    BY <2>1 DEF TestRecord, Record
<1>3. ASSUME Origin(profile) = "pre_existing",
             NEW t \in planned \intersect
                       (IF profile.scope = "full_suite" THEN Present ELSE profile.targets)
      PROVE  content[t] \in {1} \union recorded
  BY <1>3, PreExistingIsExpected DEF ExpectedRecorded
<1> HIDE DEF e
<1>4. Honest(e)
  BY <1>1, <1>2, <1>3 DEF Honest
<1> QED
  BY <1>4 DEF e

LEMMA StaticIsHonest ==
    ASSUME EvidenceTypes, NEW ok \in BOOLEAN
    PROVE  Honest(StaticRecord(ok))
<1> DEFINE e == StaticRecord(ok)
<1>1. /\ e.about = "static" /\ e.scope = "none" /\ e.targets = {}
      /\ e.verified = ok /\ e.rev = rev /\ e.origin = "none"
  BY DEF StaticRecord
<1>2. e \in Record
  BY DEF StaticRecord, Record, Origins, EvidenceTypes
<1> HIDE DEF e
<1>3. Honest(e)
  BY <1>1, <1>2 DEF Honest
<1> QED
  BY <1>3 DEF e

\* Honest records keep what the records say.
LEMMA RecordsKept ==
    ASSUME EvidenceInv, UNCHANGED files, UNCHANGED planned, mislabelled => mislabelled',
           mislabelled' \in BOOLEAN, NEW more \in Seq(Record), evidence' = evidence \o more,
           \A i \in DOMAIN more : Honest(more[i])
    PROVE  /\ EvidenceTypes' /\ RecordsPast' /\ SuitesTrue' /\ ExpectedRecorded'
           /\ OutsideChangesShow'
           /\ Len(evidence) \in Nat /\ DOMAIN evidence = 1..Len(evidence)
           /\ DOMAIN evidence' = 1..(Len(evidence) + Len(more))
           /\ \A i \in DOMAIN evidence : evidence'[i] = evidence[i]
           /\ \A i \in DOMAIN more : evidence'[Len(evidence) + i] = more[i]
<1>1. EvidenceTypes /\ evidence \in Seq(Record)
  BY DEF EvidenceInv, EvidenceTypes
<1>2. /\ content' = content /\ expected' = expected /\ broken' = broken /\ rev' = rev
      /\ recorded' = recorded /\ planned' = planned
  BY DEF files
<1>3. /\ evidence' \in Seq(Record)
      /\ Len(evidence) \in Nat /\ Len(more) \in Nat
      /\ DOMAIN evidence = 1..Len(evidence) /\ DOMAIN more = 1..Len(more)
      /\ DOMAIN evidence' = 1..(Len(evidence) + Len(more))
      /\ \A i \in 1..(Len(evidence) + Len(more)) :
             evidence'[i] = IF i <= Len(evidence) THEN evidence[i] ELSE more[i - Len(evidence)]
  BY <1>1
<1>4. \A i \in DOMAIN evidence' :
          \/ i \in DOMAIN evidence /\ evidence'[i] = evidence[i]
          \/ \E j \in DOMAIN more : evidence'[i] = more[j]
  <2>1. ASSUME NEW i \in 1..(Len(evidence) + Len(more)), ~(i <= Len(evidence))
        PROVE  i - Len(evidence) \in 1..Len(more)
    BY <2>1, <1>3
  <2> QED
    BY <1>3, <2>1
<1>5. EvidenceTypes'
  BY <1>1, <1>2, <1>3 DEF EvidenceTypes, Present, PresentIn
<1>6. RecordsPast'
  BY <1>1, <1>2, <1>4 DEF EvidenceInv, EvidenceTypes, RecordsPast, Honest
<1>7. SuitesTrue'
  <2>1. ASSUME NEW i \in DOMAIN evidence', evidence'[i].rev = rev,
               evidence'[i].scope = "full_suite", evidence'[i].verified, ~mislabelled'
        PROVE  broken = {}
    <3>1. CASE i \in DOMAIN evidence /\ evidence'[i] = evidence[i]
      BY <2>1, <3>1 DEF EvidenceInv, SuitesTrue
    <3>2. CASE \E j \in DOMAIN more : evidence'[i] = more[j]
      BY <2>1, <3>2 DEF Honest
    <3> QED
      BY <1>4, <3>1, <3>2
  <2> QED
    BY <2>1, <1>2 DEF SuitesTrue
<1>8. ExpectedRecorded'
  BY <1>2 DEF EvidenceInv, ExpectedRecorded
<1>9. OutsideChangesShow'
  <2>1. ASSUME NEW i \in DOMAIN evidence', evidence'[i].rev = rev,
               evidence'[i].origin = "pre_existing",
               NEW t \in planned \intersect (IF evidence'[i].scope = "full_suite" THEN Present
                                             ELSE evidence'[i].targets)
        PROVE  content[t] \in {1} \union recorded
    <3>1. CASE i \in DOMAIN evidence /\ evidence'[i] = evidence[i]
      BY <2>1, <3>1 DEF EvidenceInv, EvidenceHonest, OutsideChangesShow
    <3>2. CASE \E j \in DOMAIN more : evidence'[i] = more[j]
      BY <2>1, <3>2 DEF Honest
    <3> QED
      BY <1>4, <3>1, <3>2
  <2> QED
    BY <2>1, <1>2 DEF OutsideChangesShow, Present, PresentIn
<1>10. \A i \in DOMAIN evidence : evidence'[i] = evidence[i]
  BY <1>3
<1>11. \A i \in DOMAIN more : evidence'[Len(evidence) + i] = more[i]
  <2>1. ASSUME NEW i \in 1..Len(more)
        PROVE  /\ Len(evidence) + i \in 1..(Len(evidence) + Len(more))
               /\ ~(Len(evidence) + i <= Len(evidence))
               /\ (Len(evidence) + i) - Len(evidence) = i
    BY <1>3
  <2> QED
    BY <2>1, <1>3
<1> QED
  BY <1>3, <1>5, <1>6, <1>7, <1>8, <1>9, <1>10, <1>11

-----------------------------------------------------------------------------
(* The steps. *)

LEMMA EvidenceStart == EvidenceInit => EvidenceInv
<1> SUFFICES ASSUME EvidenceInit PROVE EvidenceInv
  OBVIOUS
<1>1. content \in [Files -> {0, 1}] /\ DOMAIN expected \subseteq Files /\ planned = DOMAIN expected
  <2>1. content \in [Files -> {0, 1}]
    BY DEF EvidenceInit
  <2>2. DOMAIN expected \subseteq Files
    BY DEF EvidenceInit, Files, Present, PresentIn
  <2> QED
    BY <2>1, <2>2 DEF EvidenceInit
<1>2. \A f \in DOMAIN expected : expected[f] \in {0, 1}
  <2>1. PICK scope \in SUBSET (Tests \ Present) :
            expected = [f \in {Source} \union Present \union scope |-> content[f]]
    BY DEF EvidenceInit
  <2>2. {Source} \union Present \union scope \subseteq Files
    BY DEF Files, Present, PresentIn
  <2> QED
    BY <1>1, <2>1, <2>2
<1>3. /\ evidence = <<>> /\ broken = {} /\ rev = 1 /\ phase = "execute" /\ verdict = "none"
      /\ mislabelled = FALSE
  BY DEF EvidenceInit
<1>4. EvidenceTypes
  <2>1. content \in [Files -> Nat]
    BY <1>1
  <2>2. evidence \in Seq(Record)
    BY <1>3
  <2>3. mislabelled \in BOOLEAN
    BY <1>3, Zenon
  <2>4. rev \in Nat \ {0} /\ broken \subseteq Present
    BY <1>3
  <2>5. DOMAIN expected \subseteq Files /\ planned \subseteq DOMAIN expected
    BY <1>1
  <2> QED
    BY <2>1, <2>2, <2>3, <2>4, <2>5, Zenon DEF EvidenceTypes
<1>5. VerdictLast /\ RecordsPast /\ SuitesTrue /\ SuiteLast /\ EvidenceHonest
  BY <1>3 DEF VerdictLast, RecordsPast, SuitesTrue, SuiteLast, EvidenceHonest, VerifiedSuiteHolds,
     OutsideChangesShow
<1>6. ExpectedRecorded
  BY <1>1, <1>2 DEF ExpectedRecorded
<1> QED
  BY <1>4, <1>5, <1>6 DEF EvidenceInv

\* A change of a file, recorded or not, makes a revision that no record is of.
LEMMA ChangeKept ==
    ASSUME EvidenceInv, NEW f \in Files, NEW c \in Nat, Becomes(f, c), phase # "judged",
           recorded \subseteq recorded', planned' = planned, evidence' = evidence,
           phase' = phase, verdict' = verdict, mislabelled' = mislabelled,
           \/ expected' = expected
           \/ /\ DOMAIN expected' = DOMAIN expected \union {f} /\ expected'[f] \in recorded'
              /\ \A g \in DOMAIN expected : g # f => expected'[g] = expected[g]
    PROVE  EvidenceInv'
<1>1. EvidenceTypes /\ RecordsPast
  BY DEF EvidenceInv
<1>2. /\ content' \in [Files -> Nat] /\ rev' = rev + 1 /\ rev' \in Nat \ {0}
      /\ broken' \subseteq PresentIn(content')
  <2>1. content' = [content EXCEPT ![f] = c] /\ rev' = rev + 1 /\ broken' \in SUBSET PresentIn(content')
    BY DEF Becomes
  <2>2. content \in [Files -> Nat] /\ rev \in Nat \ {0}
    BY <1>1 DEF EvidenceTypes
  <2>3. content' \in [Files -> Nat]
    BY <2>1, <2>2
  <2>4. rev' \in Nat \ {0}
    BY <2>1, <2>2
  <2>5. broken' \subseteq PresentIn(content')
    BY <2>1, Zenon
  <2> QED
    BY <2>1, <2>3, <2>4, <2>5
<1>3. DOMAIN expected' \subseteq Files /\ planned' \subseteq DOMAIN expected'
  BY <1>1 DEF EvidenceTypes
<1>4. EvidenceTypes'
  BY <1>1, <1>2, <1>3 DEF EvidenceTypes, Present, PresentIn
<1>5. \A i \in DOMAIN evidence : evidence[i].rev \in Nat
  <2>1. \A e \in Record : e.rev \in Nat
    BY DEF Record
  <2> QED
    BY <1>1, <2>1 DEF EvidenceTypes
<1>6. RecordsPast' /\ \A i \in DOMAIN evidence : evidence'[i].rev # rev'
  BY <1>1, <1>2, <1>5 DEF RecordsPast, EvidenceTypes
<1>7. SuitesTrue' /\ OutsideChangesShow'
  BY <1>6 DEF SuitesTrue, OutsideChangesShow
<1>8. SuiteLast'
  BY DEF EvidenceInv, SuiteLast
<1>9. ExpectedRecorded'
  <2>1. ASSUME NEW g \in planned PROVE expected'[g] \in {0, 1} \union recorded'
    <3>1. g \in DOMAIN expected /\ expected[g] \in {0, 1} \union recorded
      BY DEF EvidenceInv, EvidenceTypes, ExpectedRecorded
    <3> QED
      BY <3>1
  <2> QED
    BY <2>1 DEF ExpectedRecorded
<1>10. VerifiedSuiteHolds' /\ VerdictLast'
  BY DEF EvidenceInv, VerdictLast, VerifiedSuiteHolds
<1> QED
  BY <1>4, <1>6, <1>7, <1>8, <1>9, <1>10 DEF EvidenceInv, EvidenceHonest

LEMMA EvidenceSizes ==
    ASSUME EvidenceInv
    PROVE  /\ content \in [Files -> Nat] /\ rev \in Nat /\ rev + 1 \in Nat
           /\ evidence \in Seq(Record) /\ mislabelled \in BOOLEAN
BY DEF EvidenceInv, EvidenceTypes

LEMMA FileStep ==
    ASSUME EvidenceInv, NEW f \in Files,
           EditFile(f) \/ (\E removed \in BOOLEAN : ChangeBehind(f, removed))
    PROVE  EvidenceInv'
<1>1. CASE EditFile(f)
  <2>1. /\ Becomes(f, NewContent) /\ phase # "judged" /\ recorded' = recorded \union {NewContent}
        /\ planned' = planned /\ evidence' = evidence /\ phase' = phase /\ verdict' = verdict
        /\ mislabelled' = mislabelled /\ expected' = Expecting(f, NewContent)
    BY <1>1 DEF EditFile, Moving
  <2>2. NewContent \in Nat
    BY EvidenceSizes DEF NewContent
  <2>3. /\ DOMAIN expected' = DOMAIN expected \union {f} /\ expected'[f] \in recorded'
        /\ \A g \in DOMAIN expected : g # f => expected'[g] = expected[g]
    BY <2>1 DEF Expecting
  <2> HIDE DEF NewContent
  <2> QED
    BY <2>1, <2>2, <2>3, ChangeKept
<1>2. ASSUME NEW removed \in BOOLEAN, ChangeBehind(f, removed) PROVE EvidenceInv'
  <2> DEFINE c == IF removed THEN 0 ELSE NewContent
  <2>1. /\ Becomes(f, c) /\ phase # "judged" /\ recorded' = recorded
        /\ planned' = planned /\ evidence' = evidence /\ phase' = phase /\ verdict' = verdict
        /\ mislabelled' = mislabelled /\ expected' = expected
    BY <1>2 DEF ChangeBehind, Moving
  <2>2. c \in Nat
    BY EvidenceSizes DEF NewContent
  <2> HIDE DEF c
  <2> QED
    BY <2>1, <2>2, ChangeKept
<1> QED
  BY <1>1, <1>2

\* A file that becomes known is not one of the plan.
LEMMA CaptureKept ==
    ASSUME EvidenceInv, NEW f \in Files, expected' = Captured(f), planned' = planned
    PROVE  /\ DOMAIN expected' \subseteq Files /\ planned' \subseteq DOMAIN expected'
           /\ \A g \in planned : expected'[g] = expected[g]
<1>1. DOMAIN expected \subseteq Files /\ planned \subseteq DOMAIN expected
  BY DEF EvidenceInv, EvidenceTypes
<1>2. CASE f \in DOMAIN expected
  BY <1>1, <1>2 DEF Captured
<1>3. CASE f \notin DOMAIN expected
  BY <1>1, <1>3 DEF Captured, Expecting
<1> QED
  BY <1>2, <1>3

LEMMA StopStep ==
    ASSUME EvidenceInv, NEW f \in Files, StopEdit(f)
    PROVE  EvidenceInv'
<1>1. /\ expected' = Captured(f) /\ planned' = planned /\ content' = content /\ broken' = broken
      /\ rev' = rev /\ recorded' = recorded /\ phase' = phase /\ evidence' = evidence
      /\ verdict' = verdict /\ mislabelled' = mislabelled
  BY DEF StopEdit
<1>2. /\ DOMAIN expected' \subseteq Files /\ planned' \subseteq DOMAIN expected'
      /\ \A g \in planned : expected'[g] = expected[g]
  BY <1>1, CaptureKept
<1>3. EvidenceTypes'
  BY <1>1, <1>2 DEF EvidenceInv, EvidenceTypes, Present, PresentIn
<1>4. ExpectedRecorded'
  BY <1>1, <1>2 DEF EvidenceInv, ExpectedRecorded
<1>5. RecordsPast' /\ SuitesTrue' /\ SuiteLast' /\ EvidenceHonest' /\ VerdictLast'
  BY <1>1 DEF EvidenceInv, RecordsPast, SuitesTrue, SuiteLast, EvidenceHonest, VerifiedSuiteHolds,
     OutsideChangesShow, VerdictLast, Present, PresentIn
<1> QED
  BY <1>3, <1>4, <1>5 DEF EvidenceInv

LEMMA LoseStep ==
    ASSUME EvidenceInv, NEW f \in Files, LoseEdit(f)
    PROVE  EvidenceInv'
<1> DEFINE lost == [about |-> "integrity", scope |-> "none", targets |-> {}, verified |-> FALSE,
                    rev |-> rev, origin |-> "none"]
<1>1. /\ expected' = Captured(f) /\ planned' = planned /\ content' = content /\ broken' = broken
      /\ rev' = rev /\ recorded' = recorded /\ phase' = phase /\ phase # "judged"
      /\ evidence' = Append(evidence, lost)
      /\ verdict' = verdict /\ mislabelled' = mislabelled
  BY DEF LoseEdit, Moving
<1>2. /\ DOMAIN expected' \subseteq Files /\ planned' \subseteq DOMAIN expected'
      /\ \A g \in planned : expected'[g] = expected[g]
  BY <1>1, CaptureKept
<1>3. lost \in Record
  BY EvidenceSizes DEF Record, Origins
<1>4. /\ lost.about = "integrity" /\ lost.scope = "none" /\ lost.rev = rev /\ lost.origin = "none"
  OBVIOUS
<1> HIDE DEF lost
<1>5. /\ evidence' \in Seq(Record) /\ Len(evidence) \in Nat /\ DOMAIN evidence = 1..Len(evidence)
      /\ DOMAIN evidence' = 1..(Len(evidence) + 1)
      /\ \A i \in DOMAIN evidence : evidence'[i] = evidence[i]
      /\ evidence'[Len(evidence) + 1] = lost
  BY <1>1, <1>3, EvidenceSizes
<1>6. \A i \in DOMAIN evidence' : i \in DOMAIN evidence \/ i = Len(evidence) + 1
  BY <1>5
<1>7. EvidenceTypes'
  BY <1>1, <1>2, <1>5 DEF EvidenceInv, EvidenceTypes, Present, PresentIn
<1>8. ExpectedRecorded' /\ VerdictLast' /\ VerifiedSuiteHolds'
  BY <1>1, <1>2 DEF EvidenceInv, ExpectedRecorded, VerdictLast, VerifiedSuiteHolds
<1>9. RecordsPast'
  BY <1>1, <1>4, <1>5, <1>6, EvidenceSizes DEF EvidenceInv, RecordsPast
<1>10. SuitesTrue'
  BY <1>1, <1>4, <1>5, <1>6 DEF EvidenceInv, SuitesTrue
<1>11. OutsideChangesShow'
  BY <1>1, <1>4, <1>5, <1>6 DEF EvidenceInv, EvidenceHonest, OutsideChangesShow, Present, PresentIn
<1>12. SuiteLast'
  <2>1. ASSUME phase # "execute" PROVE SuiteLast'
    <3>1. PICK k \in DOMAIN evidence :
              /\ evidence[k].about = "test"
              /\ \/ evidence[k].scope = "full_suite"
                 \/ evidence[k].scope = "targeted" /\ ~evidence[k].verified
              /\ \A j \in DOMAIN evidence : j > k => evidence[j].about = "integrity"
      BY <2>1 DEF EvidenceInv, SuiteLast
    <3>2. k \in DOMAIN evidence' /\ evidence'[k] = evidence[k]
      BY <1>5
    <3>3. \A j \in DOMAIN evidence' : j > k => evidence'[j].about = "integrity"
      BY <3>1, <1>4, <1>5, <1>6
    <3> QED
      BY <3>1, <3>2, <3>3 DEF SuiteLast
  <2> QED
    BY <2>1, <1>1 DEF SuiteLast
<1> QED
  BY <1>7, <1>8, <1>9, <1>10, <1>11, <1>12 DEF EvidenceInv, EvidenceHonest

LEMMA PassedIsBoolean ==
    ASSUME NEW profile \in Profile, NEW tests, NEW passed \in BOOLEAN, NEW shown
    PROVE  ValidExecution(profile, tests, passed, shown) \in BOOLEAN
BY Zenon DEF ValidExecution

LEMMA ExitIsBoolean == ASSUME NEW command, NEW tests PROVE ExitsZero(command, tests) \in BOOLEAN
BY Zenon DEF ExitsZero

LEMMA PassedExits ==
    ASSUME NEW command, NEW tests, NEW shown, NEW profile,
           ValidExecution(profile, tests, ExitsZero(command, tests), shown)
    PROVE  tests \intersect broken = {}
BY DEF ValidExecution, ExitsZero

LEMMA DeclaredStep ==
    ASSUME EvidenceInv, NEW command \in Declarable, NEW shown \in Outputs,
           NEW tests \in MayRun(command, Present), RunDeclared(command, tests, shown)
    PROVE  EvidenceInv'
<1> DEFINE profile == Analyse(command, Present)
           verified == ValidExecution(profile, tests, ExitsZero(command, tests), shown)
           e == TestRecord(profile, verified)
<1>1. /\ phase = "execute" /\ phase' = phase /\ verdict' = verdict
      /\ UNCHANGED files /\ UNCHANGED planned
      /\ evidence' = Append(evidence, e)
      /\ mislabelled' = (mislabelled \/ (verified /\ command.form = "joined" /\ tests # Present))
  BY DEF RunDeclared
<1>2. command.targets \subseteq Tests
  BY DEF Declarable, Command
<1>3. /\ profile \in Profile
      /\ profile.scope = "full_suite" => command.form \in {"suite", "joined"}
  BY <1>2, ProfileIsOne
<1>4. verified \in BOOLEAN
  BY <1>3, PassedIsBoolean, ExitIsBoolean
<1>5. (mislabelled => mislabelled') /\ mislabelled' \in BOOLEAN
  BY <1>1, <1>4, EvidenceSizes
<1>6. broken \subseteq Present /\ EvidenceTypes /\ ExpectedRecorded
  BY DEF EvidenceInv, EvidenceTypes
<1>7. ASSUME profile.scope = "full_suite", verified, ~mislabelled' PROVE broken = {}
  <2>1. tests \intersect broken = {}
    BY <1>7, PassedExits
  <2>2. tests = Present
    <3>1. CASE command.form = "suite"
      BY <3>1 DEF MayRun
    <3>2. CASE command.form = "joined"
      BY <3>2, <1>1, <1>7
    <3> QED
      BY <1>3, <1>7, <3>1, <3>2
  <2> QED
    BY <2>1, <2>2, <1>6
<1> HIDE DEF profile, verified
<1>8. Honest(e)
  BY <1>3, <1>4, <1>6, <1>7, TestIsHonest
<1>9. e \in Record
  BY <1>8 DEF Honest
<1> HIDE DEF e
<1> DEFINE more == <<e>>
<1>10. /\ more \in Seq(Record) /\ evidence' = evidence \o more
       /\ \A i \in DOMAIN more : Honest(more[i])
  BY <1>1, <1>8, <1>9, EvidenceSizes
<1> HIDE DEF more
<1>11. EvidenceTypes' /\ RecordsPast' /\ SuitesTrue' /\ ExpectedRecorded' /\ OutsideChangesShow'
  BY <1>1, <1>5, <1>10, RecordsKept
<1>12. SuiteLast' /\ VerdictLast' /\ VerifiedSuiteHolds'
  BY <1>1 DEF EvidenceInv, SuiteLast, VerdictLast, VerifiedSuiteHolds
<1> QED
  BY <1>11, <1>12 DEF EvidenceInv, EvidenceHonest

\* What the verifier records: a narrow run that failed, or the whole suite last.
LEMMA SuiteRecords ==
    ASSUME EvidenceInv, mislabelled' = mislabelled, NEW impacted \in SUBSET Present,
           NEW static \in BOOLEAN, NEW shown, NEW debt
    PROVE  LET more == ChangeAware(impacted, static, shown, debt)
           IN /\ more \in Seq(Record) /\ Len(more) \in 1..3 /\ DOMAIN more = 1..Len(more)
              /\ \A i \in DOMAIN more : Honest(more[i])
              /\ more[Len(more)].about = "test"
              /\ \/ more[Len(more)].scope = "full_suite"
                 \/ more[Len(more)].scope = "targeted" /\ ~more[Len(more)].verified
<1> DEFINE focused == CheckTests(Command("paths", impacted), impacted, shown)
           gate == CheckTests(Command("suite", {}), Present, shown)
           n == TestRecord(focused.profile, focused.passed)
           t == StaticRecord(static)
           g == TestRecord(gate.profile, gate.passed)
           more == ChangeAware(impacted, static, shown, debt)
<1>1. broken \subseteq Present /\ EvidenceTypes /\ ExpectedRecorded /\ Present \subseteq Tests
  BY DEF EvidenceInv, EvidenceTypes, Present, PresentIn
<1>2. /\ focused.profile \in Profile /\ focused.profile.scope = "targeted"
      /\ focused.passed \in BOOLEAN
  <2> DEFINE c == Command("paths", impacted)
  <2>1. c.targets \subseteq Tests /\ c.form = "paths"
    BY <1>1 DEF Command
  <2> HIDE DEF c
  <2>2. Analyse(c, Present) \in Profile /\ Analyse(c, Present).scope = "targeted"
    BY <2>1, ProfileIsOne
  <2>3. ValidExecution(Analyse(c, Present), impacted, ExitsZero(c, impacted), shown) \in BOOLEAN
    BY <2>2, PassedIsBoolean, ExitIsBoolean
  <2> QED
    BY <2>2, <2>3 DEF CheckTests, c
<1>3. /\ gate.profile \in Profile /\ gate.profile.scope = "full_suite"
      /\ gate.passed \in BOOLEAN /\ (gate.passed => broken = {})
  <2> DEFINE c == Command("suite", {})
  <2>1. c.targets \subseteq Tests /\ c.form = "suite"
    BY DEF Command
  <2> HIDE DEF c
  <2>2. Analyse(c, Present) \in Profile /\ Analyse(c, Present).scope = "full_suite"
    BY <2>1, ProfileIsOne
  <2> DEFINE passed == ValidExecution(Analyse(c, Present), Present, ExitsZero(c, Present), shown)
  <2>3. passed \in BOOLEAN
    BY <2>2, PassedIsBoolean, ExitIsBoolean
  <2>4. passed => broken = {}
    <3>1. passed => Present \intersect broken = {}
      BY PassedExits
    <3> QED
      BY <3>1, <1>1
  <2> HIDE DEF passed
  <2>5. gate.profile = Analyse(c, Present) /\ gate.passed = passed
    BY DEF CheckTests, c, passed
  <2> QED
    BY <2>2, <2>3, <2>4, <2>5
<1>4. \/ more = <<n>> /\ ~focused.passed
      \/ more = <<>> \o <<t, g>>
      \/ more = <<n>> \o <<t, g>>
  <2>1. Recorded(focused, FALSE) = n /\ Recorded(gate, Inherits(gate, debt)) = g
    BY DEF Recorded
  <2> HIDE DEF focused, gate, n, t, g
  <2>2. \/ impacted # {} /\ ~focused.passed /\ more = <<n>>
        \/ impacted = {} /\ more = <<>> \o <<t, g>>
        \/ impacted # {} /\ more = <<n>> \o <<t, g>>
    BY <2>1 DEF ChangeAware, focused, gate, t
  <2> QED
    BY <2>2
<1> HIDE DEF focused, gate
<1>5. Honest(n) /\ Honest(t) /\ Honest(g)
  BY <1>1, <1>2, <1>3, TestIsHonest, StaticIsHonest
<1>6. /\ n.about = "test" /\ n.scope = "targeted" /\ n.verified = focused.passed
      /\ g.about = "test" /\ g.scope = "full_suite"
  BY <1>2, <1>3 DEF TestRecord
<1> HIDE DEF n, t, g, more
<1>7. n \in Record /\ t \in Record /\ g \in Record
  BY <1>5 DEF Honest
<1> DEFINE fits == /\ more \in Seq(Record) /\ Len(more) \in 1..3 /\ DOMAIN more = 1..Len(more)
                   /\ \A i \in DOMAIN more : Honest(more[i])
                   /\ more[Len(more)].about = "test"
                   /\ \/ more[Len(more)].scope = "full_suite"
                      \/ more[Len(more)].scope = "targeted" /\ ~more[Len(more)].verified
<1>8. CASE more = <<n>> /\ ~focused.passed
  <2>1. more \in Seq(Record) /\ Len(more) = 1 /\ DOMAIN more = 1..1 /\ more[1] = n
    BY <1>7, <1>8
  <2>2. \A i \in DOMAIN more : Honest(more[i])
    BY <2>1, <1>5
  <2>3. fits
    BY <2>1, <2>2, <1>6, <1>8
  <2> QED
    BY <2>3 DEF more
<1>9. CASE more = <<>> \o <<t, g>>
  <2>1. more \in Seq(Record) /\ Len(more) = 2 /\ DOMAIN more = 1..2 /\ more[1] = t /\ more[2] = g
    BY <1>7, <1>9
  <2>2. \A i \in DOMAIN more : Honest(more[i])
    BY <2>1, <1>5
  <2>3. fits
    BY <2>1, <2>2, <1>6
  <2> QED
    BY <2>3 DEF more
<1>10. CASE more = <<n>> \o <<t, g>>
  <2>1. /\ more \in Seq(Record) /\ Len(more) = 3 /\ DOMAIN more = 1..3
        /\ more[1] = n /\ more[2] = t /\ more[3] = g
    BY <1>7, <1>10
  <2>2. \A i \in DOMAIN more : Honest(more[i])
    BY <2>1, <1>5
  <2>3. fits
    BY <2>1, <2>2, <1>6
  <2> QED
    BY <2>3 DEF more
<1> QED
  BY <1>4, <1>8, <1>9, <1>10

LEMMA SuiteStep ==
    ASSUME EvidenceInv, NEW impacted \in SUBSET Present, NEW debt \in SUBSET Tests,
           NEW static \in BOOLEAN, NEW shown \in Outputs, RunSuite(impacted, static, shown, debt)
    PROVE  EvidenceInv'
<1> DEFINE more == ChangeAware(impacted, static, shown, debt)
<1>1. /\ phase # "judged" /\ phase' = "checked" /\ evidence' = evidence \o more
      /\ UNCHANGED files /\ UNCHANGED planned /\ verdict' = verdict /\ mislabelled' = mislabelled
  BY DEF RunSuite
<1>2. /\ more \in Seq(Record) /\ Len(more) \in 1..3 /\ DOMAIN more = 1..Len(more)
      /\ \A i \in DOMAIN more : Honest(more[i])
      /\ more[Len(more)].about = "test"
      /\ \/ more[Len(more)].scope = "full_suite"
         \/ more[Len(more)].scope = "targeted" /\ ~more[Len(more)].verified
  BY <1>1, SuiteRecords
<1> HIDE DEF more
<1>3. /\ EvidenceTypes' /\ RecordsPast' /\ SuitesTrue' /\ ExpectedRecorded' /\ OutsideChangesShow'
      /\ Len(evidence) \in Nat
      /\ DOMAIN evidence' = 1..(Len(evidence) + Len(more))
      /\ \A i \in DOMAIN more : evidence'[Len(evidence) + i] = more[i]
  BY <1>1, <1>2, EvidenceSizes, RecordsKept
<1>4. SuiteLast'
  <2> DEFINE k == Len(evidence) + Len(more)
  <2>1. k \in DOMAIN evidence' /\ evidence'[k] = more[Len(more)]
    BY <1>2, <1>3
  <2>2. \A j \in DOMAIN evidence' : ~(j > k)
    BY <1>2, <1>3
  <2> HIDE DEF k
  <2> QED
    BY <2>1, <2>2, <1>2 DEF SuiteLast
<1>5. VerdictLast' /\ VerifiedSuiteHolds'
  BY <1>1 DEF EvidenceInv, VerdictLast, VerifiedSuiteHolds
<1> QED
  BY <1>3, <1>4, <1>5 DEF EvidenceInv, EvidenceHonest

LEMMA JudgeStep ==
    ASSUME EvidenceInv, NEW asked \in Asked, Judge(asked)
    PROVE  EvidenceInv'
<1>1. /\ phase = "checked" /\ phase' = "judged" /\ verdict' = Verdict(asked)
      /\ UNCHANGED files /\ evidence' = evidence /\ planned' = planned
      /\ mislabelled' = mislabelled
  BY DEF Judge
<1>2. ASSUME verdict' = "VERIFIED", ~mislabelled PROVE broken = {}
  <2>1. Stale(Proofs) = {} /\ \A e \in Effective : e.verified
    BY <1>1, <1>2 DEF Verdict
  <2>2. \A e \in Effective : e.rev = rev
    BY <2>1 DEF Stale, Proofs
  <2> DEFINE latest == {i \in DOMAIN evidence : evidence[i].about = "integrity" \/ ~Superseded(i)}
             covered(i) == /\ evidence[i].about = "test" /\ evidence[i].scope = "targeted"
                           /\ \E j \in latest : /\ evidence[j].verified
                                                /\ evidence[j].scope = "full_suite"
                                                /\ evidence[j].rev = evidence[i].rev
  <2>3. \A i \in latest : covered(i) \/ evidence[i] \in Effective
    BY DEF Effective
  <2>4. \A i \in latest : evidence[i].scope = "full_suite" => evidence[i] \in Effective
    BY <2>3
  <2>5. \A i \in latest : evidence[i].scope = "full_suite" => broken = {}
    <3>1. ASSUME NEW i \in latest, evidence[i].scope = "full_suite" PROVE broken = {}
      <4>1. evidence[i].verified /\ evidence[i].rev = rev /\ i \in DOMAIN evidence
        BY <2>1, <2>2, <2>4, <3>1
      <4> QED
        BY <4>1, <3>1, <1>2 DEF EvidenceInv, SuitesTrue
    <3> QED
      BY <3>1
  <2>6. PICK k \in DOMAIN evidence :
            /\ evidence[k].about = "test"
            /\ \/ evidence[k].scope = "full_suite"
               \/ evidence[k].scope = "targeted" /\ ~evidence[k].verified
            /\ \A j \in DOMAIN evidence : j > k => evidence[j].about = "integrity"
    BY <1>1 DEF EvidenceInv, SuiteLast
  <2>7. k \in latest
    BY <2>6 DEF Superseded, SameObligation
  <2>8. CASE evidence[k].scope = "full_suite"
    BY <2>5, <2>7, <2>8
  <2>9. CASE evidence[k].scope = "targeted" /\ ~evidence[k].verified
    <3>1. covered(k)
      BY <2>1, <2>3, <2>7, <2>9
    <3> QED
      BY <3>1, <2>5
  <2> QED
    BY <2>6, <2>8, <2>9
<1>3. VerifiedSuiteHolds' /\ VerdictLast'
  BY <1>1, <1>2 DEF VerifiedSuiteHolds, VerdictLast, files
<1>4. SuiteLast'
  BY <1>1 DEF EvidenceInv, SuiteLast
<1>5. EvidenceTypes' /\ RecordsPast' /\ SuitesTrue' /\ ExpectedRecorded' /\ OutsideChangesShow'
  BY <1>1 DEF EvidenceInv, EvidenceTypes, RecordsPast, SuitesTrue, ExpectedRecorded, EvidenceHonest,
     OutsideChangesShow, files, Present, PresentIn
<1> QED
  BY <1>3, <1>4, <1>5 DEF EvidenceInv, EvidenceHonest

LEMMA EvidenceStutter == ASSUME EvidenceInv, UNCHANGED evidenceVars PROVE EvidenceInv'
BY DEF EvidenceInv, evidenceVars, EvidenceTypes, RecordsPast, SuitesTrue, SuiteLast, ExpectedRecorded,
   EvidenceHonest, VerifiedSuiteHolds, OutsideChangesShow, VerdictLast, files, Present, PresentIn

\* Whatever is edited, changed behind the run, declared and tested, and in whatever order: no test
\* fails in a workspace that is judged VERIFIED, unless a run of a part was taken for the whole.
THEOREM EvidenceHonestHolds == EvidenceSpec => []EvidenceHonest
<1>1. EvidenceInv /\ [EvidenceNext]_evidenceVars => EvidenceInv'
  BY FileStep, StopStep, LoseStep, DeclaredStep, SuiteStep, JudgeStep, EvidenceStutter
     DEF EvidenceNext
<1>2. EvidenceInv => EvidenceHonest
  BY DEF EvidenceInv
<1> QED
  BY <1>1, <1>2, EvidenceStart, PTL DEF EvidenceSpec

-----------------------------------------------------------------------------
(* The release. *)

Ends == {"not", "passed", "failed", "lost"}
Sayings == {"failed", "benchmark", "offline", "version", "deploy"}

ReleaseTypes ==
    /\ tree \in Trees
    /\ shards \in [Shards -> {"none", "passed", "failed"}]
    /\ ended \in [Shards -> Ends] /\ matrix \in [Shards -> Ends]
    /\ stamp \in [Reports -> Nat] /\ redone \in Nat /\ DOMAIN says = Sayings
    /\ collected.reports \in [Reports -> Nat]

\* A report of a shard is of its last process; the evidence is of one of the trees.
ShardsFollow == \A s \in Shards : shards[s] # "none" => ended[s] = shards[s]
CollectedOfTree ==
    collected.made => \E t \in Trees : collected.version = t.version /\ collected.hash = t.hash

ReleaseInv ==
    ReleaseTypes /\ ShardsFollow /\ CollectedOfTree /\ MatrixComplete /\ ClaimsContained

-----------------------------------------------------------------------------
\* A host whose probes all came out well is one that contains its commands.
LEMMA QualifiedContains == \A h \in Hosts : qualify(h) => Contained(h)
BY DEF qualify, Contained, timeout_terminates_process_group, outside_read_denied,
   outside_write_denied, network_denied, workspace_write_allowed

\* No failure in the sum means that no shard failed.
LEMMA NoneFailed ==
    ASSUME NEW f, FailedIn(f) = 0
    PROVE  \A s \in Shards : f[s] # "failed"
<1> DEFINE bad == {s \in Shards : f[s] = "failed"}
<1>1. IsFiniteSet(bad)
  BY ReleaseAssumption, FS_Subset
<1>2. Cardinality(bad) = 0
  BY DEF FailedIn
<1>3. bad = {}
  BY <1>1, <1>2, FS_EmptySet
<1> QED
  BY <1>3

\* What is accepted is bound to what is there.
LEMMA BoundByEvidence ==
    ASSUME ReleaseInv
    PROVE  AcceptedIsBound
<1>1. ASSUME NEW c \in Accepted
      PROVE  /\ tree.defects = {}
             /\ c \in Bound =>
                  /\ collected.reports = stamp /\ collected.wheel = dist.stamp
                  /\ \A s \in Shards : matrix[s] = "passed"
                  /\ says.version = tree.version
  <2>1. PICK v \in {t.version : t \in Trees}, wheelGiven \in BOOLEAN, downgradeTested \in BOOLEAN :
            evaluate(c, v, wheelGiven, downgradeTested)
    BY <1>1 DEF Accepted
  <2>2. tree \in Trees
    BY DEF ReleaseInv, ReleaseTypes
  <2>3. tree.defects \subseteq Checks \cup {"secret"}
    BY <2>2, ReleaseAssumption
  <2>4. tree.defects = {}
    BY <2>1, <2>3 DEF evaluate, run_architecture_health, check, scan_source_secrets
  <2>5. ASSUME c \in Bound
        PROVE  /\ collected.reports = stamp /\ collected.wheel = dist.stamp
               /\ \A s \in Shards : matrix[s] = "passed"
               /\ says.version = tree.version
    <3>1. wheelGiven /\ BindingHolds(v, wheelGiven) /\ ReportsHold(v)
      BY <2>1, <2>5 DEF evaluate
    <3>2. /\ collected.made /\ collected.version = v /\ collected.hash = tree.hash
          /\ collected.failed = 0 /\ collected.wheel = dist.stamp
      BY <3>1 DEF BindingHolds, source_tree_sha256
    <3>3. /\ \A r \in Reports : stamp[r] # 0 /\ stamp[r] = collected.reports[r]
          /\ says.failed = collected.failed /\ says.version = v
      BY <3>1 DEF ReportsHold, ReportThere, Made
    <3>4. collected.reports = stamp
      BY <3>3 DEF ReleaseInv, ReleaseTypes
    <3>5. /\ \A s \in Shards : matrix[s] \in {"passed", "failed"}
          /\ says.failed = FailedIn(matrix)
      BY <3>3 DEF ReleaseInv, MatrixComplete, Made, Reports
    <3>6. \A s \in Shards : matrix[s] # "failed"
      BY <3>2, <3>3, <3>5, NoneFailed
    <3>7. PICK t \in Trees : collected.version = t.version /\ collected.hash = t.hash
      BY <3>2 DEF ReleaseInv, CollectedOfTree
    <3>8. t = tree
      BY <3>2, <3>7, <2>2, ReleaseAssumption
    <3> QED
      BY <3>2, <3>3, <3>4, <3>5, <3>6, <3>7, <3>8
  <2> QED
    BY <2>4, <2>5
<1> QED
  BY <1>1 DEF AcceptedIsBound

-----------------------------------------------------------------------------
LEMMA ReleaseStart == ReleaseInit => ReleaseInv
<1> SUFFICES ASSUME ReleaseInit PROVE ReleaseInv
  OBVIOUS
<1>1. ReleaseTypes
  BY ReleaseAssumption DEF ReleaseInit, ReleaseTypes, Ends, Sayings
<1>2. ShardsFollow /\ CollectedOfTree
  BY DEF ReleaseInit, ShardsFollow, CollectedOfTree
<1>3. MatrixComplete
  BY DEF ReleaseInit, MatrixComplete, Made, Reports
<1>4. ClaimsContained
  BY QualifiedContains DEF ReleaseInit, ClaimsContained, NoDeploy
<1> QED
  BY <1>1, <1>2, <1>3, <1>4 DEF ReleaseInv

LEMMA Restamped ==
    ASSUME ReleaseInv, NEW r \in Reports, Stamped(r)
    PROVE  /\ stamp' \in [Reports -> Nat] /\ stamp'[r] # 0
           /\ \A q \in Reports : q # r => stamp'[q] = stamp[q]
<1>1. stamp \in [Reports -> Nat] /\ redone \in Nat
  BY DEF ReleaseInv, ReleaseTypes
<1> QED
  BY <1>1 DEF Stamped

LEMMA Recounted ==
    ASSUME ReleaseInv, Counted \/ (\E b \in BOOLEAN : FreeIf(b))
    PROVE  redone' \in Nat
BY DEF ReleaseInv, ReleaseTypes, Counted, FreeIf

\* The steps that write neither the sum of the tests nor the claim about the host.
LEMMA OtherReportStep ==
    ASSUME ReleaseInv,
           EditTree \/ build_distributions \/ Benchmark \/ OfflineReliability \/ Sbom \/ Collect
    PROVE  ReleaseInv'
<1>0. ReleaseTypes /\ Sayings = {"failed", "benchmark", "offline", "version", "deploy"}
  BY DEF ReleaseInv, Sayings
<1>1. redone' \in Nat
  BY Recounted DEF EditTree, build_distributions, Benchmark, OfflineReliability, Sbom, Collect,
     FreeIf
<1>2. /\ shards' = shards /\ ended' = ended /\ matrix' = matrix
      /\ tree' \in Trees
  BY <1>0 DEF EditTree, build_distributions, Benchmark, OfflineReliability, Sbom, Collect,
     ReleaseTypes
<1>3. /\ stamp' \in [Reports -> Nat] /\ stamp'["junit"] = stamp["junit"]
  <2>1. \/ stamp' = stamp
        \/ \E r \in Reports : r # "junit" /\ Stamped(r)
    BY DEF EditTree, build_distributions, Benchmark, OfflineReliability, Sbom, Collect, Reports
  <2>2. "junit" \in Reports
    BY DEF Reports
  <2> QED
    BY <2>1, <2>2, <1>0, Restamped DEF ReleaseTypes
<1>4. DOMAIN says' = Sayings /\ says'.failed = says.failed /\ says'.deploy = says.deploy
  <2>1. DOMAIN says = Sayings
    BY <1>0 DEF ReleaseTypes
  <2>2. \/ says' = says
        \/ \E b : says' = [says EXCEPT !.benchmark = b]
        \/ \E b : says' = [says EXCEPT !.offline = b]
        \/ \E b : says' = [says EXCEPT !.version = b]
    BY DEF EditTree, build_distributions, Benchmark, OfflineReliability, Sbom, Collect
  <2> QED
    BY <2>1, <2>2 DEF Sayings
<1>5. /\ collected'.reports \in [Reports -> Nat]
      /\ CollectedOfTree'
  <2>1. CASE collected' = collected
    BY <2>1, <1>0 DEF ReleaseTypes, ReleaseInv, CollectedOfTree
  <2>2. CASE Collect
    <3>1. PICK failed, named :
              collected' = [made |-> TRUE, version |-> tree.version,
                            hash |-> source_tree_sha256(tree), failed |-> failed,
                            wheel |-> dist.stamp, reports |-> stamp, results |-> named]
      BY <2>2 DEF Collect
    <3>2. /\ collected'.version = tree.version /\ collected'.hash = tree.hash
          /\ collected'.reports = stamp
      BY <3>1 DEF source_tree_sha256
    <3> QED
      BY <3>2, <1>0 DEF ReleaseTypes, CollectedOfTree
  <2> QED
    BY <2>1, <2>2 DEF EditTree, build_distributions, Benchmark, OfflineReliability, Sbom
<1>6. ReleaseTypes'
  BY <1>0, <1>1, <1>2, <1>3, <1>4, <1>5 DEF ReleaseTypes
<1>7. ShardsFollow' /\ MatrixComplete' /\ ClaimsContained'
  BY <1>2, <1>3, <1>4 DEF ReleaseInv, ShardsFollow, MatrixComplete, Made, FailedIn, ClaimsContained,
     qualify, Contained, timeout_terminates_process_group, outside_read_denied,
     outside_write_denied, network_denied, workspace_write_allowed
<1> QED
  BY <1>5, <1>6, <1>7 DEF ReleaseInv

\* The steps of the test matrix.
LEMMA MatrixStep ==
    ASSUME ReleaseInv,
           Prepare \/ (\E s \in Shards : RunShard(s)) \/ Aggregate \/ run_isolated_tests
    PROVE  ReleaseInv'
<1>0. ReleaseTypes /\ Sayings = {"failed", "benchmark", "offline", "version", "deploy"}
  BY DEF ReleaseInv, Sayings
<1>1. redone' \in Nat
  BY Recounted DEF Prepare, RunShard, Aggregate, run_isolated_tests, FreeIf
<1>2. tree' = tree /\ collected' = collected /\ dist' = dist
  BY DEF Prepare, RunShard, Aggregate, run_isolated_tests
<1>3. DOMAIN says' = Sayings /\ says'.deploy = says.deploy
  BY <1>0 DEF Prepare, RunShard, Aggregate, run_isolated_tests, ReleaseTypes
<1>4. /\ shards' \in [Shards -> {"none", "passed", "failed"}] /\ ended' \in [Shards -> Ends]
      /\ ShardsFollow'
  <2>1. CASE Prepare
    BY <2>1 DEF Prepare, Ends, ShardsFollow
  <2>2. CASE \E s \in Shards : RunShard(s)
    <3>1. PICK s \in Shards, o \in {"passed", "failed", "lost"} :
              /\ ended' = [ended EXCEPT ![s] = o]
              /\ shards' = [shards EXCEPT ![s] = IF o = "lost" THEN "none" ELSE o]
      BY <2>2 DEF RunShard, Outcome, Unlinked
    <3> QED
      BY <3>1, <1>0 DEF ReleaseTypes, Ends, ShardsFollow, ReleaseInv
  <2>3. CASE Aggregate
    BY <2>3, <1>0 DEF Aggregate, ReleaseTypes, ShardsFollow, ReleaseInv
  <2>4. CASE run_isolated_tests
    BY <2>4 DEF run_isolated_tests, Outcome, Ends, ShardsFollow
  <2> QED
    BY <2>1, <2>2, <2>3, <2>4
<1>5. stamp' \in [Reports -> Nat] /\ matrix' \in [Shards -> Ends] /\ MatrixComplete'
  <2>0. "junit" \in Reports
    BY DEF Reports
  <2>1. CASE Prepare
    <3>1. stamp' = [stamp EXCEPT !["junit"] = 0] /\ matrix' = matrix
      BY <2>1 DEF Prepare
    <3> QED
      BY <3>1, <2>0, <1>0 DEF ReleaseTypes, MatrixComplete, Made
  <2>2. CASE \E s \in Shards : RunShard(s)
    BY <2>2, <1>0 DEF RunShard, ReleaseTypes, MatrixComplete, Made, FailedIn, ReleaseInv
  <2>3. CASE Aggregate
    <3>1. /\ \A s \in Shards : shards[s] # "none"
          /\ says' = [says EXCEPT !.failed = FailedIn(shards)]
          /\ matrix' = ended /\ Stamped("junit")
      BY <2>3 DEF Aggregate
    <3>2. \A s \in Shards : ended[s] = shards[s]
      BY <3>1 DEF ReleaseInv, ShardsFollow
    <3>3. FailedIn(ended) = FailedIn(shards)
      BY <3>2 DEF FailedIn
    <3>4. says'.failed = FailedIn(matrix')
      BY <3>1, <3>3, <1>0 DEF ReleaseTypes
    <3>5. \A s \in Shards : matrix'[s] \in {"passed", "failed"}
      BY <3>1, <3>2, <1>0 DEF ReleaseTypes
    <3>6. MatrixComplete'
      BY <3>4, <3>5 DEF MatrixComplete, FailedIn
    <3>7. stamp' \in [Reports -> Nat]
      BY <3>1, <2>0, Restamped
    <3> QED
      BY <3>1, <3>6, <3>7, <1>0 DEF ReleaseTypes
  <2>4. CASE run_isolated_tests
    <3> DEFINE all == [s \in Shards |-> Outcome(s)]
    <3>1. all \in [Shards -> {"passed", "failed"}]
      BY DEF Outcome
    <3>2. CASE FailedIn(all) = 0
      <4>1. says' = [says EXCEPT !.failed = 0] /\ Stamped("junit") /\ matrix' = all
        BY <2>4, <3>2 DEF run_isolated_tests
      <4> HIDE DEF all
      <4>2. says'.failed = 0
        BY <4>1, <1>0 DEF ReleaseTypes
      <4>3. MatrixComplete'
        BY <4>1, <4>2, <3>1, <3>2 DEF MatrixComplete, FailedIn
      <4>4. stamp' \in [Reports -> Nat]
        BY <4>1, <2>0, Restamped
      <4> QED
        BY <4>1, <4>3, <4>4, <3>1 DEF Ends
    <3>3. CASE FailedIn(all) # 0
      BY <2>4, <3>3, <1>0 DEF run_isolated_tests, ReleaseTypes, MatrixComplete, Made, FailedIn,
         ReleaseInv
    <3> QED
      BY <3>2, <3>3
  <2> QED
    BY <2>1, <2>2, <2>3, <2>4
<1>6. ReleaseTypes'
  BY <1>0, <1>1, <1>2, <1>3, <1>4, <1>5 DEF ReleaseTypes
<1>7. CollectedOfTree' /\ ClaimsContained'
  BY <1>2, <1>3 DEF ReleaseInv, CollectedOfTree, ClaimsContained, qualify, Contained,
     timeout_terminates_process_group, outside_read_denied, outside_write_denied, network_denied,
     workspace_write_allowed
<1> QED
  BY <1>4, <1>5, <1>6, <1>7 DEF ReleaseInv

LEMMA DeployStep ==
    ASSUME ReleaseInv, DeployCheck
    PROVE  ReleaseInv'
<1>0. ReleaseTypes /\ Sayings = {"failed", "benchmark", "offline", "version", "deploy"}
  BY DEF ReleaseInv, Sayings
<1>1. PICK found \in DeployReports : says' = [says EXCEPT !.deploy = found]
  BY DEF DeployCheck
<1>2. found.autonomous => found.contained /\ found.superior /\ found.supervised
  <2>1. PICK h \in Hosts, use \in DeployModes, deep \in BOOLEAN, workspaceOk \in BOOLEAN,
             offlineOk \in BOOLEAN, superior \in BOOLEAN :
            found = deploy_check(h, use, deep, workspaceOk, offlineOk, superior)
    BY <1>1 DEF DeployReports
  <2> QED
    BY <2>1, QualifiedContains DEF deploy_check
<1>3. /\ DOMAIN says' = Sayings /\ says'.failed = says.failed /\ says'.deploy = found
  BY <1>0, <1>1 DEF ReleaseTypes
<1>4. redone' \in Nat
  <2>1. redone' = redone \/ redone' = redone + 1
    <3>1. FreeIf(~Made("deploy_check"))
      BY DEF DeployCheck
    <3> QED
      BY <3>1 DEF FreeIf, Counted
  <2> QED
    BY <2>1, <1>0 DEF ReleaseTypes
<1>5. /\ tree' = tree /\ shards' = shards /\ ended' = ended /\ matrix' = matrix
      /\ collected' = collected /\ Stamped("deploy_check")
  BY DEF DeployCheck
<1>6. stamp' \in [Reports -> Nat] /\ stamp'["junit"] = stamp["junit"]
  BY <1>5, Restamped DEF Reports
<1>7. ReleaseTypes'
  BY <1>0, <1>3, <1>4, <1>5, <1>6 DEF ReleaseTypes
<1>8. ClaimsContained'
  BY <1>2, <1>3, QualifiedContains DEF ClaimsContained, qualify, Contained,
     timeout_terminates_process_group, outside_read_denied, outside_write_denied, network_denied,
     workspace_write_allowed
<1>9. ShardsFollow' /\ MatrixComplete' /\ CollectedOfTree'
  BY <1>3, <1>5, <1>6 DEF ReleaseInv, ShardsFollow, MatrixComplete, Made, FailedIn, CollectedOfTree
<1> QED
  BY <1>7, <1>8, <1>9 DEF ReleaseInv

LEMMA ReleaseStutter == ASSUME ReleaseInv, UNCHANGED releaseVars PROVE ReleaseInv'
BY DEF ReleaseInv, releaseVars, ReleaseTypes, ShardsFollow, MatrixComplete, Made, FailedIn,
   CollectedOfTree, ClaimsContained, qualify, Contained, timeout_terminates_process_group,
   outside_read_denied, outside_write_denied, network_denied, workspace_write_allowed

\* Whatever is edited, repeated, lost and collected in between, a release that is accepted on bound
\* evidence rests on the tree, the reports and the wheel that are there.
THEOREM ReleaseSoundHolds == ReleaseSpec => []ReleaseSound
<1>1. ReleaseInv /\ [ReleaseNext]_releaseVars => ReleaseInv'
  BY OtherReportStep, MatrixStep, DeployStep, ReleaseStutter DEF ReleaseNext
<1>2. ReleaseInv => ReleaseSound
  BY BoundByEvidence DEF ReleaseInv, ReleaseSound
<1> QED
  BY <1>1, <1>2, ReleaseStart, PTL DEF ReleaseSpec

-----------------------------------------------------------------------------
(* VerifiedTurn: what a report VERIFIED stands for.                        *)

\* What a record may be about.
Topics == Sources \union Commands
    \union {"narrow", "suite", "static", "probe", "diff", "brain", "contract", "workspace"}
RecordKinds ==
    {"mutation", "command", "behaviour", "check", "review", "semantic", "completion", "apply"}
Entries ==
    [kind : RecordKinds, about : Topics, status : {"verified", "failed", "unverified"},
     rev : Nat]

\* Edits and checks have an outcome, and nothing was checked at a revision still to come.
Judgeable(log, newest) ==
    \A i \in 1..Len(log) :
        /\ log[i].kind \in {"check", "mutation"} => log[i].status \in {"verified", "failed"}
        /\ log[i].rev <= newest

\* s is the last run of the whole suite that the log knows.
SuiteIs(log, s) ==
    \A i \in Of(log, 0, "check") :
        log[i].about = "suite" /\ (\A j \in Of(log, 0, "check") : j > i => log[j].about # "suite")
            => s = [rev |-> log[i].rev, ok |-> log[i].status = "verified"]

HasEdit(log, from) == Of(log, from, "mutation") # {}
Reviewed(log, from, status) ==
    \E i \in from + 1..Len(log) : log[i].kind = "review" /\ log[i].status = status
Approved(log, from) == Reviewed(log, from, "verified")
Refused(log, from) == Reviewed(log, from, "failed")

\* What a stage found wrong and the semantic check or the finalizer will find again.
EditFailed(log, from) == \E i \in CurrentMutations(log, from) : log[i].status = "failed"
CheckFailed(log, from) == \E i \in CurrentChecks(log, from) : log[i].status = "failed"

Stages == {"idle", "execute", "verify", "verify again", "verify last", "repair", "repair review",
           "review", "review last", "judge", "decided", "resumed"}

VerifyShape ==
    /\ stage \in Stages
    /\ trail \in Seq(Entries) /\ start \in 0..Len(trail) /\ edited \in Nat
    /\ revs \in [now : Nat, base : Nat, newest : Nat]
    /\ revs.now <= revs.newest /\ revs.base <= revs.newest

TrailSound ==
    /\ Judgeable(trail, revs.newest)
    /\ policy.tests => SuiteIs(trail, suite)
    /\ edited > 0 => HasEdit(trail, start)

\* Until the turn is judged nothing is reported and nothing approved; a repair has a reason, and a
\* refusal stays one.
StageKnown ==
    /\ stage \notin {"idle", "decided", "resumed"} => report = NoReport
    /\ stage \notin {"idle", "decided", "resumed", "judge"} => ~Approved(trail, start)
    /\ stage = "repair" => EditFailed(trail, start) \/ CheckFailed(trail, start)
    /\ stage \in {"repair review", "verify last", "review last"} => Refused(trail, start)
    /\ stage = "judge" /\ edited > 0 =>
           \/ reviewed = revs.now
           \/ EditFailed(trail, start) \/ CheckFailed(trail, start) \/ Refused(trail, start)

VerifyInv ==
    VerifyShape /\ TrailSound /\ StageKnown /\ VerifiedIsCurrent /\ VerifiedIsReviewed

-----------------------------------------------------------------------------
(* How a log grows by one record. *)

LEMMA LastPosition ==
    ASSUME NEW n \in Nat, NEW S \in SUBSET (1..n), S # {}
    PROVE  \E i \in S : \A j \in S : j <= i
<1> DEFINE T == {n - i : i \in S}
<1>1. ASSUME NEW t \in T PROVE t \in Nat
  <2>1. PICK i \in S : t = n - i
    OBVIOUS
  <2> QED BY <2>1
<1>2. T # {} /\ T \in SUBSET Nat
  BY <1>1
<1>3. PICK t \in T : \A u \in T : <<u, t>> \notin OpToRel(<, Nat)
  <2> HIDE DEF T
  <2> QED BY <1>2, NatLessThanWellFounded, WFMin, Zenon
<1>4. \A u \in T : ~(u < t)
  <2> HIDE DEF T
  <2> QED BY <1>2, <1>3, Zenon DEF OpToRel
<1>5. PICK i \in S : t = n - i
  OBVIOUS
<1>6. ASSUME NEW j \in S PROVE j <= i
  <2>1. n - j \in T
    OBVIOUS
  <2>2. ~(n - j < n - i)
    BY <2>1, <1>4, <1>5
  <2> HIDE DEF T
  <2> QED BY <2>2
<1> QED BY <1>6

LEMMA Appended ==
    ASSUME NEW log \in Seq(Entries), NEW e \in Entries
    PROVE  /\ Append(log, e) \in Seq(Entries) /\ Len(Append(log, e)) = Len(log) + 1
           /\ Append(log, e)[Len(log) + 1] = e
           /\ \A i \in 1..Len(log) : Append(log, e)[i] = log[i]
OBVIOUS

LEMMA OfAppended ==
    ASSUME NEW log \in Seq(Entries), NEW e \in Entries, NEW from \in 0..Len(log), NEW kind
    PROVE  /\ Of(Append(log, e), from, kind) =
                  Of(log, from, kind) \union (IF e.kind = kind THEN {Len(log) + 1} ELSE {})
           /\ Of(log, from, kind) \subseteq 1..Len(log)
<1> DEFINE new == Append(log, e)
<1>1. /\ Len(new) = Len(log) + 1 /\ new[Len(log) + 1] = e
      /\ \A i \in 1..Len(log) : new[i] = log[i]
  BY Appended
<1> HIDE DEF new
<1>2. from + 1..Len(new) = (from + 1..Len(log)) \union {Len(log) + 1}
  BY <1>1
<1>3. from + 1..Len(log) \subseteq 1..Len(log)
  OBVIOUS
<1>4. \A i \in from + 1..Len(log) : new[i] = log[i] /\ i # Len(log) + 1
  BY <1>1, <1>3
<1>5. Of(new, from, kind) =
          Of(log, from, kind) \union (IF e.kind = kind THEN {Len(log) + 1} ELSE {})
  BY <1>1, <1>2, <1>4 DEF Of
<1> QED
  BY <1>3, <1>5 DEF Of, new

LEMMA JudgeableAppended ==
    ASSUME NEW log \in Seq(Entries), NEW e \in Entries, NEW m \in Nat, Judgeable(log, m),
           e.rev <= m, e.kind \in {"check", "mutation"} => e.status \in {"verified", "failed"}
    PROVE  Judgeable(Append(log, e), m)
<1> DEFINE new == Append(log, e)
<1>1. /\ Len(new) = Len(log) + 1 /\ new[Len(log) + 1] = e
      /\ \A i \in 1..Len(log) : new[i] = log[i]
  BY Appended
<1> HIDE DEF new
<1>2. \A i \in 1..Len(new) : i \in 1..Len(log) \/ i = Len(log) + 1
  BY <1>1
<1>3. Judgeable(new, m)
  BY <1>1, <1>2 DEF Judgeable
<1> QED
  BY <1>3 DEF new

\* What was found in the log is still found, and nothing was approved or refused but by e.
LEMMA FindingsAppended ==
    ASSUME NEW log \in Seq(Entries), NEW e \in Entries, NEW from \in 0..Len(log)
    PROVE  /\ HasEdit(log, from) \/ e.kind = "mutation" => HasEdit(Append(log, e), from)
           /\ \/ Refused(log, from)
              \/ e.kind = "review" /\ e.status = "failed"
              => Refused(Append(log, e), from)
           /\ Approved(Append(log, e), from) =>
                  Approved(log, from) \/ (e.kind = "review" /\ e.status = "verified")
<1> DEFINE new == Append(log, e)
<1>1. /\ Len(new) = Len(log) + 1 /\ new[Len(log) + 1] = e
      /\ \A i \in 1..Len(log) : new[i] = log[i]
  BY Appended
<1>2. HasEdit(log, from) \/ e.kind = "mutation" => HasEdit(new, from)
  BY OfAppended DEF HasEdit
<1> HIDE DEF new
<1>3. from + 1..Len(new) = (from + 1..Len(log)) \union {Len(log) + 1}
  BY <1>1
<1>4. \A i \in from + 1..Len(log) : new[i] = log[i]
  BY <1>1
<1>5. \/ Refused(log, from)
      \/ e.kind = "review" /\ e.status = "failed"
      => Refused(new, from)
  BY <1>1, <1>3, <1>4 DEF Refused, Reviewed
<1>6. Approved(new, from) => Approved(log, from) \/ (e.kind = "review" /\ e.status = "verified")
  BY <1>1, <1>3, <1>4 DEF Approved, Reviewed
<1> QED
  BY <1>2, <1>5, <1>6 DEF new

LEMMA SuiteAppended ==
    ASSUME NEW log \in Seq(Entries), NEW e \in Entries
    PROVE  /\ \A s : SuiteIs(log, s) /\ (e.kind # "check" \/ e.about # "suite")
                  => SuiteIs(Append(log, e), s)
           /\ e.kind = "check" /\ e.about = "suite"
                  => SuiteIs(Append(log, e), [rev |-> e.rev, ok |-> e.status = "verified"])
<1> DEFINE new == Append(log, e)
           old == Of(log, 0, "check")
<1>1. /\ Len(new) = Len(log) + 1 /\ new[Len(log) + 1] = e
      /\ \A i \in 1..Len(log) : new[i] = log[i]
  BY Appended
<1>2. /\ Of(new, 0, "check") = old \union (IF e.kind = "check" THEN {Len(log) + 1} ELSE {})
      /\ old \subseteq 1..Len(log)
  BY OfAppended
<1> HIDE DEF new
<1> HIDE DEF old
<1>3. \A i \in old : new[i] = log[i] /\ i < Len(log) + 1 /\ i # Len(log) + 1
  BY <1>1, <1>2
<1>4. ASSUME NEW s, SuiteIs(log, s), e.kind # "check" \/ e.about # "suite"
      PROVE  SuiteIs(new, s)
  <2> SUFFICES ASSUME NEW i \in Of(new, 0, "check"), new[i].about = "suite",
                      \A j \in Of(new, 0, "check") : j > i => new[j].about # "suite"
               PROVE  s = [rev |-> new[i].rev, ok |-> new[i].status = "verified"]
    BY Zenon DEF SuiteIs
  <2>1. i \in old
    BY <1>1, <1>2, <1>4
  <2>2. \A j \in old : j > i => log[j].about # "suite"
    BY <1>2, <1>3
  <2> QED
    BY <1>3, <1>4, <2>1, <2>2, Zenon DEF SuiteIs, old
<1>5. ASSUME e.kind = "check", e.about = "suite"
      PROVE  SuiteIs(new, [rev |-> e.rev, ok |-> e.status = "verified"])
  <2> SUFFICES ASSUME NEW i \in Of(new, 0, "check"), new[i].about = "suite",
                      \A j \in Of(new, 0, "check") : j > i => new[j].about # "suite"
               PROVE  i = Len(log) + 1
    BY <1>1, Zenon DEF SuiteIs
  <2>1. Len(log) + 1 \in Of(new, 0, "check") /\ new[Len(log) + 1].about = "suite"
    BY <1>1, <1>2, <1>5
  <2>2. i \in old => Len(log) + 1 > i
    BY <1>3
  <2> QED
    BY <1>2, <1>5, <2>1, <2>2
<1> QED
  BY <1>4, <1>5, Zenon DEF new

\* A failure is found as long as nothing newer is about the same.
LEMMA FailureAppended ==
    ASSUME NEW log \in Seq(Entries), NEW e \in Entries, NEW from \in 0..Len(log),
           e.status = "failed"
    PROVE  /\ e.kind = "mutation" => EditFailed(Append(log, e), from)
           /\ /\ e.kind = "check"
              /\ e.about # "narrow" \/ \A i \in Of(log, from, "check") : log[i].rev # e.rev
              => CheckFailed(Append(log, e), from)
<1> DEFINE new == Append(log, e)
           n == Len(log) + 1
<1>1. /\ Len(new) = Len(log) + 1 /\ new[n] = e
      /\ \A i \in 1..Len(log) : new[i] = log[i]
  BY Appended
<1>2. /\ Of(new, from, "mutation") =
             Of(log, from, "mutation") \union (IF e.kind = "mutation" THEN {n} ELSE {})
      /\ Of(new, from, "check") =
             Of(log, from, "check") \union (IF e.kind = "check" THEN {n} ELSE {})
      /\ Of(log, from, "mutation") \subseteq 1..Len(log)
      /\ Of(log, from, "check") \subseteq 1..Len(log)
  BY OfAppended
<1> HIDE DEF new
<1>3. \A i \in 1..Len(log) : ~(i > n) /\ i # n
  OBVIOUS
<1>4. ~(n > n)
  OBVIOUS
<1> HIDE DEF n
<1>5. e.kind = "mutation" => EditFailed(new, from)
  <2> SUFFICES ASSUME e.kind = "mutation"
               PROVE  EditFailed(new, from)
    OBVIOUS
  <2>1. n \in Of(new, from, "mutation") /\ \A j \in Of(new, from, "mutation") : ~(j > n)
    BY <1>2, <1>3, <1>4
  <2>2. n \in CurrentMutations(new, from)
    BY <2>1 DEF CurrentMutations, Latest
  <2> QED
    BY <1>1, <2>2 DEF EditFailed
<1>6. /\ e.kind = "check"
      /\ e.about # "narrow" \/ \A i \in Of(log, from, "check") : log[i].rev # e.rev
      => CheckFailed(new, from)
  <2> SUFFICES ASSUME e.kind = "check",
                      e.about # "narrow" \/ \A i \in Of(log, from, "check") : log[i].rev # e.rev
               PROVE  CheckFailed(new, from)
    OBVIOUS
  <2> DEFINE latest == Latest(new, Of(new, from, "check"))
  <2>1. n \in Of(new, from, "check") /\ \A j \in Of(new, from, "check") : ~(j > n)
    BY <1>2, <1>3, <1>4
  <2>2. n \in latest
    BY <2>1 DEF Latest
  <2>3. ~(/\ new[n].about = "narrow"
          /\ \E j \in latest : /\ new[j].about = "suite" /\ new[j].status = "verified"
                               /\ new[j].rev = new[n].rev)
    <3> SUFFICES ASSUME e.about = "narrow", NEW j \in latest, new[j].about = "suite",
                        new[j].rev = e.rev
                 PROVE  FALSE
      BY <1>1
    <3>1. j \in Of(log, from, "check")
      BY <1>1, <1>2 DEF Latest
    <3> QED
      BY <1>1, <1>2, <3>1
  <2> HIDE DEF latest
  <2>4. n \in CurrentChecks(new, from)
    BY <2>2, <2>3 DEF CurrentChecks, latest
  <2> QED
    BY <1>1, <2>4 DEF CheckFailed
<1> QED
  BY <1>5, <1>6 DEF new

-----------------------------------------------------------------------------
(* What the judges find. *)

LEMMA ChecksThere ==
    ASSUME NEW log \in Seq(Entries), NEW from \in 0..Len(log), Of(log, from, "check") # {}
    PROVE  CurrentChecks(log, from) # {}
<1> DEFINE checks == Of(log, from, "check")
           latest == Latest(log, checks)
<1>1. checks \in SUBSET (1..Len(log)) /\ Len(log) \in Nat
  BY DEF Of
<1>2. PICK i \in checks : \A j \in checks : j <= i
  BY <1>1, LastPosition
<1>3. \A j \in checks : ~(j > i)
  BY <1>1, <1>2
<1>4. i \in latest
  BY <1>3 DEF Latest
<1> HIDE DEF checks
<1>5. \/ i \in CurrentChecks(log, from)
      \/ \E j \in latest : log[j].about = "suite"
  BY <1>4 DEF CurrentChecks, checks
<1>6. \A j \in latest : log[j].about = "suite" => j \in CurrentChecks(log, from)
  BY DEF CurrentChecks, checks
<1> QED
  BY <1>5, <1>6

LEMMA NotAllVerified ==
    ASSUME NEW log \in Seq(Entries), NEW from \in 0..Len(log), NEW m, Judgeable(log, m),
           Of(log, from, "check") # {}, ~AllVerified(log, from)
    PROVE  EditFailed(log, from) \/ CheckFailed(log, from)
<1>1. CurrentChecks(log, from) # {}
  BY ChecksThere
<1>2. \A kind : Of(log, from, kind) \subseteq 1..Len(log)
  BY DEF Of
<1>3. \A i \in CurrentMutations(log, from) : log[i].status \in {"verified", "failed"}
  BY <1>2 DEF CurrentMutations, Latest, Judgeable, Of
<1>4. \A i \in CurrentChecks(log, from) : log[i].status \in {"verified", "failed"}
  BY <1>2 DEF CurrentChecks, Latest, Judgeable, Of
<1> QED
  BY <1>1, <1>3, <1>4 DEF AllVerified, EditFailed, CheckFailed, Verified

\* What the turn finds, the finalizer finds in the whole log.
LEMMA FoundInWhole ==
    ASSUME NEW log \in Seq(Entries), NEW from \in 0..Len(log), EditFailed(log, from)
    PROVE  EditFailed(log, 0)
<1>1. PICK i \in CurrentMutations(log, from) : log[i].status = "failed"
  BY DEF EditFailed
<1>2. i \in from + 1..Len(log) /\ log[i].kind = "mutation"
  BY <1>1 DEF CurrentMutations, Latest, Of
<1>3. \A j \in Of(log, 0, "mutation") : j > i => j \in Of(log, from, "mutation")
  BY <1>2 DEF Of
<1>4. i \in Of(log, 0, "mutation")
  BY <1>2 DEF Of
<1>5. \A j \in Of(log, 0, "mutation") : j > i => log[j].about # log[i].about
  BY <1>1, <1>3 DEF CurrentMutations, Latest
<1>6. i \in CurrentMutations(log, 0)
  BY <1>4, <1>5 DEF CurrentMutations, Latest
<1> QED
  BY <1>1, <1>6 DEF EditFailed

\* What a stage finds wrong, it still finds in a log that grew; here with all that an invariant
\* says of the log.
LEMMA EntryMade ==
    ASSUME NEW kind \in RecordKinds, NEW about \in Topics,
           NEW status \in {"verified", "failed", "unverified"}, NEW r \in Nat
    PROVE  /\ Entry(kind, about, status, r) \in Entries
           /\ Entry(kind, about, status, r).kind = kind
           /\ Entry(kind, about, status, r).about = about
           /\ Entry(kind, about, status, r).status = status
           /\ Entry(kind, about, status, r).rev = r
BY DEF Entry, Entries

LEMMA RecordAppended ==
    ASSUME NEW log \in Seq(Entries), NEW e \in Entries, NEW from \in 0..Len(log), NEW m \in Nat,
           Judgeable(log, m), e.rev <= m,
           e.kind \in {"check", "mutation"} => e.status \in {"verified", "failed"}
    PROVE  /\ Append(log, e) \in Seq(Entries) /\ from \in 0..Len(Append(log, e))
           /\ Judgeable(Append(log, e), m)
           /\ HasEdit(log, from) \/ e.kind = "mutation" => HasEdit(Append(log, e), from)
           /\ Refused(log, from) => Refused(Append(log, e), from)
           /\ e.kind = "review" /\ e.status = "failed" => Refused(Append(log, e), from)
           /\ Approved(Append(log, e), from) =>
                  Approved(log, from) \/ (e.kind = "review" /\ e.status = "verified")
           /\ \A s : SuiteIs(log, s) /\ (e.kind # "check" \/ e.about # "suite")
                  => SuiteIs(Append(log, e), s)
<1>1. Append(log, e) \in Seq(Entries) /\ Len(Append(log, e)) = Len(log) + 1
  BY Appended
<1>2. from \in 0..Len(Append(log, e))
  BY <1>1
<1>3. Judgeable(Append(log, e), m)
  BY JudgeableAppended
<1>4. \A s : SuiteIs(log, s) /\ (e.kind # "check" \/ e.about # "suite")
                  => SuiteIs(Append(log, e), s)
  BY SuiteAppended, Zenon
<1>5. /\ HasEdit(log, from) \/ e.kind = "mutation" => HasEdit(Append(log, e), from)
      /\ \/ Refused(log, from)
         \/ e.kind = "review" /\ e.status = "failed"
         => Refused(Append(log, e), from)
      /\ Approved(Append(log, e), from) =>
             Approved(log, from) \/ (e.kind = "review" /\ e.status = "verified")
  BY FindingsAppended, Zenon
<1> QED
  BY <1>1, <1>2, <1>3, <1>4, <1>5, Zenon

LEMMA LaterStillJudgeable ==
    ASSUME NEW log \in Seq(Entries), NEW m \in Nat, NEW n \in Nat, m <= n, Judgeable(log, m)
    PROVE  Judgeable(log, n)
<1>1. \A i \in 1..Len(log) : log[i] \in Entries
  OBVIOUS
<1>2. \A i \in 1..Len(log) : log[i].rev \in Nat
  BY <1>1 DEF Entries
<1> QED BY <1>2 DEF Judgeable

\* The suite of the verifier writes its report, and a failure of it is found.
LEMMA SuiteReported ==
    ASSUME NEW log \in Seq(Entries), NEW from \in 0..Len(log), NEW m \in Nat, Judgeable(log, m),
           NEW r \in 0..m, NEW narrow \in Narrow, NEW ok \in BOOLEAN,
           policy.tests => SuiteIs(log, suite)
    PROVE  /\ log \o SuiteReport(narrow, ok, r) \in Seq(Entries)
           /\ from \in 0..Len(log \o SuiteReport(narrow, ok, r))
           /\ Judgeable(log \o SuiteReport(narrow, ok, r), m)
           /\ policy.tests => SuiteIs(log \o SuiteReport(narrow, ok, r), Ran(narrow, ok, r))
           /\ HasEdit(log, from) => HasEdit(log \o SuiteReport(narrow, ok, r), from)
           /\ Refused(log, from) => Refused(log \o SuiteReport(narrow, ok, r), from)
           /\ Approved(log \o SuiteReport(narrow, ok, r), from) => Approved(log, from)
           /\ Of(log \o SuiteReport(narrow, ok, r), from, "check") # {}
           /\ /\ narrow = "failed" \/ ~ok
              /\ \A i \in Of(log, from, "check") : log[i].rev # r
              => CheckFailed(log \o SuiteReport(narrow, ok, r), from)
<1> DEFINE a == Entry("check", "narrow", IF narrow = "failed" THEN "failed" ELSE "verified", r)
           b == Entry("check", Gate, Status(ok), r)
           one == Append(log, a)
<1>1. Gate \in Topics /\ Gate \in {"suite", "static"} /\ "narrow" \in Topics
  BY DEF Gate, Topics
<1>2. Status(ok) \in {"verified", "failed"} /\ (ok => Status(ok) = "verified")
                                           /\ (~ok => Status(ok) = "failed")
  BY DEF Status
<1>3. /\ a \in Entries /\ a.kind = "check" /\ a.about = "narrow" /\ a.rev = r
      /\ a.status = (IF narrow = "failed" THEN "failed" ELSE "verified")
  BY <1>1, EntryMade DEF RecordKinds
<1>4. /\ b \in Entries /\ b.kind = "check" /\ b.about = Gate /\ b.rev = r
      /\ b.status = Status(ok)
  BY <1>1, <1>2, EntryMade DEF RecordKinds
<1>5. /\ narrow = "failed" => log \o SuiteReport(narrow, ok, r) = Append(log, a)
      /\ narrow = "passed" => log \o SuiteReport(narrow, ok, r) = Append(one, b)
      /\ narrow = "none" => log \o SuiteReport(narrow, ok, r) = Append(log, b)
  <2>1. narrow = "failed" => SuiteReport(narrow, ok, r) = <<a>>
    BY DEF SuiteReport
  <2>2. narrow = "passed" => SuiteReport(narrow, ok, r) = <<a, b>>
    BY DEF SuiteReport
  <2>3. narrow = "none" => SuiteReport(narrow, ok, r) = <<b>>
    BY DEF SuiteReport
  <2>4. log \o <<a>> = Append(log, a) /\ log \o <<b>> = Append(log, b)
    <3> HIDE DEF a, b
    <3> QED BY <1>3, <1>4
  <2>5. log \o <<a, b>> = Append(Append(log, a), b)
    <3> HIDE DEF a, b
    <3> QED BY <1>3, <1>4
  <2> QED
    BY <2>1, <2>2, <2>3, <2>4, <2>5
<1>6. (policy.tests => Gate = "suite") /\ (~policy.tests => Gate # "suite") /\ Gate # "narrow"
  BY DEF Gate
<1>7. /\ policy.tests /\ narrow # "failed" => Ran(narrow, ok, r) = [rev |-> r, ok |-> ok]
      /\ narrow = "failed" => Ran(narrow, ok, r) = suite
  BY DEF Ran
<1> HIDE DEF a, b
<1> DEFINE Good(new, s, failing) ==
               /\ new \in Seq(Entries) /\ from \in 0..Len(new)
               /\ Judgeable(new, m)
               /\ policy.tests => SuiteIs(new, s)
               /\ HasEdit(log, from) => HasEdit(new, from)
               /\ Refused(log, from) => Refused(new, from)
               /\ Approved(new, from) => Approved(log, from)
               /\ Of(new, from, "check") # {}
               /\ /\ failing
                  /\ \A i \in Of(log, from, "check") : log[i].rev # r
                  => CheckFailed(new, from)
<1>8. Good(one, suite, narrow = "failed")
  <2>1. a.rev <= m /\ (a.kind \in {"check", "mutation"} => a.status \in {"verified", "failed"})
    BY <1>3
  <2>2. /\ one \in Seq(Entries) /\ from \in 0..Len(one)
        /\ Judgeable(one, m)
        /\ HasEdit(log, from) => HasEdit(one, from)
        /\ Refused(log, from) => Refused(one, from)
        /\ Approved(one, from) => Approved(log, from)
        /\ \A s : SuiteIs(log, s) => SuiteIs(one, s)
    BY <1>3, <2>1, RecordAppended
  <2>3. Of(one, from, "check") # {}
    BY <1>3, OfAppended
  <2>4. narrow = "failed" /\ (\A i \in Of(log, from, "check") : log[i].rev # r)
            => CheckFailed(one, from)
    BY <1>3, FailureAppended
  <2> QED
    BY <2>2, <2>3, <2>4, Zenon
<1>9. ASSUME NEW old \in Seq(Entries), from \in 0..Len(old), Judgeable(old, m),
             HasEdit(log, from) => HasEdit(old, from),
             Refused(log, from) => Refused(old, from),
             Approved(old, from) => Approved(log, from)
      PROVE  Good(Append(old, b), [rev |-> r, ok |-> ok], ~ok)
  <2> DEFINE new == Append(old, b)
  <2>1. b.rev <= m /\ (b.kind \in {"check", "mutation"} => b.status \in {"verified", "failed"})
    BY <1>2, <1>4
  <2>2. /\ new \in Seq(Entries) /\ from \in 0..Len(new)
        /\ Judgeable(new, m)
        /\ HasEdit(old, from) => HasEdit(new, from)
        /\ Refused(old, from) => Refused(new, from)
        /\ Approved(new, from) => Approved(old, from)
    BY <1>4, <1>9, <2>1, RecordAppended
  <2>3. Of(new, from, "check") # {}
    <3> HIDE DEF Good
    <3>0. b \in Entries /\ old \in Seq(Entries) /\ from \in 0..Len(old)
      BY <1>4, <1>9
    <3>1. Of(Append(old, b), from, "check") =
              Of(old, from, "check") \union (IF b.kind = "check" THEN {Len(old) + 1} ELSE {})
      BY <3>0, OfAppended
    <3> QED BY <1>4, <3>1
  <2>4. ~ok => CheckFailed(new, from)
    BY <1>2, <1>4, <1>6, <1>9, FailureAppended
  <2>5. (b.status = "verified") = ok
    BY <1>2, <1>4
  <2>6. policy.tests => SuiteIs(new, [rev |-> r, ok |-> ok])
    <3>1. policy.tests => SuiteIs(new, [rev |-> b.rev, ok |-> b.status = "verified"])
      BY <1>4, <1>6, <1>9, SuiteAppended
    <3> QED
      BY <1>4, <2>5, <3>1
  <2> QED
    BY <1>9, <2>2, <2>3, <2>4, <2>6, Zenon
<1> DEFINE all == log \o SuiteReport(narrow, ok, r)
           final == Ran(narrow, ok, r)
           failing == narrow = "failed" \/ ~ok
<1> HIDE DEF one
<1> HIDE DEF Good
<1>10. narrow = "failed" => Good(all, final, failing)
  <2> SUFFICES ASSUME narrow = "failed"
               PROVE  Good(all, final, failing)
    OBVIOUS
  <2>1. log \o SuiteReport(narrow, ok, r) = one /\ Ran(narrow, ok, r) = suite
    BY <1>5, <1>7 DEF one
  <2> QED
    BY <1>8, <2>1, Zenon DEF Good
<1>11. narrow = "passed" => Good(all, final, failing)
  <2> SUFFICES ASSUME narrow = "passed"
               PROVE  Good(all, final, failing)
    OBVIOUS
  <2>0. narrow # "failed"
    OBVIOUS
  <2>1. Good(Append(one, b), [rev |-> r, ok |-> ok], ~ok)
    <3>1. /\ one \in Seq(Entries) /\ from \in 0..Len(one) /\ Judgeable(one, m)
          /\ HasEdit(log, from) => HasEdit(one, from)
          /\ Refused(log, from) => Refused(one, from)
          /\ Approved(one, from) => Approved(log, from)
      BY <1>8, Zenon DEF Good
    <3> QED BY <1>9, <3>1, Zenon
  <2> QED
    BY <1>5, <1>7, <2>0, <2>1, Zenon DEF Good
<1>12. narrow = "none" => Good(all, final, failing)
  <2> SUFFICES ASSUME narrow = "none"
               PROVE  Good(all, final, failing)
    OBVIOUS
  <2>0. narrow # "failed"
    OBVIOUS
  <2>1. Good(Append(log, b), [rev |-> r, ok |-> ok], ~ok)
    BY <1>9, Zenon
  <2> QED
    BY <1>5, <1>7, <2>0, <2>1, Zenon DEF Good
<1>13. Good(all, final, failing)
  BY <1>10, <1>11, <1>12 DEF Narrow
<1> QED
  BY <1>13, Zenon DEF Good

-----------------------------------------------------------------------------
(* The report. *)

\* A VERIFIED judgement rests on a passing run of the whole suite at this revision, and on no edit
\* whose last outcome is a failure.
LEMMA JudgedVerified ==
    ASSUME VerifyShape, TrailSound, edited > 0, NEW toolFailures, Judged(toolFailures) = "VERIFIED"
    PROVE  /\ policy.tests => suite = [rev |-> revs.now, ok |-> TRUE]
           /\ ~EditFailed(trail, start)
<1>1. ~FailedEvidence /\ CriteriaMet
  BY DEF Judged
<1>2. ~EditFailed(trail, 0)
  BY <1>1 DEF FailedEvidence, EditFailed, FinalStart
<1>3. ~EditFailed(trail, start)
  BY <1>2, FoundInWhole DEF VerifyShape
<1>4. ASSUME policy.tests
      PROVE  suite = [rev |-> revs.now, ok |-> TRUE]
  <2>1. SuitePassed
    BY <1>1, <1>4 DEF CriteriaMet
  <2>2. PICK i \in PassingChecks : trail[i].about = "suite"
    BY <2>1 DEF SuitePassed
  <2>3. /\ i \in CurrentChecks(trail, 0) /\ trail[i].rev = revs.now
        /\ trail[i].status = "verified"
    BY <2>2 DEF PassingChecks, Verified, BoundTo, FinalStart
  <2>4. /\ i \in Of(trail, 0, "check")
        /\ \A j \in Of(trail, 0, "check") : j > i => trail[j].about # trail[i].about
    BY <2>3 DEF CurrentChecks, Latest
  <2>5. SuiteIs(trail, suite)
    BY <1>4 DEF TrailSound
  <2>6. suite = [rev |-> trail[i].rev, ok |-> trail[i].status = "verified"]
    BY <2>2, <2>4, <2>5, Zenon DEF SuiteIs
  <2> QED
    BY <2>3, <2>6
<1> QED
  BY <1>3, <1>4

Semantics == {"none", "PARTIAL", "FAILED", "VERIFIED"}

LEMMA Finished ==
    ASSUME VerifyShape, TrailSound, NEW override, NEW semantic \in Semantics, NEW toolFailures,
           NEW complete \in BOOLEAN, NEW applies \in BOOLEAN, NEW by,
           Finish(override, semantic, toolFailures, complete, applies, by)
    PROVE  /\ trail' \in Seq(Entries) /\ start \in 0..Len(trail')
           /\ Judgeable(trail', revs.newest)
           /\ policy.tests => SuiteIs(trail', suite)
           /\ edited > 0 => HasEdit(trail', start)
           /\ report'.rev = revs.now /\ report'.edited = (edited > 0) /\ report'.by = by
           /\ report'.status = "VERIFIED" => 
                  override = "VERIFIED" \/ (override = "none" /\ Judged(toolFailures) = "VERIFIED")
<1> DEFINE Fine(log) ==
               /\ log \in Seq(Entries) /\ start \in 0..Len(log)
               /\ Judgeable(log, revs.newest)
               /\ policy.tests => SuiteIs(log, suite)
               /\ edited > 0 => HasEdit(log, start)
           Closing == {"semantic", "completion", "apply"}
<1>1. ASSUME NEW log, Fine(log), NEW kind \in Closing,
             NEW about \in {"brain", "contract", "workspace"},
             NEW status \in {"verified", "failed", "unverified"}
      PROVE  Fine(log \o <<Entry(kind, about, status, 0)>>)
  <2> DEFINE e == Entry(kind, about, status, 0)
  <2>0. kind \in RecordKinds /\ about \in Topics /\ 0 \in Nat
    BY DEF RecordKinds, Topics
  <2>1. e \in Entries /\ e.kind = kind /\ e.rev = 0
    BY <2>0, EntryMade
  <2>2. revs.newest \in Nat
    BY DEF VerifyShape
  <2> HIDE DEF e
  <2>3. e.rev <= revs.newest /\ e.kind \notin {"check", "mutation", "review"}
    BY <2>1, <2>2
  <2>4. /\ Append(log, e) \in Seq(Entries) /\ start \in 0..Len(Append(log, e))
        /\ Judgeable(Append(log, e), revs.newest)
        /\ HasEdit(log, start) => HasEdit(Append(log, e), start)
        /\ \A s : SuiteIs(log, s) => SuiteIs(Append(log, e), s)
    BY <1>1, <2>1, <2>2, <2>3, RecordAppended
  <2>5. log \o <<e>> = Append(log, e)
    BY <1>1, <2>1
  <2>6. Fine(log \o <<e>>)
    BY <1>1, <2>4, <2>5
  <2> QED
    BY <2>6 DEF e
<1>2. Fine(trail)
  BY DEF VerifyShape, TrailSound
<1>3. \A log : Fine(log) => log \o <<>> = log
  OBVIOUS
<1> HIDE DEF Fine
<1>4. PICK sem, extra :
          /\ trail' = trail \o sem \o extra
          /\ \/ sem = <<>>
             \/ \E status \in {"verified", "failed", "unverified"} :
                    sem = <<Entry("semantic", "brain", status, 0)>>
          /\ \/ extra = <<>>
             \/ extra = <<Entry("completion", "contract", "failed", 0)>>
             \/ \E status \in {"verified", "failed"} :
                    extra = <<Entry("apply", "workspace", status, 0)>>
  BY DEF Finish, Status
<1>5. Fine(trail \o sem)
  BY <1>1, <1>2, <1>3, <1>4
<1>6. Fine(trail \o sem \o extra)
  BY <1>1, <1>3, <1>4, <1>5
<1>7. Fine(trail')
  BY <1>4, <1>6
<1>8. report'.rev = revs.now /\ report'.edited = (edited > 0) /\ report'.by = by
  BY DEF Finish
<1>9. report'.status = "VERIFIED" => 
          override = "VERIFIED" \/ (override = "none" /\ Judged(toolFailures) = "VERIFIED")
  BY DEF Finish
<1> QED
  BY <1>7, <1>8, <1>9 DEF Fine

-----------------------------------------------------------------------------
(* Steps. *)

LEMMA EditWritten ==
    ASSUME VerifyShape, TrailSound, NEW f \in Sources, NEW ok \in BOOLEAN, Edited(f, ok)
    PROVE  /\ trail' \in Seq(Entries) /\ start \in 0..Len(trail') /\ edited' \in Nat
           /\ revs' \in [now : Nat, base : Nat, newest : Nat]
           /\ revs'.now <= revs'.newest /\ revs'.base <= revs'.newest
           /\ Judgeable(trail', revs'.newest)
           /\ policy.tests => SuiteIs(trail', suite)
           /\ HasEdit(trail', start)
           /\ Approved(trail', start) => Approved(trail, start)
<1> DEFINE e == Entry("mutation", f, Status(ok), 0)
<1>1. /\ f \in Topics /\ Status(ok) \in {"verified", "failed"}
      /\ "mutation" \in RecordKinds /\ 0 \in Nat
  BY DEF Topics, Status, RecordKinds
<1>2. e \in Entries /\ e.kind = "mutation" /\ e.status = Status(ok) /\ e.rev = 0
  BY <1>1, EntryMade
<1>3. /\ revs' \in [now : Nat, base : Nat, newest : Nat]
      /\ revs'.now <= revs'.newest /\ revs'.base <= revs'.newest
      /\ revs.newest \in Nat /\ revs'.newest \in Nat /\ revs.newest <= revs'.newest
  BY DEF Edited, Written, VerifyShape
<1>4. trail' = Append(trail, e)
  BY DEF Edited
<1>5. edited' \in Nat
  BY DEF Edited, VerifyShape
<1> HIDE DEF e
<1>6. Judgeable(trail, revs'.newest)
  BY <1>3, LaterStillJudgeable DEF VerifyShape, TrailSound
<1>7. e.rev <= revs'.newest
  BY <1>2, <1>3
<1>8. e.kind \in {"check", "mutation"} => e.status \in {"verified", "failed"}
  BY <1>1, <1>2
<1>9. trail \in Seq(Entries) /\ start \in 0..Len(trail)
  BY DEF VerifyShape
<1>10. /\ Append(trail, e) \in Seq(Entries) /\ start \in 0..Len(Append(trail, e))
       /\ Judgeable(Append(trail, e), revs'.newest)
       /\ HasEdit(trail, start) \/ e.kind = "mutation" => HasEdit(Append(trail, e), start)
       /\ Approved(Append(trail, e), start) =>
              Approved(trail, start) \/ (e.kind = "review" /\ e.status = "verified")
       /\ \A s : SuiteIs(trail, s) /\ (e.kind # "check" \/ e.about # "suite")
              => SuiteIs(Append(trail, e), s)
  BY <1>2, <1>3, <1>6, <1>7, <1>8, <1>9, RecordAppended
<1> QED
  BY <1>2, <1>3, <1>4, <1>5, <1>10 DEF TrailSound

LEMMA BeginStep ==
    ASSUME VerifyInv, NEW t, BeginTurn(t)
    PROVE  VerifyInv'
<1>1. VerifyShape'
  BY DEF VerifyInv, VerifyShape, BeginTurn, Stages
<1>2. TrailSound'
  BY DEF VerifyInv, TrailSound, BeginTurn
<1>3. ~Approved(trail', start')
  BY DEF VerifyInv, VerifyShape, BeginTurn, Approved, Reviewed
<1>4. stage' = "execute" /\ report' = NoReport
  BY DEF BeginTurn
<1>5. StageKnown'
  BY <1>3, <1>4 DEF StageKnown
<1>6. VerifiedIsCurrent' /\ VerifiedIsReviewed'
  BY <1>4 DEF VerifiedIsCurrent, VerifiedIsReviewed, NoReport
<1> QED
  BY <1>1, <1>2, <1>5, <1>6 DEF VerifyInv

LEMMA EditStep ==
    ASSUME VerifyInv, NEW f \in Sources, NEW ok \in BOOLEAN, Edit(f, ok)
    PROVE  VerifyInv'
<1>1. Edited(f, ok) /\ stage' = stage /\ stage \in {"execute", "resumed"}
  BY DEF Edit, Working
<1>2. /\ start' = start /\ policy' = policy /\ suite' = suite /\ report' = report
      /\ reviewed' = reviewed
  BY DEF Edit, session
<1>3. /\ trail' \in Seq(Entries) /\ start \in 0..Len(trail') /\ edited' \in Nat
      /\ revs' \in [now : Nat, base : Nat, newest : Nat]
      /\ revs'.now <= revs'.newest /\ revs'.base <= revs'.newest
      /\ Judgeable(trail', revs'.newest)
      /\ policy.tests => SuiteIs(trail', suite)
      /\ HasEdit(trail', start)
      /\ Approved(trail', start) => Approved(trail, start)
  BY <1>1, EditWritten DEF VerifyInv
<1>4. VerifyShape'
  BY <1>1, <1>2, <1>3 DEF VerifyShape, Stages
<1>5. TrailSound'
  BY <1>2, <1>3 DEF TrailSound
<1>6. StageKnown'
  BY <1>1, <1>2, <1>3 DEF VerifyInv, StageKnown
<1>7. VerifiedIsCurrent' /\ VerifiedIsReviewed'
  BY <1>2 DEF VerifyInv, VerifiedIsCurrent, VerifiedIsReviewed
<1> QED
  BY <1>4, <1>5, <1>6, <1>7 DEF VerifyInv

LEMMA DecideStep ==
    ASSUME VerifyInv, NEW f \in Sources, NEW how \in {"apply", "fail", "reject"}, DecideHeld(f, how)
    PROVE  VerifyInv'
<1>1. stage' = "decided"
  BY DEF DecideHeld
<1>2. /\ start' = start /\ policy' = policy /\ suite' = suite /\ report' = report
      /\ reviewed' = reviewed
  BY DEF DecideHeld, session
<1>3. VerifyShape' /\ TrailSound'
  <2>1. CASE how = "reject"
    <3>1. trail' = trail /\ revs' = revs /\ edited' = edited
      BY <2>1 DEF DecideHeld
    <3> QED
      BY <1>1, <1>2, <3>1 DEF VerifyInv, VerifyShape, TrailSound, Stages
  <2>2. CASE how # "reject"
    <3>1. Edited(f, how = "apply") /\ (how = "apply") \in BOOLEAN
      BY <2>2 DEF DecideHeld
    <3>2. /\ trail' \in Seq(Entries) /\ start \in 0..Len(trail') /\ edited' \in Nat
          /\ revs' \in [now : Nat, base : Nat, newest : Nat]
          /\ revs'.now <= revs'.newest /\ revs'.base <= revs'.newest
          /\ Judgeable(trail', revs'.newest)
          /\ policy.tests => SuiteIs(trail', suite)
          /\ HasEdit(trail', start)
      BY <3>1, EditWritten DEF VerifyInv
    <3> QED
      BY <1>1, <1>2, <3>2 DEF VerifyShape, TrailSound, Stages
  <2> QED BY <2>1, <2>2
<1>4. StageKnown'
  BY <1>1 DEF StageKnown
<1>5. VerifiedIsCurrent' /\ VerifiedIsReviewed'
  BY <1>2 DEF VerifyInv, VerifiedIsCurrent, VerifiedIsReviewed
<1> QED
  BY <1>3, <1>4, <1>5 DEF VerifyInv

LEMMA ObserveStep ==
    ASSUME VerifyInv, NEW kind \in {"command", "behaviour"}, NEW about \in Topics,
           NEW ok \in BOOLEAN, Observe(kind, about, ok)
    PROVE  VerifyInv'
<1> DEFINE e == Entry(kind, about, Status(ok), 0)
<1>1. kind \in RecordKinds /\ Status(ok) \in {"verified", "failed"} /\ 0 \in Nat
  BY DEF Status, RecordKinds
<1>2. e \in Entries /\ e.kind = kind /\ e.rev = 0
  BY <1>1, EntryMade
<1>3. /\ start' = start /\ policy' = policy /\ suite' = suite /\ report' = report
      /\ reviewed' = reviewed /\ edited' = edited /\ revs' = revs
      /\ stage' = stage /\ stage \in {"execute", "resumed"}
      /\ trail' = Append(trail, e)
  BY DEF Observe, session, Working
<1> HIDE DEF e
<1>4. /\ trail \in Seq(Entries) /\ start \in 0..Len(trail) /\ revs.newest \in Nat
      /\ Judgeable(trail, revs.newest)
  BY DEF VerifyInv, VerifyShape, TrailSound
<1>5. e.rev <= revs.newest /\ e.kind \notin {"check", "mutation", "review"}
  BY <1>2, <1>4
<1>6. /\ Append(trail, e) \in Seq(Entries) /\ start \in 0..Len(Append(trail, e))
      /\ Judgeable(Append(trail, e), revs.newest)
      /\ HasEdit(trail, start) => HasEdit(Append(trail, e), start)
      /\ Approved(Append(trail, e), start) => Approved(trail, start)
      /\ \A s : SuiteIs(trail, s) => SuiteIs(Append(trail, e), s)
  BY <1>2, <1>4, <1>5, RecordAppended
<1>7. VerifyShape'
  BY <1>3, <1>6 DEF VerifyInv, VerifyShape
<1>8. TrailSound'
  BY <1>3, <1>6 DEF VerifyInv, TrailSound
<1>9. StageKnown'
  BY <1>3, <1>6 DEF VerifyInv, StageKnown
<1>10. VerifiedIsCurrent' /\ VerifiedIsReviewed'
  BY <1>3 DEF VerifyInv, VerifiedIsCurrent, VerifiedIsReviewed
<1> QED
  BY <1>7, <1>8, <1>9, <1>10 DEF VerifyInv

\* Steps that leave log, revisions and report alone.
LEMMA QuietStep ==
    ASSUME VerifyInv,
           HoldEdit \/ ExecutionEnds \/ RepairGivesUp \/ ResumedEnds \/ UNCHANGED verifyVars
    PROVE  VerifyInv'
<1>1. /\ start' = start /\ policy' = policy /\ suite' = suite /\ report' = report
      /\ reviewed' = reviewed /\ edited' = edited /\ revs' = revs /\ trail' = trail
  BY DEF HoldEdit, ExecutionEnds, RepairGivesUp, ResumedEnds, verifyVars, session, work
<1>2. \/ stage' = stage
      \/ stage = "execute" /\ stage' = "verify"
      \/ stage \in {"repair", "repair review"} /\ stage' = "judge"
      \/ stage = "resumed" /\ stage' = "idle"
  BY DEF HoldEdit, ExecutionEnds, RepairGivesUp, ResumedEnds, verifyVars, Repairing
<1>3. VerifyShape'
  BY <1>1, <1>2 DEF VerifyInv, VerifyShape, Stages
<1>4. TrailSound'
  BY <1>1 DEF VerifyInv, TrailSound
<1>5. StageKnown'
  BY <1>1, <1>2 DEF VerifyInv, StageKnown
<1>6. VerifiedIsCurrent' /\ VerifiedIsReviewed'
  BY <1>1 DEF VerifyInv, VerifiedIsCurrent, VerifiedIsReviewed
<1> QED
  BY <1>3, <1>4, <1>5, <1>6 DEF VerifyInv

LEMMA RollBackStep ==
    ASSUME VerifyInv, RollBack
    PROVE  VerifyInv'
<1>1. /\ start' = start /\ policy' = policy /\ suite' = suite /\ trail' = trail
      /\ stage' = stage /\ stage = "idle" /\ edited' = 0
      /\ report'.status = "ROLLED_BACK"
  BY DEF RollBack, session
<1>2. /\ revs' \in [now : Nat, base : Nat, newest : Nat]
      /\ revs'.now <= revs'.newest /\ revs'.base <= revs'.newest /\ revs'.newest = revs.newest
  BY DEF RollBack, VerifyInv, VerifyShape
<1>3. VerifyShape'
  BY <1>1, <1>2 DEF VerifyInv, VerifyShape
<1>4. TrailSound'
  BY <1>1, <1>2 DEF VerifyInv, TrailSound
<1>5. StageKnown'
  BY <1>1 DEF StageKnown
<1>6. VerifiedIsCurrent' /\ VerifiedIsReviewed'
  BY <1>1 DEF VerifiedIsCurrent, VerifiedIsReviewed
<1> QED
  BY <1>3, <1>4, <1>5, <1>6 DEF VerifyInv

\* The suite runs while the turn has no check; a turn that is not all verified has a failure that
\* the semantic check or the finalizer finds again.
LEMMA VerifyStep ==
    ASSUME VerifyInv, NEW narrow \in Narrow, NEW ok \in BOOLEAN, Verify(narrow, ok)
    PROVE  VerifyInv'
<1> DEFINE hasEdits == Of(trail, start, "mutation") # {}
           needed == hasEdits /\ Of(trail, start, "check") = {}
           passed == ~hasEdits \/ AllVerified(trail', start)
<1>1. /\ start' = start /\ policy' = policy /\ report' = report
      /\ reviewed' = reviewed /\ edited' = edited /\ revs' = revs
      /\ stage \in {"verify", "verify again", "verify last"}
      /\ stage' = AfterVerify(passed)
      /\ needed => /\ trail' = trail \o SuiteReport(narrow, ok, revs.now)
                   /\ suite' = Ran(narrow, ok, revs.now)
      /\ ~needed => trail' = trail /\ suite' = suite
  BY DEF Verify, session
<1>2. /\ trail \in Seq(Entries) /\ start \in 0..Len(trail) /\ revs.newest \in Nat
      /\ Judgeable(trail, revs.newest) /\ revs.now \in 0..revs.newest
      /\ policy.tests => SuiteIs(trail, suite)
  BY DEF VerifyInv, VerifyShape, TrailSound
<1>3. /\ report = NoReport /\ ~Approved(trail, start)
      /\ stage = "verify last" => Refused(trail, start)
  BY <1>1 DEF VerifyInv, StageKnown
<1> HIDE DEF passed
<1>4. /\ trail' \in Seq(Entries) /\ start \in 0..Len(trail')
      /\ Judgeable(trail', revs.newest)
      /\ policy.tests => SuiteIs(trail', suite')
      /\ HasEdit(trail, start) => HasEdit(trail', start)
      /\ Refused(trail, start) => Refused(trail', start)
      /\ Approved(trail', start) => Approved(trail, start)
      /\ hasEdits => Of(trail', start, "check") # {}
  <2>1. CASE needed
    <3> DEFINE new == trail \o SuiteReport(narrow, ok, revs.now)
    <3>1. /\ new \in Seq(Entries) /\ start \in 0..Len(new)
          /\ Judgeable(new, revs.newest)
          /\ policy.tests => SuiteIs(new, Ran(narrow, ok, revs.now))
          /\ HasEdit(trail, start) => HasEdit(new, start)
          /\ Refused(trail, start) => Refused(new, start)
          /\ Approved(new, start) => Approved(trail, start)
          /\ Of(new, start, "check") # {}
      BY <1>2, SuiteReported
    <3>2. trail' = new /\ suite' = Ran(narrow, ok, revs.now)
      BY <1>1, <2>1
    <3> HIDE DEF new, needed, hasEdits
    <3> QED
      BY <3>1, <3>2
  <2>2. CASE ~needed
    <3>1. trail' = trail /\ suite' = suite
      BY <1>1, <2>2
    <3> QED
      BY <1>2, <2>2, <3>1
  <2> QED BY <2>1, <2>2
<1>5. hasEdits /\ ~AllVerified(trail', start)
          => EditFailed(trail', start) \/ CheckFailed(trail', start)
  BY <1>4, NotAllVerified
<1>6. ~passed => EditFailed(trail', start) \/ CheckFailed(trail', start)
  BY <1>5 DEF passed
<1>7. VerifyShape'
  BY <1>1, <1>4 DEF VerifyInv, VerifyShape, Stages, AfterVerify
<1>8. TrailSound'
  BY <1>1, <1>4 DEF VerifyInv, TrailSound
<1>9. StageKnown'
  <2>1. stage' = "repair" => ~passed
    BY <1>1 DEF AfterVerify
  <2>2. stage' = "judge" => ~passed
    BY <1>1 DEF AfterVerify
  <2>3. stage' = "review last" => stage = "verify last"
    BY <1>1 DEF AfterVerify
  <2>4. stage' \in {"review", "review last", "repair", "judge"}
    BY <1>1 DEF AfterVerify
  <2> QED
    BY <1>1, <1>3, <1>4, <1>6, <2>1, <2>2, <2>3, <2>4 DEF StageKnown
<1>10. VerifiedIsCurrent' /\ VerifiedIsReviewed'
  BY <1>1, <1>3 DEF VerifiedIsCurrent, VerifiedIsReviewed, NoReport
<1> QED
  BY <1>7, <1>8, <1>9, <1>10 DEF VerifyInv

\* An iteration that does not resume the pipeline failed to edit, or its suite failed at a
\* revision that no check was made at before.
LEMMA RepairStep ==
    ASSUME VerifyInv, NEW f \in Sources, NEW ok \in BOOLEAN, NEW narrow \in Narrow,
           NEW passes \in BOOLEAN, RepairEdits(f, ok, narrow, passes)
    PROVE  VerifyInv'
<1> DEFINE e == Entry("mutation", f, Status(ok), 0)
           edit == Append(trail, e)
           resumes == ok /\ passes /\ narrow # "failed"
<1>1. /\ start' = start /\ policy' = policy /\ report' = report
      /\ reviewed' = reviewed
      /\ revs' = (IF ok THEN Written ELSE revs)
      /\ edited' = (IF ok THEN edited + 1 ELSE edited)
      /\ ok => /\ trail' = trail \o <<e>> \o SuiteReport(narrow, passes, revs'.now)
               /\ suite' = Ran(narrow, passes, revs'.now)
      /\ ~ok => trail' = trail \o <<e>> \o <<>> /\ suite' = suite
      /\ stage \in {"repair", "repair review"}
      /\ stage' = (IF resumes THEN Resumes ELSE stage)
  BY DEF RepairEdits, session, Repairing
<1>2. /\ trail \in Seq(Entries) /\ start \in 0..Len(trail) /\ revs.newest \in Nat
      /\ Judgeable(trail, revs.newest) /\ edited \in Nat
      /\ policy.tests => SuiteIs(trail, suite)
  BY DEF VerifyInv, VerifyShape, TrailSound
<1>3. /\ report = NoReport /\ ~Approved(trail, start)
      /\ stage = "repair review" => Refused(trail, start)
  BY <1>1 DEF VerifyInv, StageKnown
<1>4. /\ revs' \in [now : Nat, base : Nat, newest : Nat]
      /\ revs'.now <= revs'.newest /\ revs'.base <= revs'.newest
      /\ revs'.newest \in Nat /\ revs.newest <= revs'.newest
      /\ revs'.now \in 0..revs'.newest
      /\ ok => revs'.now = revs.newest + 1
  <2>1. /\ revs \in [now : Nat, base : Nat, newest : Nat]
        /\ revs.now <= revs.newest /\ revs.base <= revs.newest
    BY DEF VerifyInv, VerifyShape
  <2>2. revs' = IF ok THEN Written ELSE revs
    BY <1>1
  <2>3. CASE ok
    BY <2>1, <2>2, <2>3 DEF Written
  <2>4. CASE ~ok
    BY <2>1, <2>2, <2>4
  <2> QED BY <2>3, <2>4
<1>5. /\ f \in Topics /\ Status(ok) \in {"verified", "failed"}
      /\ "mutation" \in RecordKinds /\ 0 \in Nat
      /\ (~ok => Status(ok) = "failed")
  BY DEF Topics, Status, RecordKinds
<1>6. e \in Entries /\ e.kind = "mutation" /\ e.status = Status(ok) /\ e.rev = 0
  BY <1>5, EntryMade
<1> HIDE DEF e
<1>7. /\ trail \o <<e>> = edit
      /\ edit \in Seq(Entries) => edit \o <<>> = edit
  BY <1>2, <1>6
<1>8. Judgeable(trail, revs'.newest)
  BY <1>2, <1>4, LaterStillJudgeable
<1>9. /\ e.rev <= revs'.newest
      /\ e.kind \in {"check", "mutation"} => e.status \in {"verified", "failed"}
  BY <1>4, <1>5, <1>6
<1>10. /\ edit \in Seq(Entries) /\ start \in 0..Len(edit)
       /\ Judgeable(edit, revs'.newest)
       /\ HasEdit(edit, start)
       /\ Refused(trail, start) => Refused(edit, start)
       /\ Approved(edit, start) => Approved(trail, start)
       /\ \A s : SuiteIs(trail, s) => SuiteIs(edit, s)
  BY <1>2, <1>4, <1>6, <1>8, <1>9, RecordAppended
<1>11. ~ok => EditFailed(edit, start)
  BY <1>2, <1>5, <1>6, FailureAppended
<1>12. \A i \in Of(edit, start, "check") : edit[i].rev # revs.newest + 1
  <2>1. Of(edit, start, "check") = Of(trail, start, "check")
    <3>1. Of(Append(trail, e), start, "check") =
              Of(trail, start, "check") \union (IF e.kind = "check" THEN {Len(trail) + 1} ELSE {})
      <4> HIDE DEF edit
      <4>1. trail \in Seq(Entries) /\ start \in 0..Len(trail) /\ e \in Entries
        BY <1>2, <1>6
      <4> QED BY <4>1, OfAppended
    <3>2. ~(e.kind = "check")
      BY <1>6
    <3> QED BY <3>1, <3>2
  <2>2. Of(trail, start, "check") \subseteq 1..Len(trail)
    BY <1>2, OfAppended, <1>6
  <2>3. \A i \in 1..Len(trail) : edit[i] = trail[i]
    BY <1>2, <1>6, Appended
  <2>4. \A i \in 1..Len(trail) : trail[i] \in Entries
    BY <1>2
  <2>5. \A i \in 1..Len(trail) : trail[i].rev \in Nat /\ trail[i].rev <= revs.newest
    BY <1>2, <2>4 DEF Judgeable, Entries
  <2>6. \A i \in 1..Len(trail) : edit[i].rev # revs.newest + 1
    BY <1>2, <2>3, <2>5
  <2> QED BY <2>1, <2>2, <2>6
<1> HIDE DEF edit, resumes
<1>13. /\ trail' \in Seq(Entries) /\ start \in 0..Len(trail')
       /\ Judgeable(trail', revs'.newest)
       /\ policy.tests => SuiteIs(trail', suite')
       /\ HasEdit(trail', start)
       /\ Refused(trail, start) => Refused(trail', start)
       /\ Approved(trail', start) => Approved(trail, start)
       /\ ~resumes => EditFailed(trail', start) \/ CheckFailed(trail', start)
  <2>1. CASE ok
    <3> DEFINE new == edit \o SuiteReport(narrow, passes, revs'.now)
    <3>1. policy.tests => SuiteIs(edit, suite)
      BY <1>2, <1>10
    <3>2. /\ new \in Seq(Entries) /\ start \in 0..Len(new)
          /\ Judgeable(new, revs'.newest)
          /\ policy.tests => SuiteIs(new, Ran(narrow, passes, revs'.now))
          /\ HasEdit(edit, start) => HasEdit(new, start)
          /\ Refused(edit, start) => Refused(new, start)
          /\ Approved(new, start) => Approved(edit, start)
          /\ /\ narrow = "failed" \/ ~passes
             /\ \A i \in Of(edit, start, "check") : edit[i].rev # revs'.now
             => CheckFailed(new, start)
      BY <1>4, <1>10, <3>1, SuiteReported
    <3>3. trail' = new /\ suite' = Ran(narrow, passes, revs'.now)
      BY <1>1, <1>7, <2>1
    <3>4. ~resumes => narrow = "failed" \/ ~passes
      BY <2>1 DEF resumes
    <3>5. ~resumes => CheckFailed(new, start)
      BY <1>4, <1>12, <2>1, <3>2, <3>4
    <3> HIDE DEF new
    <3> QED
      BY <1>10, <3>2, <3>3, <3>5
  <2>2. CASE ~ok
    <3>1. trail' = edit /\ suite' = suite
      BY <1>1, <1>7, <1>10, <2>2
    <3> QED
      BY <1>2, <1>10, <1>11, <2>2, <3>1
  <2> QED BY <2>1, <2>2
<1>14. /\ stage' = stage \/ (stage = "repair" /\ stage' = "verify again")
                         \/ (stage = "repair review" /\ stage' = "verify last")
       /\ stage' = "repair" => ~resumes
  BY <1>1 DEF Resumes
<1>15. VerifyShape'
  <2>1. edited' \in Nat
    <3>1. edited' = IF ok THEN edited + 1 ELSE edited
      BY <1>1
    <3>2. edited \in Nat
      BY <1>2
    <3> QED BY <3>1, <3>2
  <2> QED
    BY <1>1, <1>4, <1>13, <1>14, <2>1 DEF VerifyShape, Stages
<1>16. TrailSound'
  BY <1>1, <1>13 DEF TrailSound
<1>17. StageKnown'
  BY <1>1, <1>3, <1>13, <1>14 DEF StageKnown
<1>18. VerifiedIsCurrent' /\ VerifiedIsReviewed'
  BY <1>1, <1>3 DEF VerifiedIsCurrent, VerifiedIsReviewed, NoReport
<1> QED
  BY <1>15, <1>16, <1>17, <1>18 DEF VerifyInv

LEMMA ReviewStep ==
    ASSUME VerifyInv, NEW approves \in BOOLEAN, Review(approves)
    PROVE  VerifyInv'
<1> DEFINE needed == /\ Of(trail, start, "mutation") # {}
                     /\ Verified(trail, Of(trail, start, "review")) = {}
           e == Entry("review", "diff", Status(approves), 0)
<1>1. /\ start' = start /\ policy' = policy /\ report' = report /\ suite' = suite
      /\ edited' = edited /\ revs' = revs
      /\ stage \in {"review", "review last"}
      /\ needed \/ approves
      /\ needed => trail' = Append(trail, e) /\ (approves => reviewed' = revs.now)
      /\ ~needed => trail' = trail
      /\ stage' = IF approves \/ stage = "review last" THEN "judge" ELSE "repair review"
  BY DEF Review, session
<1>2. /\ trail \in Seq(Entries) /\ start \in 0..Len(trail) /\ revs.newest \in Nat
      /\ Judgeable(trail, revs.newest) /\ edited \in Nat
      /\ policy.tests => SuiteIs(trail, suite)
      /\ edited > 0 => HasEdit(trail, start)
  BY DEF VerifyInv, VerifyShape, TrailSound
<1>3. /\ report = NoReport /\ ~Approved(trail, start)
      /\ stage = "review last" => Refused(trail, start)
  BY <1>1 DEF VerifyInv, StageKnown
<1>4. Status(approves) \in {"verified", "failed"} /\ (~approves => Status(approves) = "failed")
      /\ "review" \in RecordKinds /\ "diff" \in Topics /\ 0 \in Nat
  BY DEF Status, RecordKinds, Topics
<1>5. e \in Entries /\ e.kind = "review" /\ e.status = Status(approves) /\ e.rev = 0
  BY <1>4, EntryMade
<1>6. Verified(trail, Of(trail, start, "review")) = {}
  BY <1>3 DEF Approved, Reviewed, Verified, Of
<1>7. edited > 0 => needed
  BY <1>2, <1>6 DEF HasEdit
<1> HIDE DEF e, needed
<1>8. /\ trail' \in Seq(Entries) /\ start \in 0..Len(trail')
      /\ Judgeable(trail', revs.newest)
      /\ policy.tests => SuiteIs(trail', suite)
      /\ HasEdit(trail, start) => HasEdit(trail', start)
      /\ Refused(trail, start) => Refused(trail', start)
      /\ ~approves => ~Approved(trail', start) /\ Refused(trail', start)
  <2>1. CASE needed
    <3>1. e.rev <= revs.newest /\ e.kind \notin {"check", "mutation"}
      BY <1>2, <1>5
    <3>2. /\ Append(trail, e) \in Seq(Entries) /\ start \in 0..Len(Append(trail, e))
          /\ Judgeable(Append(trail, e), revs.newest)
          /\ HasEdit(trail, start) => HasEdit(Append(trail, e), start)
          /\ Refused(trail, start) => Refused(Append(trail, e), start)
          /\ e.status = "failed" => Refused(Append(trail, e), start)
          /\ Approved(Append(trail, e), start) => Approved(trail, start) \/ e.status = "verified"
          /\ \A s : SuiteIs(trail, s) => SuiteIs(Append(trail, e), s)
      BY <1>2, <1>5, <3>1, RecordAppended
    <3> QED
      BY <1>1, <1>2, <1>3, <1>4, <1>5, <2>1, <3>2
  <2>2. CASE ~needed
    BY <1>1, <1>2, <2>2
  <2> QED BY <2>1, <2>2
<1>9. VerifyShape'
  BY <1>1, <1>8 DEF VerifyInv, VerifyShape, Stages
<1>10. TrailSound'
  BY <1>1, <1>2, <1>8 DEF TrailSound
<1>11. StageKnown'
  <2>1. CASE approves
    <3>1. stage' = "judge" /\ (edited > 0 => reviewed' = revs.now)
      BY <1>1, <1>7, <2>1
    <3> QED
      BY <1>1, <1>3, <3>1 DEF StageKnown
  <2>2. CASE ~approves
    <3>1. stage' \in {"judge", "repair review"}
      BY <1>1
    <3> QED
      BY <1>1, <1>3, <1>8, <2>2, <3>1 DEF StageKnown
  <2> QED BY <2>1, <2>2
<1>12. VerifiedIsCurrent' /\ VerifiedIsReviewed'
  BY <1>1, <1>3 DEF VerifiedIsCurrent, VerifiedIsReviewed, NoReport
<1> QED
  BY <1>9, <1>10, <1>11, <1>12 DEF VerifyInv

\* A report of the pipeline or of an approval; the first is VERIFIED only where nothing was found
\* wrong, so the reviewer approved this revision.
LEMMA ReportStep ==
    ASSUME VerifyInv, NEW override, NEW semantic \in Semantics, NEW toolFailures,
           NEW complete \in BOOLEAN, NEW applies \in BOOLEAN, NEW by,
           Finish(override, semantic, toolFailures, complete, applies, by),
           stage' \in {"idle", "resumed"},
           UNCHANGED <<session, edited, revs, suite, reviewed>>,
           override # "VERIFIED",
           by = "pipeline" /\ override = "none" =>
               stage = "judge" /\ ~CheckFailed(trail, start) /\ ~Refused(trail, start)
    PROVE  VerifyInv'
<1>1. /\ start' = start /\ policy' = policy /\ suite' = suite
      /\ edited' = edited /\ revs' = revs /\ reviewed' = reviewed
  BY DEF session
<1>2. /\ trail' \in Seq(Entries) /\ start \in 0..Len(trail')
      /\ Judgeable(trail', revs.newest)
      /\ policy.tests => SuiteIs(trail', suite)
      /\ edited > 0 => HasEdit(trail', start)
      /\ report'.rev = revs.now /\ report'.edited = (edited > 0) /\ report'.by = by
      /\ report'.status = "VERIFIED" =>
             override = "VERIFIED" \/ (override = "none" /\ Judged(toolFailures) = "VERIFIED")
  <2>1. VerifyShape /\ TrailSound
    BY DEF VerifyInv
  <2> QED
    BY <2>1, Finished
<1>3. report'.status = "VERIFIED" => override = "none" /\ Judged(toolFailures) = "VERIFIED"
  BY <1>2
<1>4. report'.status = "VERIFIED" /\ edited > 0 =>
          /\ policy.tests => suite = [rev |-> revs.now, ok |-> TRUE]
          /\ ~EditFailed(trail, start)
  BY <1>3, JudgedVerified DEF VerifyInv
<1>5. VerifyShape'
  BY <1>1, <1>2 DEF VerifyInv, VerifyShape, Stages
<1>6. TrailSound'
  BY <1>1, <1>2 DEF TrailSound
<1>7. StageKnown'
  BY DEF StageKnown
<1>8. VerifiedIsCurrent'
  BY <1>1, <1>2, <1>4 DEF VerifiedIsCurrent
<1>9. VerifiedIsReviewed'
  <2>1. ASSUME report'.status = "VERIFIED", edited > 0, by = "pipeline"
        PROVE  reviewed = revs.now
    <3>1. stage = "judge" /\ ~CheckFailed(trail, start) /\ ~Refused(trail, start)
      BY <1>3, <2>1
    <3>2. ~EditFailed(trail, start)
      BY <1>4, <2>1
    <3> QED
      BY <2>1, <3>1, <3>2 DEF VerifyInv, StageKnown
  <2> QED
    BY <1>1, <1>2, <2>1 DEF VerifiedIsReviewed
<1> QED
  BY <1>5, <1>6, <1>7, <1>8, <1>9 DEF VerifyInv

LEMMA JudgeTurnStep ==
    ASSUME VerifyInv, NEW complete \in BOOLEAN, NEW applies \in BOOLEAN,
           JudgeTurn(complete, applies)
    PROVE  VerifyInv'
<1> DEFINE override == IF SemanticStatus = "FAILED" THEN "FAILED" ELSE "none"
<1>1. /\ Finish(override, SemanticStatus, toolFailed, complete, applies, "pipeline")
      /\ stage = "judge" /\ stage' = "idle"
      /\ UNCHANGED <<session, edited, revs, suite, reviewed>>
  BY DEF JudgeTurn
<1>2. SemanticStatus \in Semantics
  BY DEF SemanticStatus, Semantics
<1>3. override \in {"FAILED", "none"} /\ (override = "none" => SemanticStatus # "FAILED")
  OBVIOUS
<1>4. SemanticFailures => SemanticStatus = "FAILED"
  BY DEF SemanticStatus
<1>5. CheckFailed(trail, start) \/ Refused(trail, start) => SemanticFailures
  BY DEF SemanticFailures, CheckFailed, Refused, Reviewed
<1> HIDE DEF override
<1> QED
  BY <1>1, <1>2, <1>3, <1>4, <1>5, ReportStep

LEMMA EarlyReportStep ==
    ASSUME VerifyInv, ExecutionFails \/ ExecutionPauses
    PROVE  VerifyInv'
<1>1. PICK override \in {"FAILED", "AWAITING_APPROVAL"} :
          /\ Finish(override, "none", FALSE, TRUE, TRUE, "pipeline")
          /\ stage' = "idle"
          /\ UNCHANGED <<session, edited, revs, suite, reviewed>>
  BY DEF ExecutionFails, ExecutionPauses
<1>2. "none" \in Semantics /\ TRUE \in BOOLEAN
  BY DEF Semantics
<1>3. override # "VERIFIED" /\ override # "none" /\ stage' \in {"idle", "resumed"}
  BY <1>1
<1> QED
  BY <1>1, <1>2, <1>3, ReportStep

LEMMA RefreshStep ==
    ASSUME VerifyInv, NEW complete \in BOOLEAN, NEW applies \in BOOLEAN,
           RefreshReport(complete, applies)
    PROVE  VerifyInv'
<1>1. /\ Finish("none", "none", FALSE, complete, applies, "approval")
      /\ stage' = "resumed"
      /\ UNCHANGED <<session, edited, revs, suite, reviewed>>
  BY DEF RefreshReport
<1>2. "none" \in Semantics /\ "none" # "VERIFIED" /\ "approval" # "pipeline"
  BY DEF Semantics
<1>3. stage' \in {"idle", "resumed"}
  BY <1>1
<1> QED
  BY <1>1, <1>2, <1>3, ReportStep

LEMMA VerifyStart ==
    VerifyInit => VerifyInv
<1> SUFFICES ASSUME VerifyInit
             PROVE  VerifyInv
  OBVIOUS
<1>1. VerifyShape
  BY DEF VerifyInit, VerifyShape, Stages
<1>2. TrailSound
  <2>1. trail = <<>> /\ edited = 0
    BY DEF VerifyInit
  <2>2. Of(trail, 0, "check") = {}
    BY <2>1 DEF Of
  <2> QED
    BY <2>1, <2>2 DEF TrailSound, Judgeable, SuiteIs
<1>3. stage = "idle" /\ report.status = "none"
  BY DEF VerifyInit, NoReport
<1>4. StageKnown
  BY <1>3 DEF StageKnown
<1>5. VerifiedIsCurrent /\ VerifiedIsReviewed
  BY <1>3 DEF VerifiedIsCurrent, VerifiedIsReviewed
<1> QED
  BY <1>1, <1>2, <1>4, <1>5 DEF VerifyInv

LEMMA VerifySteps ==
    VerifyInv /\ [VerifyNext]_verifyVars => VerifyInv'
<1> SUFFICES ASSUME VerifyInv, [VerifyNext]_verifyVars
             PROVE  VerifyInv'
  OBVIOUS
<1>1. ASSUME NEW t \in Tasks, BeginTurn(t) PROVE VerifyInv'
  BY <1>1, BeginStep
<1>2. ASSUME NEW f \in Sources, NEW ok \in BOOLEAN, Edit(f, ok) PROVE VerifyInv'
  BY <1>2, EditStep
<1>3. ASSUME NEW name \in Commands, NEW ok \in BOOLEAN, Observe("command", name, ok)
      PROVE  VerifyInv'
  <2>1. name \in Topics
    BY DEF Topics
  <2> QED
    BY <1>3, <2>1, ObserveStep
<1>4. ASSUME NEW ok \in BOOLEAN, Observe("behaviour", "probe", ok) PROVE VerifyInv'
  <2>1. "probe" \in Topics
    BY DEF Topics
  <2> QED
    BY <1>4, <2>1, ObserveStep
<1>5. ASSUME ExecutionFails \/ ExecutionPauses PROVE VerifyInv'
  BY <1>5, EarlyReportStep
<1>6. ASSUME HoldEdit \/ ExecutionEnds \/ RepairGivesUp \/ ResumedEnds \/ UNCHANGED verifyVars
      PROVE  VerifyInv'
  BY <1>6, QuietStep
<1>7. ASSUME NEW narrow \in Narrow, NEW ok \in BOOLEAN, Verify(narrow, ok) PROVE VerifyInv'
  BY <1>7, VerifyStep
<1>8. ASSUME NEW f \in Sources, NEW ok \in BOOLEAN, NEW passes \in BOOLEAN, NEW narrow \in Narrow,
             RepairEdits(f, ok, narrow, passes)
      PROVE  VerifyInv'
  BY <1>8, RepairStep
<1>9. ASSUME NEW approves \in BOOLEAN, Review(approves) PROVE VerifyInv'
  BY <1>9, ReviewStep
<1>10. ASSUME NEW complete \in BOOLEAN, NEW applies \in BOOLEAN, JudgeTurn(complete, applies)
       PROVE  VerifyInv'
  BY <1>10, JudgeTurnStep
<1>11. ASSUME NEW complete \in BOOLEAN, NEW applies \in BOOLEAN, RefreshReport(complete, applies)
       PROVE  VerifyInv'
  BY <1>11, RefreshStep
<1>12. ASSUME NEW f \in Sources, NEW how \in {"apply", "fail", "reject"}, DecideHeld(f, how)
       PROVE  VerifyInv'
  BY <1>12, DecideStep
<1>13. ASSUME RollBack PROVE VerifyInv'
  BY <1>13, RollBackStep
<1> QED
  BY <1>1, <1>2, <1>3, <1>4, <1>5, <1>6, <1>7, <1>8, <1>9, <1>10, <1>11, <1>12, <1>13
  DEF VerifyNext

\* A report VERIFIED of a turn with edits is about a revision at which the whole suite just passed,
\* and, when the pipeline made it, that the reviewer approved - in every session, however long.
THEOREM VerifiedIsEarnedHolds == VerifySpec => []VerifiedIsEarned
<1>1. VerifyInit => VerifyInv
  BY VerifyStart
<1>2. VerifyInv /\ [VerifyNext]_verifyVars => VerifyInv'
  BY VerifySteps
<1>3. VerifyInv => VerifiedIsEarned
  BY DEF VerifyInv, VerifiedIsEarned
<1> QED
  BY <1>1, <1>2, <1>3, PTL DEF VerifySpec
==============================================================================
