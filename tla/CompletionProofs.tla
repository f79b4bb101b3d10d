--------------------------- MODULE CompletionProofs ---------------------------
(***************************************************************************)
(* What holds of CompletionContract for any repository, any requests and   *)
(* any sequence of edits, undos and test runs: what is judged complete was *)
(* done; and of Campaign for any manifests, thresholds, duels and changes  *)
(* by hand: a claim that the gate lets through was earned.                 *)
(***************************************************************************)
EXTENDS CompletionContract, Campaign, SequenceTheorems, FiniteSetTheorems, TLAPS

-----------------------------------------------------------------------------
(* The inductive invariant. *)

\* What ContractTypeOK says, without the history that it calls ChangedFiles.
ContractTypes ==
    /\ task \in RequestedTask /\ task \in Tasks
    /\ related \subseteq Tests /\ task.related \subseteq related /\ verified \subseteq related
    /\ inspected \subseteq RepositoryFiles /\ satisfied \subseteq Ledger(task)
    /\ contractChanges \in Seq(RepositoryFiles)
    /\ moves \in 0..MaxMoves /\ Len(contractChanges) <= moves
    /\ contractStatus \in {"none", "VERIFIED", "PARTIALLY_VERIFIED"}
    /\ passed \subseteq Tests /\ touched \subseteq RepositoryFiles /\ mislabelled \in BOOLEAN

\* Credit for a change is given for a file that was changed, and for a test that ran in a run that
\* passed, as long as no run of a part was taken for the whole.
CreditEarned ==
    /\ ChangedFiles \subseteq touched
    /\ \A f \in RepositoryFiles : <<f, "change">> \in satisfied => f \in touched
    /\ mislabelled \/ verified \subseteq passed

ContractInv == ContractTypes /\ CreditEarned /\ CompletionEarned

-----------------------------------------------------------------------------
LEMMA RangeOf ==
    ASSUME NEW S, NEW s \in Seq(S)
    PROVE  /\ Range(s) \subseteq S
           /\ \A e \in S : Range(Append(s, e)) = Range(s) \union {e}
           /\ s # <<>> => Front(s) \in Seq(S) /\ Range(Front(s)) \subseteq Range(s)
                          /\ Len(Front(s)) <= Len(s)
<1>1. Len(s) \in Nat /\ DOMAIN s = 1..Len(s) /\ \A i \in 1..Len(s) : s[i] \in S
  BY LenProperties, ElementOfSeq
<1>2. Range(s) \subseteq S
  BY <1>1 DEF Range
<1>3. ASSUME NEW e \in S PROVE Range(Append(s, e)) = Range(s) \union {e}
  <2> DEFINE t == Append(s, e)
  <2>1. /\ t \in Seq(S) /\ Len(t) = Len(s) + 1
        /\ \A i \in 1..Len(s) : t[i] = s[i]
        /\ t[Len(s) + 1] = e
    BY AppendProperties
  <2>2. DOMAIN t = 1..(Len(s) + 1)
    BY <2>1, LenProperties
  <2> HIDE DEF t
  <2>3. Range(t) = Range(s) \union {e}
    BY <1>1, <2>1, <2>2 DEF Range
  <2> QED
    BY <2>3 DEF t
<1>4. ASSUME s # <<>> PROVE Front(s) \in Seq(S) /\ Range(Front(s)) \subseteq Range(s)
                            /\ Len(Front(s)) <= Len(s)
  <2> DEFINE n == Len(s) - 1
  <2>1. n \in Nat /\ 1..n \subseteq 1..Len(s)
    BY <1>1, <1>4, EmptySeq
  <2>2. Front(s) = [i \in 1..n |-> s[i]]
    BY <1>1, <2>1 DEF Front
  <2>3. Front(s) \in Seq(S) /\ Len(Front(s)) = n
    BY <1>1, <2>1, <2>2, IsASeq
  <2>4. Range(Front(s)) \subseteq Range(s)
    BY <1>1, <2>1, <2>2 DEF Range
  <2> QED
    BY <1>1, <2>3, <2>4
<1> QED
  BY <1>2, <1>3, <1>4

LEMMA ContractInitGood ==
    ASSUME ContractInit
    PROVE  ContractInv
<1>1. /\ contractChanges = <<>> /\ <<>> \in Seq(RepositoryFiles) /\ Len(<<>>) = 0
      /\ ChangedFiles = {}
  BY EmptySeq DEF ContractInit, ChangedFiles, Range
<1>2. task \in RequestedTask /\ MaxMoves \in Nat
  BY ContractAssumption DEF ContractInit
<1>3. related \subseteq Tests /\ task.related \subseteq related
  BY <1>2 DEF ContractInit, RequestedTask
<1>4. ContractTypes
  <2>1. moves \in 0..MaxMoves /\ Len(contractChanges) <= moves
    BY <1>1, <1>2 DEF ContractInit
  <2>2. contractChanges \in Seq(RepositoryFiles)
    BY <1>1
  <2>3. verified = {} /\ inspected = {} /\ satisfied = {} /\ passed = {} /\ touched = {}
        /\ mislabelled = FALSE /\ contractStatus = "none" /\ task \in Tasks
    BY DEF ContractInit
  <2> QED
    BY <1>2, <1>3, <2>1, <2>2, <2>3 DEF ContractTypes
<1>5. CreditEarned /\ CompletionEarned
  BY <1>1 DEF ContractInit, CreditEarned, CompletionEarned
<1> QED
  BY <1>4, <1>5 DEF ContractInv

\* What is recorded stays among the obligations.
LEMMA Recorded ==
    ASSUME ContractTypes, NEW action, NEW paths
    PROVE  /\ Record(action, paths) \subseteq Ledger(task)
           /\ \A f : <<f, "change">> \in Record(action, paths) =>
                        <<f, "change">> \in satisfied \/ (action = "change" /\ f \in paths)
BY DEF ContractTypes, Record, Asks

LEMMA InspectGood ==
    ASSUME ContractInv, NEW f \in Inspections(task) \union task.reach, Inspect(f)
    PROVE  ContractInv'
<1>1. /\ inspected' = inspected \union {f} /\ satisfied' = Record("inspect", {f})
      /\ contractStatus' = "none" /\ Ledger(task)' = Ledger(task)
      /\ UNCHANGED <<task, related, verified, contractChanges, moves, passed, touched, mislabelled>>
      /\ ChangedFiles' = ChangedFiles
  BY DEF Inspect, ChangedFiles
<1>2. f \in RepositoryFiles
  BY DEF Inspections, ContractInv, ContractTypes, RequestedTask, FileSets
<1>3. /\ satisfied' \subseteq Ledger(task)
      /\ \A g : <<g, "change">> \in satisfied' => <<g, "change">> \in satisfied
  BY <1>1, Recorded DEF ContractInv
<1>4. ContractTypes'
  BY <1>1, <1>2, <1>3 DEF ContractInv, ContractTypes
<1> QED
  BY <1>1, <1>3, <1>4 DEF ContractInv, CreditEarned, CompletionEarned

LEMMA EditGood ==
    ASSUME ContractInv, NEW f \in RepositoryFiles, Edit(f) \/ ChangeByCommand(f)
    PROVE  ContractInv'
<1>1. /\ contractChanges' = Append(contractChanges, f) /\ touched' = touched \union {f}
      /\ contractStatus' = "none" /\ moves' = moves + 1 /\ moves < MaxMoves
      /\ UNCHANGED <<task, related, inspected, verified, passed, mislabelled>>
      /\ satisfied' \in {satisfied, Record("change", {f})}
  BY DEF Edit, ChangeByCommand, Moving
<1>2. /\ contractChanges' \in Seq(RepositoryFiles) /\ Len(contractChanges') = Len(contractChanges) + 1
      /\ Len(contractChanges) \in Nat /\ ChangedFiles' = ChangedFiles \union {f}
  BY <1>1, RangeOf, AppendProperties, LenProperties DEF ContractInv, ContractTypes, ChangedFiles
<1>3. /\ satisfied' \subseteq Ledger(task) /\ Ledger(task)' = Ledger(task)
      /\ \A g : <<g, "change">> \in satisfied' => <<g, "change">> \in satisfied \/ g = f
  BY <1>1, Recorded DEF ContractInv, ContractTypes
<1>4. moves' \in 0..MaxMoves /\ Len(contractChanges') <= moves'
  BY <1>1, <1>2, ContractAssumption DEF ContractInv, ContractTypes
<1>5. ContractTypes'
  BY <1>1, <1>2, <1>3, <1>4 DEF ContractInv, ContractTypes
<1> QED
  BY <1>1, <1>2, <1>3, <1>5 DEF ContractInv, CreditEarned, CompletionEarned

LEMMA UndoGood ==
    ASSUME ContractInv, UndoChange
    PROVE  ContractInv'
<1>1. /\ contractChanges' = Front(contractChanges) /\ contractChanges # <<>>
      /\ contractStatus' = "none" /\ moves' = moves + 1 /\ moves < MaxMoves
      /\ UNCHANGED <<task, related, inspected, verified, satisfied, passed, touched, mislabelled>>
  BY DEF UndoChange, Moving
<1>2. /\ contractChanges' \in Seq(RepositoryFiles) /\ Len(contractChanges') <= Len(contractChanges)
      /\ Len(contractChanges) \in Nat /\ Len(contractChanges') \in Nat
      /\ ChangedFiles' \subseteq ChangedFiles
  BY <1>1, RangeOf, LenProperties DEF ContractInv, ContractTypes, ChangedFiles
<1>3. moves' \in 0..MaxMoves /\ Len(contractChanges') <= moves'
  BY <1>1, <1>2, ContractAssumption DEF ContractInv, ContractTypes
<1>4. ContractTypes' /\ Ledger(task)' = Ledger(task)
  BY <1>1, <1>2, <1>3 DEF ContractInv, ContractTypes
<1> QED
  BY <1>1, <1>2, <1>4 DEF ContractInv, CreditEarned, CompletionEarned

\* What a run of tests is credited with was run, unless a part was taken for the whole.
LEMMA CreditWasRun ==
    ASSUME ContractTypes, NEW command \in Runnable, NEW ok \in BOOLEAN, NEW shown,
           NEW ran \in MayRun(command, Tests),
           ValidExecution(Analyse(command, Tests), ran, ok, shown)
    PROVE  /\ ok /\ Credited(Analyse(command, Tests)) \subseteq related
           /\ Credited(Analyse(command, Tests)) \subseteq ran \/ (command.form = "joined" /\ ran # Tests)
<1>1. ok
  BY DEF ValidExecution
<1>2. CASE command = Command("suite", {}) \/ command = Command("joined", {})
  <2>1. Credited(Analyse(command, Tests)) = related
    BY <1>2 DEF Credited, Analyse, Command
  <2>2. command.form = "joined" \/ ran = Tests
    BY <1>2 DEF MayRun, Command
  <2> QED
    BY <1>1, <2>1, <2>2 DEF ContractTypes
<1>3. CASE command = Command("selector", {})
  BY <1>1, <1>3 DEF Credited, Analyse, Command
<1>4. CASE \E t \in Tests : command = Command("paths", {t})
  BY <1>1, <1>4 DEF Credited, Analyse, Command, MayRun
<1> QED
  BY <1>2, <1>3, <1>4 DEF Runnable

LEMMA RunTestsGood ==
    ASSUME ContractInv, NEW command \in Runnable, NEW ok \in BOOLEAN, NEW shown,
           NEW ran \in MayRun(command, Tests), RunTests(command, ran, ok, shown)
    PROVE  ContractInv'
<1> DEFINE profile == Analyse(command, Tests)
           valid == ValidExecution(profile, ran, ok, shown)
           credit == IF valid THEN Credited(profile) ELSE {}
<1>1. /\ verified' = verified \union credit /\ satisfied' = Record("verify", credit)
      /\ passed' = IF ok THEN passed \union ran ELSE passed
      /\ mislabelled' = (mislabelled \/ (valid /\ command.form = "joined" /\ ran # Tests))
      /\ contractStatus' = "none" /\ moves' = moves + 1 /\ moves < MaxMoves
      /\ UNCHANGED <<task, related, inspected, contractChanges, touched>>
  BY DEF RunTests, Moving
<1>2. /\ credit \subseteq related /\ (valid => ok)
      /\ credit \subseteq ran \/ (valid /\ command.form = "joined" /\ ran # Tests)
  <2>1. CASE valid
    BY <2>1, CreditWasRun DEF ContractInv
  <2>2. CASE ~valid
    BY <2>2
  <2> QED
    BY <2>1, <2>2
<1>3. ran \subseteq Tests
  BY DEF MayRun, Runnable, Command
<1>7. valid \in BOOLEAN /\ (~valid => credit = {})
  BY DEF ValidExecution, Analyse
<1> HIDE DEF profile, valid, credit
<1>4. /\ satisfied' \subseteq Ledger(task) /\ Ledger(task)' = Ledger(task)
      /\ \A g : <<g, "change">> \in satisfied' => <<g, "change">> \in satisfied
  BY <1>1, Recorded DEF ContractInv
<1>5. ContractTypes'
  <2>1. moves' \in 0..MaxMoves /\ Len(contractChanges') <= moves'
    BY <1>1, LenProperties, ContractAssumption DEF ContractInv, ContractTypes
  <2>2. mislabelled' \in BOOLEAN
    BY <1>1, Zenon DEF ContractInv, ContractTypes
  <2>3. verified' \subseteq related' /\ passed' \subseteq Tests
    <3>1. verified \subseteq related /\ passed \subseteq Tests
      BY DEF ContractInv, ContractTypes
    <3>2. credit \subseteq related
      BY <1>2
    <3> QED
      BY <1>1, <1>3, <3>1, <3>2
  <2> QED
    BY <1>1, <1>4, <2>1, <2>2, <2>3 DEF ContractInv, ContractTypes
<1>6. (mislabelled \/ verified \subseteq passed)'
  BY <1>1, <1>2, <1>7 DEF ContractInv, CreditEarned
<1> QED
  BY <1>1, <1>4, <1>5, <1>6 DEF ContractInv, CreditEarned, CompletionEarned, ChangedFiles

\* A finish is judged complete only if the files and the tests say so.
LEMMA JudgeGood ==
    ASSUME ContractInv, JudgeFinish
    PROVE  ContractInv'
<1>1. /\ satisfied' = Record("change", ChangedFiles)
      /\ contractStatus' = IF ContractMet THEN "VERIFIED" ELSE "PARTIALLY_VERIFIED"
      /\ UNCHANGED <<task, related, inspected, verified, contractChanges, moves, passed, touched,
                     mislabelled>>
      /\ ChangedFiles' = ChangedFiles /\ Ledger(task)' = Ledger(task)
      /\ RequiredChanges(task)' = RequiredChanges(task) /\ Closure(task)' = Closure(task)
  BY DEF JudgeFinish, ChangedFiles
<1>2. /\ satisfied' \subseteq Ledger(task)
      /\ \A g : <<g, "change">> \in satisfied' => <<g, "change">> \in satisfied \/ g \in ChangedFiles
  BY <1>1, Recorded DEF ContractInv
<1>3. ContractTypes'
  BY <1>1, <1>2 DEF ContractInv, ContractTypes
<1>4. CreditEarned'
  BY <1>1, <1>2 DEF ContractInv, CreditEarned
<1>5. ASSUME ContractMet
      PROVE  /\ RequiredChanges(task) \subseteq ChangedFiles
             /\ {f \in task.reach : <<f, "change">> \in Closure(task)} \subseteq touched
             /\ ChangedFiles \intersect task.protected = {}
             /\ mislabelled \/ task.related \subseteq passed
  <2>1. /\ RequiredChanges(task) \subseteq ChangedFiles /\ ChangedFiles \intersect task.protected = {}
        /\ task.related \subseteq verified
    BY <1>5 DEF ContractMet, Assessed
  <2>2. ASSUME NEW f \in task.reach, <<f, "change">> \in Closure(task)
        PROVE  f \in touched
    <3>1. <<f, "change">> \in satisfied'
      BY <1>1, <1>5, <2>2 DEF ContractMet, Ledger
    <3>2. f \in RepositoryFiles
      BY DEF ContractInv, ContractTypes, RequestedTask, FileSets
    <3> QED
      BY <1>2, <3>1, <3>2 DEF ContractInv, CreditEarned
  <2> QED
    BY <2>1, <2>2 DEF ContractInv, CreditEarned
<1> QED
  BY <1>1, <1>3, <1>4, <1>5 DEF ContractInv, CompletionEarned

LEMMA ContextGood ==
    ASSUME ContractInv, (\E tests \in SUBSET Tests : ExpandContext(tests)) \/ UNCHANGED contractVars
    PROVE  ContractInv'
<1>1. /\ UNCHANGED <<task, inspected, verified, satisfied, contractChanges, contractStatus, moves,
                     passed, touched, mislabelled>>
      /\ related \subseteq related' /\ related' \subseteq Tests /\ ChangedFiles' = ChangedFiles
      /\ Ledger(task)' = Ledger(task) /\ Closure(task)' = Closure(task)
      /\ RequiredChanges(task)' = RequiredChanges(task)
  BY DEF ExpandContext, contractVars, ContractInv, ContractTypes, ChangedFiles
<1> QED
  BY <1>1 DEF ContractInv, ContractTypes, CreditEarned, CompletionEarned

LEMMA ContractStep ==
    ASSUME ContractInv, [ContractNext]_contractVars
    PROVE  ContractInv'
BY InspectGood, EditGood, UndoGood, RunTestsGood, JudgeGood, ContextGood DEF ContractNext

\* The state of the contract keeps its types (EngineeringBrain, CompletionLedger).
THEOREM ContractTypeHolds == ContractSpec => []ContractTypeOK
<1>1. ContractInit => ContractInv
  BY ContractInitGood
<1>2. ContractInv /\ [ContractNext]_contractVars => ContractInv'
  BY ContractStep
<1>3. ContractInv => ContractTypeOK
  BY DEF ContractInv, ContractTypes, CreditEarned, ContractTypeOK
<1> QED
  BY <1>1, <1>2, <1>3, PTL DEF ContractSpec

\* In every behaviour a turn that counts as complete has changed what had to
\* change, nothing that was protected, and its related tests ran in a run
\* that passed (RunFinalizer, MultiFileCompletionContract.assess).
THEOREM CompletionEarnedHolds == ContractSpec => []CompletionEarned
<1>1. ContractInit => ContractInv
  BY ContractInitGood
<1>2. ContractInv /\ [ContractNext]_contractVars => ContractInv'
  BY ContractStep
<1>3. ContractInv => CompletionEarned
  BY DEF ContractInv
<1> QED
  BY <1>1, <1>2, <1>3, PTL DEF ContractSpec

-----------------------------------------------------------------------------
(* Campaign: the rows of a duel, the reports that were written of it, and   *)
(* the reports that the lab has vouched for.                                *)

Evaluators == {"lab", "other"}
Oracles == {"sealed", "changed"}
Rows == [task : TaskIds, trial : Nat, agent : Agents, ending : Endings, repo : SourceContents]
Payloads ==
    [manifest : Manifests, oracle : Oracles, evaluator : Evaluators, rows : SUBSET Rows]
Reports ==
    [manifest : Manifests, flags : BOOLEAN, oracle : Oracles, dry : BOOLEAN, rows : SUBSET Rows,
     evaluator : Evaluators, signature : Seq([by : Evaluators, payload : Payloads])]
Duels ==
    [manifest : Manifests, dry : BOOLEAN, trial : Nat, at : Nat, left : SUBSET Agents,
     rows : SUBSET Rows]

\* The runs of a duel: a task, a trial and an agent; and the one that a row is about.
Slots(m) == (1..Len(m.tasks)) \X (1..m.trials) \X m.agents
At(m, r, s) == r.task = m.tasks[s[1]] /\ r.trial = s[2] /\ r.agent = s[3]

\* Each slot has its row, each row its slot, and no two rows share one.
Fill(rows, m, slots) ==
    /\ IsFiniteSet(rows)
    /\ \A r \in rows : \E s \in slots : At(m, r, s)
    /\ \A s \in slots : \E r \in rows : At(m, r, s)
    /\ \A r, q \in rows : r.task = q.task /\ r.trial = q.trial /\ r.agent = q.agent => r = q

\* The slots that a duel has behind it.
Done(d) ==
    {s \in Slots(d.manifest) :
        \/ s[2] < d.trial
        \/ s[2] = d.trial /\ s[1] < d.at
        \/ s[2] = d.trial /\ s[1] = d.at /\ s[3] \notin d.left}

InEarnest(rows, dry) == \A r \in rows : (r.ending = "planned") = dry

DuelSound(d) ==
    /\ d \in Duels
    /\ d.trial \in 1..d.manifest.trials /\ d.at \in 1..Len(d.manifest.tasks)
    /\ d.left \subseteq d.manifest.agents
    /\ Fill(d.rows, d.manifest, Done(d)) /\ InEarnest(d.rows, d.dry)

PublishedSound(w) ==
    w \in Reports /\ Fill(w.rows, w.manifest, Slots(w.manifest)) /\ InEarnest(w.rows, w.dry)

\* A report without a signature is one that a duel wrote, and the lab signed the substance of one.
Vouched(report, origins) ==
    /\ report \in Reports
    /\ report.signature = <<>> => report \in origins
    /\ report.signature # <<>> /\ report.signature[1].by = "lab" =>
           \E w \in origins :
               LET p == report.signature[1].payload
               IN w.manifest = p.manifest /\ w.oracle = p.oracle /\ w.rows = p.rows

CampaignInv ==
    /\ manifest \in Manifests /\ repo \in [TaskIds -> SourceContents] /\ oracle \in Oracles
    /\ foreseen # <<>> =>
           /\ foreseen[1].manifest \in Manifests
           /\ ReadyFor(foreseen[1].manifest, foreseen[1].repo)
    /\ duel # <<>> => DuelSound(duel[1])
    /\ \A w \in published : PublishedSound(w)
    /\ file # <<>> => Vouched(file[1], published)
    /\ desk # <<>> =>
           /\ desk[1].evaluator \in Evaluators /\ desk[1].report \in Reports
           /\ desk[1].evaluator = "lab" => desk[1].report \in published
    /\ claim # <<>> => Vouched(claim[1], published) /\ Qualified(claim[1])

-----------------------------------------------------------------------------
(* Manifests, slots and images. *)

LEMMA ManifestShape ==
    ASSUME NEW m \in Manifests
    PROVE  /\ m.tasks \in Seq(TaskIds) /\ m.tasks # <<>> /\ Len(m.tasks) \in Nat \ {0}
           /\ \A i, j \in 1..Len(m.tasks) : m.tasks[i] = m.tasks[j] => i = j
           /\ \A i \in 1..Len(m.tasks) : m.tasks[i] \in TaskIds
           /\ m.trials \in Nat \ {0} /\ m.agents \in SUBSET Agents /\ m.flags \in BOOLEAN
<1>1. m \in [agents : SUBSET Agents, tasks : Seq(TaskIds), trials : Nat \ {0},
             flags : BOOLEAN, long : SUBSET TaskIds]
  BY CampaignAssumption
<1>2. m.tasks # <<>> /\ IsInjective(m.tasks)
  BY CampaignAssumption
<1>3. m.tasks \in Seq(TaskIds) /\ DOMAIN m.tasks = 1..Len(m.tasks)
  BY <1>1
<1>4. \A i, j \in 1..Len(m.tasks) : m.tasks[i] = m.tasks[j] => i = j
  BY <1>2, <1>3 DEF IsInjective
<1>5. Len(m.tasks) \in Nat \ {0}
  BY <1>2, <1>3
<1> QED
  BY <1>1, <1>2, <1>3, <1>4, <1>5

LEMMA SlotParts ==
    ASSUME NEW m \in Manifests
    PROVE  /\ \A s \in Slots(m) : /\ s[1] \in 1..Len(m.tasks) /\ s[2] \in 1..m.trials
                                  /\ s[3] \in m.agents
           /\ \A i \in 1..Len(m.tasks), n \in 1..m.trials, a \in m.agents :
                  /\ <<i, n, a>> \in Slots(m)
                  /\ <<i, n, a>>[1] = i /\ <<i, n, a>>[2] = n /\ <<i, n, a>>[3] = a
BY DEF Slots

LEMMA SlotSame ==
    ASSUME NEW m \in Manifests, NEW s \in Slots(m), NEW q \in Slots(m),
           s[1] = q[1], s[2] = q[2], s[3] = q[3]
    PROVE  s = q
BY DEF Slots

LEMMA ImageBound ==
    ASSUME NEW S, IsFiniteSet(S), NEW f
    PROVE  /\ IsFiniteSet({f[x] : x \in S})
           /\ Cardinality({f[x] : x \in S}) <= Cardinality(S)
<1> DEFINE T == {f[x] : x \in S}
           g == [x \in S |-> f[x]]
<1>1. g \in Surjection(S, T)
  BY DEF Surjection
<1> HIDE DEF T, g
<1>2. IsFiniteSet(T) /\ Cardinality(T) <= Cardinality(S)
  BY <1>1, FS_Surjection
<1> QED
  BY <1>2 DEF T

-----------------------------------------------------------------------------
(* The rows of a duel. *)

LEMMA NothingDone ==
    ASSUME NEW m \in Manifests, NEW d, d.manifest = m, d.trial = 1, d.at = 1, d.left = m.agents
    PROVE  Done(d) = {} /\ Fill({}, m, Done(d))
<1>1. \A s \in Slots(m) : s[1] \in 1..Len(m.tasks) /\ s[2] \in 1..m.trials /\ s[3] \in m.agents
  BY SlotParts
<1>2. \A s \in Slots(m) : ~(s[1] < 1) /\ ~(s[2] < 1)
  BY <1>1, ManifestShape
<1>3. Done(d) = {}
  BY <1>1, <1>2 DEF Done
<1> QED
  BY <1>3, FS_EmptySet DEF Fill

LEMMA RowAdded ==
    ASSUME NEW m \in Manifests, NEW slots \in SUBSET Slots(m), NEW rows, Fill(rows, m, slots),
           NEW s \in Slots(m), s \notin slots, NEW r, At(m, r, s)
    PROVE  Fill(rows \union {r}, m, slots \union {s})
<1>1. IsFiniteSet(rows \union {r})
  BY FS_AddElement DEF Fill
<1>2. \A q \in rows \union {r} : \E t \in slots \union {s} : At(m, q, t)
  BY DEF Fill
<1>3. \A t \in slots \union {s} : \E q \in rows \union {r} : At(m, q, t)
  BY DEF Fill
<1>4. ASSUME NEW q \in rows, r.task = q.task, r.trial = q.trial, r.agent = q.agent
      PROVE  FALSE
  <2>1. PICK t \in slots : At(m, q, t)
    BY DEF Fill
  <2>2. m.tasks[s[1]] = m.tasks[t[1]] /\ s[2] = t[2] /\ s[3] = t[3]
    BY <1>4, <2>1 DEF At
  <2>3. s[1] \in 1..Len(m.tasks) /\ t[1] \in 1..Len(m.tasks) /\ t \in Slots(m)
    BY SlotParts
  <2>4. s[1] = t[1]
    BY <2>2, <2>3, ManifestShape
  <2>5. s = t
    BY <2>2, <2>3, <2>4, SlotSame
  <2> QED
    BY <2>5
<1>5. \A p, q \in rows \union {r} :
          p.task = q.task /\ p.trial = q.trial /\ p.agent = q.agent => p = q
  BY <1>4 DEF Fill
<1> QED
  BY <1>1, <1>2, <1>3, <1>5 DEF Fill

LEMMA RunTaken ==
    ASSUME NEW d, DuelSound(d), NEW a \in d.left, NEW r \in Rows,
           r.task = d.manifest.tasks[d.at], r.trial = d.trial, r.agent = a,
           (r.ending = "planned") = d.dry
    PROVE  DuelSound([d EXCEPT !.left = @ \ {a}, !.rows = @ \union {r}])
<1> DEFINE e == [d EXCEPT !.left = d.left \ {a}, !.rows = d.rows \union {r}]
           m == d.manifest
           s == <<d.at, d.trial, a>>
<1>1. /\ d \in Duels /\ m \in Manifests /\ d.left \in SUBSET Agents /\ d.rows \in SUBSET Rows
      /\ d.trial \in 1..m.trials /\ d.at \in 1..Len(m.tasks) /\ d.left \subseteq m.agents
      /\ Fill(d.rows, m, Done(d)) /\ InEarnest(d.rows, d.dry)
  BY DEF DuelSound, Duels
<1>2. /\ e \in Duels /\ e.left = d.left \ {a} /\ e.rows = d.rows \union {r}
      /\ e.manifest = m /\ e.dry = d.dry /\ e.at = d.at /\ e.trial = d.trial
  <2>0. d \in Duels
    BY <1>1
  <2>1. d.left \ {a} \in SUBSET Agents /\ d.rows \union {r} \in SUBSET Rows
    BY <1>1
  <2> QED
    BY <2>0, <2>1 DEF Duels
<1>3. s \in Slots(m) /\ s[1] = d.at /\ s[2] = d.trial /\ s[3] = a
  BY <1>1, SlotParts
<1> HIDE DEF e, m, s
<1>4. s \notin Done(d)
  BY <1>1, <1>3 DEF Done
<1>5. Done(d) \in SUBSET Slots(m) /\ At(m, r, s)
  BY <1>3 DEF Done, At, m
<1>6. Fill(e.rows, m, Done(d) \union {s})
  BY <1>1, <1>2, <1>3, <1>4, <1>5, RowAdded
<1>7. Done(e) = Done(d) \union {s}
  <2>1. \A q \in Slots(m) : q[1] = d.at /\ q[2] = d.trial /\ q[3] = a => q = s
    BY <1>1, <1>3, SlotSame
  <2> QED
    BY <1>2, <1>3, <2>1 DEF Done, m
<1>8. InEarnest(e.rows, e.dry)
  BY <1>1, <1>2 DEF InEarnest
<1>9. DuelSound(e)
  BY <1>1, <1>2, <1>6, <1>7, <1>8 DEF DuelSound
<1> QED
  BY <1>9 DEF e

LEMMA GroupEnded ==
    ASSUME NEW d, DuelSound(d), d.left = {}, NEW i, NEW n,
           \/ d.at < Len(d.manifest.tasks) /\ i = d.at + 1 /\ n = d.trial
           \/ /\ d.at = Len(d.manifest.tasks) /\ d.trial < d.manifest.trials
              /\ i = 1 /\ n = d.trial + 1
    PROVE  DuelSound([d EXCEPT !.at = i, !.trial = n, !.left = d.manifest.agents])
<1> DEFINE m == d.manifest
           e == [d EXCEPT !.at = i, !.trial = n, !.left = m.agents]
<1>1. /\ d \in Duels /\ m \in Manifests /\ d.rows \in SUBSET Rows
      /\ d.trial \in 1..m.trials /\ d.at \in 1..Len(m.tasks)
      /\ Fill(d.rows, m, Done(d)) /\ InEarnest(d.rows, d.dry)
  BY DEF DuelSound, Duels
<1>2. m.agents \in SUBSET Agents /\ Len(m.tasks) \in Nat \ {0} /\ m.trials \in Nat \ {0}
  BY <1>1, ManifestShape
<1>3. i \in 1..Len(m.tasks) /\ n \in 1..m.trials /\ i \in Nat /\ n \in Nat
  BY <1>1, <1>2
<1>4. /\ e \in Duels /\ e.left = m.agents /\ e.rows = d.rows
      /\ e.manifest = m /\ e.dry = d.dry /\ e.at = i /\ e.trial = n
  <2>0. d \in Duels /\ m.agents \in SUBSET Agents /\ i \in Nat /\ n \in Nat
    BY <1>1, <1>2, <1>3
  <2> QED
    BY <2>0 DEF Duels
<1>5. \A s \in Slots(m) : s[1] \in 1..Len(m.tasks) /\ s[2] \in 1..m.trials /\ s[3] \in m.agents
  BY <1>1, SlotParts
<1> HIDE DEF e
<1>6. \A s \in Slots(m) :
          (\/ s[2] < n
           \/ s[2] = n /\ s[1] < i)
          <=> (\/ s[2] < d.trial
               \/ s[2] = d.trial /\ s[1] < d.at
               \/ s[2] = d.trial /\ s[1] = d.at)
  <2> SUFFICES ASSUME NEW s \in Slots(m)
               PROVE  (\/ s[2] < n
                       \/ s[2] = n /\ s[1] < i)
                      <=> (\/ s[2] < d.trial
                           \/ s[2] = d.trial /\ s[1] < d.at
                           \/ s[2] = d.trial /\ s[1] = d.at)
    OBVIOUS
  <2>1. s[1] \in 1..Len(m.tasks) /\ s[2] \in 1..m.trials
    BY <1>5
  <2> HIDE DEF m
  <2> QED
    BY <1>1, <1>2, <1>3, <2>1 DEF m
<1>7. Done(e) = Done(d)
  <2>1. Done(e) = {s \in Slots(m) : s[2] < n \/ (s[2] = n /\ s[1] < i)}
    BY <1>4, <1>5 DEF Done
  <2>2. Done(d) = {s \in Slots(m) : \/ s[2] < d.trial
                                    \/ s[2] = d.trial /\ s[1] < d.at
                                    \/ s[2] = d.trial /\ s[1] = d.at}
    BY DEF Done
  <2> QED
    BY <1>6, <2>1, <2>2
<1>8. DuelSound(e)
  <2> HIDE DEF m
  <2>1. Fill(e.rows, e.manifest, Done(e)) /\ InEarnest(e.rows, e.dry)
    BY <1>1, <1>4, <1>7
  <2>2. e.trial \in 1..e.manifest.trials /\ e.at \in 1..Len(e.manifest.tasks)
    BY <1>3, <1>4
  <2> QED
    BY <1>4, <2>1, <2>2 DEF DuelSound
<1> QED
  BY <1>8 DEF e

LEMMA AllDone ==
    ASSUME NEW d, DuelSound(d), d.left = {}, d.at = Len(d.manifest.tasks),
           d.trial = d.manifest.trials
    PROVE  Done(d) = Slots(d.manifest)
<1>1. d.manifest \in Manifests
  BY DEF DuelSound, Duels
<1>2. \A s \in Slots(d.manifest) :
          s[1] \in 1..Len(d.manifest.tasks) /\ s[2] \in 1..d.manifest.trials
  BY <1>1, SlotParts
<1>3. Len(d.manifest.tasks) \in Nat /\ d.manifest.trials \in Nat
  BY <1>1, ManifestShape
<1>4. \A s \in Slots(d.manifest) :
          s[2] < d.trial \/ (s[2] = d.trial /\ (s[1] < d.at \/ s[1] = d.at))
  BY <1>2, <1>3
<1> QED
  BY <1>4 DEF Done

-----------------------------------------------------------------------------
(* What a whole campaign's rows say. *)

LEMMA DivMonotone ==
    ASSUME NEW D \in Nat \ {0}, NEW x \in Nat, NEW y \in Nat, x <= y
    PROVE  x \div D <= y \div D
BY SMTT(20)

LEMMA RowsPaired ==
    ASSUME NEW m \in Manifests, NEW rows, Fill(rows, m, Slots(m)), NEW a \in m.agents,
           NEW b \in m.agents
    PROVE  \A r \in Of(rows, a) : \E q \in Of(rows, b) : q.task = r.task /\ q.trial = r.trial
<1> SUFFICES ASSUME NEW r \in Of(rows, a)
             PROVE  \E q \in Of(rows, b) : q.task = r.task /\ q.trial = r.trial
  OBVIOUS
<1>1. PICK s \in Slots(m) : At(m, r, s)
  BY DEF Of, Fill
<1>2. <<s[1], s[2], b>> \in Slots(m)
  BY SlotParts
<1>3. PICK q \in rows : At(m, q, <<s[1], s[2], b>>)
  BY <1>2 DEF Fill
<1> QED
  BY <1>1, <1>3 DEF At, Of

LEMMA SameMany ==
    ASSUME NEW m \in Manifests, NEW rows, Fill(rows, m, Slots(m)), NEW a \in m.agents,
           NEW b \in m.agents
    PROVE  /\ IsFiniteSet(Of(rows, a)) /\ Cardinality(Of(rows, a)) \in Nat
           /\ Cardinality(Of(rows, b)) <= Cardinality(Of(rows, a))
<1> DEFINE A == Of(rows, a)
           B == Of(rows, b)
           f == [r \in A |-> CHOOSE q \in B : q.task = r.task /\ q.trial = r.trial]
<1>1. \A r \in A : f[r] \in B /\ f[r].task = r.task /\ f[r].trial = r.trial
  BY RowsPaired
<1>2. \A q \in B : \E r \in A : r.task = q.task /\ r.trial = q.trial
  BY RowsPaired
<1>3. \A p, q \in B : p.task = q.task /\ p.trial = q.trial => p = q
  BY DEF Of, Fill
<1>4. f \in [A -> B]
  BY <1>1
<1>5. IsFiniteSet(A)
  BY FS_Subset DEF Of, Fill
<1> HIDE DEF A, B, f
<1>6. \A q \in B : \E r \in A : f[r] = q
  BY <1>1, <1>2, <1>3
<1>7. f \in Surjection(A, B)
  BY <1>4, <1>6 DEF Surjection
<1>8. Cardinality(B) <= Cardinality(A)
  BY <1>5, <1>7, FS_Surjection
<1> QED
  BY <1>5, <1>8, FS_CardinalityType DEF A, B

\* What is so of the rows behind a qualified report.
LEMMA QualifiedRows ==
    ASSUME NEW m \in Manifests, NEW rows \in SUBSET Rows, Fill(rows, m, Slots(m)),
           NEW report, report.rows = rows, Qualified(report)
    PROVE  /\ m.agents = Agents
           /\ \A r \in rows : Completed(r)
           /\ rows # {}
           /\ \A r, q \in rows : r.task = q.task => r.repo = q.repo
<1>1. RunsComplete(report) /\ SourcesHold(report)
  BY DEF Qualified
<1>2. \A a \in Agents : Of(rows, a) # {} /\ \A r \in Of(rows, a) : Completed(r)
  BY <1>1 DEF RunsComplete
<1>3. ASSUME NEW a \in Agents PROVE a \in m.agents
  <2>1. PICK r \in rows : r.agent = a
    BY <1>2 DEF Of
  <2>2. PICK s \in Slots(m) : At(m, r, s)
    BY DEF Fill
  <2> QED
    BY <2>1, <2>2, SlotParts DEF At
<1>4. m.agents = Agents
  BY <1>3, ManifestShape
<1>5. \A r \in rows : r.agent \in Agents
  BY DEF Rows
<1>6. \A r \in rows : Completed(r)
  BY <1>2, <1>5 DEF Of
<1>7. rows # {}
  BY <1>2 DEF Of, Agents
<1>8. ASSUME NEW r \in rows, NEW q \in rows, r.task = q.task PROVE r.repo = q.repo
  <2> DEFINE same == {s \in rows : s.task = r.task}
             f == [s \in rows |-> s.repo]
             repos == {f[s] : s \in same}
  <2>1. Cardinality({s.repo : s \in same}) = 1
    BY <1>1 DEF SourcesHold, TasksOf
  <2>2. repos = {s.repo : s \in same}
    OBVIOUS
  <2>3. IsFiniteSet(same)
    BY FS_Subset DEF Fill
  <2> HIDE DEF f
  <2>4. IsFiniteSet(repos)
    BY <2>3, ImageBound
  <2>5. r.repo \in repos /\ q.repo \in repos
    BY <1>8 DEF f
  <2> HIDE DEF repos
  <2>6. PICK x : repos = {x}
    BY <2>1, <2>2, <2>4, FS_Singleton
  <2> QED
    BY <2>5, <2>6
<1> QED
  BY <1>4, <1>6, <1>7, <1>8

\* With as many runs each, five percent more of them is at least one more.
LEMMA MoreVerified ==
    ASSUME NEW m \in Manifests, NEW rows \in SUBSET Rows, Fill(rows, m, Slots(m)),
           m.agents = Agents, rows # {},
           Percent(Of(rows, "nexus"), Verified) >= Percent(Of(rows, "claude_code"), Verified) + 5
    PROVE  Number(Of(rows, "nexus"), Verified) > Number(Of(rows, "claude_code"), Verified)
<1> DEFINE N == Of(rows, "nexus")
           C == Of(rows, "claude_code")
           n == Number(N, Verified)
           c == Number(C, Verified)
           D == Cardinality(N)
<1>1. "nexus" \in m.agents /\ "claude_code" \in m.agents
  BY DEF Agents
<1>2. IsFiniteSet(N) /\ IsFiniteSet(C) /\ D \in Nat /\ Cardinality(C) \in Nat
      /\ Cardinality(N) <= Cardinality(C) /\ Cardinality(C) <= Cardinality(N)
  BY <1>1, SameMany
<1>3. Cardinality(C) = D
  BY <1>2
<1>4. n \in Nat /\ c \in Nat
  <2>1. IsFiniteSet({r \in N : Verified(r)}) /\ IsFiniteSet({r \in C : Verified(r)})
    BY <1>2, FS_Subset
  <2> QED
    BY <2>1, FS_CardinalityType DEF Number
<1>5. N # {}
  <2>1. PICK r \in rows : TRUE
    OBVIOUS
  <2>2. r.agent \in m.agents /\ r \in Of(rows, r.agent)
    BY DEF Rows, Of
  <2>3. \E q \in N : q.task = r.task /\ q.trial = r.trial
    BY <1>1, <2>2, RowsPaired
  <2> QED
    BY <2>3
<1>6. D # 0 /\ C # {}
  BY <1>2, <1>3, <1>5, FS_EmptySet
<1>7. Percent(N, Verified) = (100 * n) \div D /\ Percent(C, Verified) = (100 * c) \div D
  BY <1>3, <1>5, <1>6 DEF Percent
<1> HIDE DEF N, C, n, c, D
<1>8. (100 * n) \div D >= (100 * c) \div D + 5
  BY <1>7 DEF N, C
<1>9. SUFFICES ASSUME n <= c
               PROVE  FALSE
  BY <1>4 DEF n, c, N, C
<1>10. 100 * n \in Nat /\ 100 * c \in Nat /\ 100 * n <= 100 * c
  BY <1>4, <1>9
<1>11. D \in Nat \ {0}
  BY <1>2, <1>6
<1>12. (100 * n) \div D <= (100 * c) \div D
  BY <1>10, <1>11, DivMonotone
<1>13. (100 * n) \div D \in Int /\ (100 * c) \div D \in Int
  BY <1>10, <1>11
<1> QED
  BY <1>8, <1>12, <1>13

LEMMA ClaimIsEarned ==
    ASSUME CampaignInv
    PROVE  ClaimEarned
<1> SUFFICES ASSUME claim # <<>>
             PROVE  \E w \in published :
            /\ Substance(w) = Substance(claim[1]) /\ ~w.dry /\ w.manifest = Trusted
            /\ \A t \in ToSet(Trusted.tasks), n \in 1..Trusted.trials, a \in Agents :
                   \E r \in w.rows : r.task = t /\ r.trial = n /\ r.agent = a /\ Completed(r)
            /\ \A r, s \in w.rows : r.task = s.task => r.repo = s.repo
            /\ Number(Of(w.rows, "nexus"), Verified) > Number(Of(w.rows, "claude_code"), Verified)
  BY DEF ClaimEarned
<1> DEFINE report == claim[1]
<1>1. Vouched(report, published) /\ Qualified(report)
  BY DEF CampaignInv
<1> HIDE DEF report
<1>2. SignatureHolds(report) /\ report.manifest = Trusted
  BY <1>1 DEF Qualified, SealHolds
<1>3. /\ report.signature # <<>> /\ report.signature[1].by = "lab"
      /\ report.signature[1].payload = Payload(report)
  BY <1>2 DEF SignatureHolds
<1>4. PICK w \in published :
          /\ w.manifest = Payload(report).manifest /\ w.oracle = Payload(report).oracle
          /\ w.rows = Payload(report).rows
  BY <1>1, <1>3 DEF Vouched
<1>5. w.manifest = report.manifest /\ w.oracle = report.oracle /\ w.rows = report.rows
  BY <1>4 DEF Payload
<1>6. Substance(w) = Substance(report)
  BY <1>5 DEF Substance
<1>7. /\ w.manifest \in Manifests /\ w.rows \in SUBSET Rows
      /\ Fill(w.rows, w.manifest, Slots(w.manifest)) /\ InEarnest(w.rows, w.dry)
  BY DEF CampaignInv, PublishedSound, Reports
<1>8. /\ w.manifest.agents = Agents
      /\ \A r \in w.rows : Completed(r)
      /\ w.rows # {}
      /\ \A r, q \in w.rows : r.task = q.task => r.repo = q.repo
  BY <1>1, <1>5, <1>7, QualifiedRows
<1>9. ~w.dry
  <2>1. PICK r \in w.rows : TRUE
    BY <1>8
  <2>2. r.ending # "planned"
    BY <1>8 DEF Completed
  <2> QED
    BY <1>7, <2>2 DEF InEarnest
<1>10. w.manifest = Trusted
  BY <1>2, <1>5
<1>11. ASSUME NEW t \in ToSet(Trusted.tasks), NEW n \in 1..Trusted.trials, NEW a \in Agents
       PROVE  \E r \in w.rows : r.task = t /\ r.trial = n /\ r.agent = a /\ Completed(r)
  <2>1. Trusted \in Manifests /\ Trusted.tasks \in Seq(TaskIds)
    BY <1>7, <1>10, ManifestShape
  <2>2. PICK i \in 1..Len(Trusted.tasks) : t = Trusted.tasks[i]
    BY <2>1 DEF ToSet
  <2>3. /\ <<i, n, a>> \in Slots(Trusted)
        /\ <<i, n, a>>[1] = i /\ <<i, n, a>>[2] = n /\ <<i, n, a>>[3] = a
    BY <1>8, <1>10, <2>1, SlotParts
  <2>4. PICK r \in w.rows : At(Trusted, r, <<i, n, a>>)
    BY <1>7, <1>10, <2>3 DEF Fill
  <2> QED
    BY <1>8, <2>2, <2>3, <2>4 DEF At
<1>12. Number(Of(w.rows, "nexus"), Verified) > Number(Of(w.rows, "claude_code"), Verified)
  <2>1. Percent(Of(w.rows, "nexus"), Verified) >= Percent(Of(w.rows, "claude_code"), Verified) + 5
    BY <1>1, <1>5 DEF Qualified, ThresholdsHold
  <2> QED
    BY <1>7, <1>8, <2>1, MoreVerified
<1> QED
  BY <1>6, <1>8, <1>9, <1>10, <1>11, <1>12 DEF report

\* What the gate counts in the rows of a whole campaign.
LEMMA GroupsComplete ==
    ASSUME NEW m \in Manifests, m.agents = Agents, NEW report,
           Fill(report.rows, m, Slots(m))
    PROVE  /\ TasksOf(report) = ToSet(m.tasks)
           /\ \A t \in ToSet(m.tasks) : TrialsOf(report, t) = 1..m.trials
           /\ \A t \in ToSet(m.tasks), n \in 1..m.trials :
                  {r.agent : r \in {s \in report.rows : s.task = t /\ s.trial = n}} = Agents
<1> DEFINE rows == report.rows
<1>1. m.tasks \in Seq(TaskIds) /\ Len(m.tasks) \in Nat \ {0} /\ m.trials \in Nat \ {0}
  BY ManifestShape
<1>2. ToSet(m.tasks) = {m.tasks[i] : i \in 1..Len(m.tasks)}
  BY <1>1 DEF ToSet
<1>3. \A r \in rows : /\ r.task \in ToSet(m.tasks) /\ r.trial \in 1..m.trials
                      /\ r.agent \in Agents
  <2> TAKE r \in rows
  <2>1. PICK s \in Slots(m) : At(m, r, s)
    BY DEF Fill
  <2> QED
    BY <1>2, <2>1, SlotParts DEF At
<1>4. \A t \in ToSet(m.tasks), n \in 1..m.trials, a \in Agents :
          \E r \in rows : r.task = t /\ r.trial = n /\ r.agent = a
  <2> TAKE t \in ToSet(m.tasks), n \in 1..m.trials, a \in Agents
  <2>1. PICK i \in 1..Len(m.tasks) : t = m.tasks[i]
    BY <1>2
  <2>2. /\ <<i, n, a>> \in Slots(m)
        /\ <<i, n, a>>[1] = i /\ <<i, n, a>>[2] = n /\ <<i, n, a>>[3] = a
    BY SlotParts
  <2>3. PICK r \in rows : At(m, r, <<i, n, a>>)
    BY <2>2 DEF Fill
  <2> QED
    BY <2>1, <2>2, <2>3 DEF At
<1>5. 1 \in 1..m.trials /\ "nexus" \in Agents
  BY <1>1 DEF Agents
<1> HIDE DEF rows
<1>6. TasksOf(report) = ToSet(m.tasks)
  <2>1. TasksOf(report) = {r.task : r \in rows}
    BY DEF TasksOf, rows
  <2>2. \A t \in ToSet(m.tasks) : \E r \in rows : r.task = t
    BY <1>4, <1>5
  <2> QED
    BY <1>3, <2>1, <2>2
<1>7. ASSUME NEW t \in ToSet(m.tasks) PROVE TrialsOf(report, t) = 1..m.trials
  <2>1. TrialsOf(report, t) = {r.trial : r \in {s \in rows : s.task = t}}
    BY DEF TrialsOf, rows
  <2>2. \A n \in 1..m.trials : \E r \in rows : r.task = t /\ r.trial = n
    BY <1>4, <1>5
  <2> QED
    BY <1>3, <2>1, <2>2
<1>8. ASSUME NEW t \in ToSet(m.tasks), NEW n \in 1..m.trials
      PROVE  {r.agent : r \in {s \in rows : s.task = t /\ s.trial = n}} = Agents
  BY <1>3, <1>4
<1> QED
  BY <1>6, <1>7, <1>8 DEF rows

LEMMA TaskCount ==
    ASSUME NEW m \in Manifests
    PROVE  IsFiniteSet(ToSet(m.tasks)) /\ Cardinality(ToSet(m.tasks)) = Len(m.tasks)
<1> DEFINE S == 1..Len(m.tasks)
           T == ToSet(m.tasks)
           f == [i \in S |-> m.tasks[i]]
<1>1. /\ m.tasks \in Seq(TaskIds) /\ Len(m.tasks) \in Nat
      /\ \A i, j \in S : m.tasks[i] = m.tasks[j] => i = j
  BY ManifestShape
<1>2. T = {m.tasks[i] : i \in S}
  BY <1>1 DEF ToSet
<1>3. f \in Surjection(S, T)
  BY <1>2 DEF Surjection
<1>4. \A i, j \in S : f[i] = f[j] => i = j
  BY <1>1
<1>5. IsFiniteSet(S) /\ Cardinality(S) = Len(m.tasks)
  <2>1. 1 \in Int /\ Len(m.tasks) \in Int /\ 1 - 1 \leq Len(m.tasks)
    BY <1>1
  <2>2. IsFiniteSet(S) /\ Cardinality(S) = IF 1 > Len(m.tasks) THEN 0 ELSE Len(m.tasks) - 1 + 1
    BY <2>1, FS_Interval
  <2> QED
    BY <1>1, <2>2
<1> HIDE DEF S, T, f
<1>6. IsFiniteSet(T) /\ Cardinality(T) <= Cardinality(S)
      /\ (Cardinality(T) = Cardinality(S) <=> f \in Injection(S, T))
  BY <1>3, <1>5, FS_Surjection
<1>7. f \in Injection(S, T)
  BY <1>3, <1>4 DEF Surjection, Injection, IsInjective
<1> QED
  BY <1>5, <1>6, <1>7 DEF T

LEMMA ReadyIsJudged ==
    ASSUME CampaignInv
    PROVE  ReadyIsEvaluable
<1> SUFFICES ASSUME file # <<>>, foreseen # <<>>, NEW w \in published,
                    Substance(w) = Substance(file[1]),
                    file[1].manifest = foreseen[1].manifest, file[1].manifest.long = {},
                    \A r \in file[1].rows : /\ r.repo = foreseen[1].repo[r.task]
                                            /\ r.ending # "helped"
             PROVE  GroupsHold(file[1]) /\ CoverageHolds(file[1]) /\ SourcesHold(file[1])
  BY DEF ReadyIsEvaluable
<1> DEFINE report == file[1]
           m == file[1].manifest
           sources == foreseen[1].repo
           rows == report.rows
           T == ToSet(m.tasks)
<1>1. w.manifest = m /\ w.rows = rows
  <2>1. /\ Substance(w).manifest = w.manifest /\ Substance(w).rows = w.rows
        /\ Substance(report).manifest = m /\ Substance(report).rows = rows
    BY DEF Substance
  <2> QED
    BY <2>1
<1>2. m \in Manifests /\ ReadyFor(m, sources)
  BY DEF CampaignInv
<1>3. Fill(rows, m, Slots(m))
  BY <1>1 DEF CampaignInv, PublishedSound
<1>4. /\ m.agents = Agents /\ m.trials >= MinTrials /\ Len(m.tasks) >= MinTasks
      /\ EnoughPerCategory(T) /\ Cardinality({sources[t] : t \in T}) >= MinRepositories
  BY <1>2 DEF ReadyFor
<1>5. \A r \in rows : r.repo = sources[r.task] /\ r.ending # "helped"
  OBVIOUS
<1>51. \A r \in report.rows : r.ending # "helped" /\ r.task \notin report.manifest.long
  OBVIOUS
<1> HIDE DEF report, m, sources, rows
<1>6. /\ TasksOf(report) = T
      /\ \A t \in T : TrialsOf(report, t) = 1..m.trials
      /\ \A t \in T, n \in 1..m.trials :
             {r.agent : r \in {s \in rows : s.task = t /\ s.trial = n}} = Agents
  BY <1>2, <1>3, <1>4, GroupsComplete DEF rows
<1>7. GroupsHold(report)
  <2>1. ASSUME NEW t \in TasksOf(report), NEW n \in TrialsOf(report, t)
        PROVE  {r.agent : r \in {s \in rows : s.task = t /\ s.trial = n}} = Agents
    <3>1. t \in T
      BY <1>6
    <3>2. n \in 1..m.trials
      BY <1>6, <3>1
    <3> QED
      BY <1>6, <3>1, <3>2, Zenon
  <2> QED
    BY <1>51, <2>1 DEF GroupsHold, rows
<1>8. CoverageHolds(report)
  <2>1. Cardinality(T) = Len(m.tasks)
    BY <1>2, TaskCount
  <2>2. m.trials \in Nat \ {0}
    BY <1>2, ManifestShape
  <2>3. Cardinality(1..m.trials) = m.trials
    <3>1. 1 \in Int /\ m.trials \in Int
      BY <2>2
    <3>2. Cardinality(1..m.trials) = IF 1 > m.trials THEN 0 ELSE m.trials - 1 + 1
      BY <3>1, FS_Interval
    <3> QED
      BY <2>2, <3>2
  <2> QED
    BY <1>4, <1>6, <2>1, <2>3 DEF CoverageHolds
<1>9. \A t \in T : \E r \in rows : r.task = t
  BY <1>6 DEF TasksOf, rows
<1>10. \A r \in rows : r.task \in T
  BY <1>6 DEF TasksOf, rows
<1>11. SourcesHold(report)
  <2>1. {r.repo : r \in rows} = {sources[t] : t \in T}
    BY <1>5, <1>9, <1>10
  <2>2. ASSUME NEW t \in T
        PROVE  Cardinality({r.repo : r \in {s \in rows : s.task = t}}) = 1
    <3>1. {r.repo : r \in {s \in rows : s.task = t}} = {sources[t]}
      BY <1>5, <1>9
    <3> QED
      BY <3>1, FS_Singleton
  <2> QED
    BY <1>4, <1>6, <2>1, <2>2 DEF SourcesHold, rows
<1> QED
  BY <1>7, <1>8, <1>11 DEF report

-----------------------------------------------------------------------------
(* The campaign's steps keep its invariant. *)

LEMMA CampaignStarts ==
    ASSUME CampaignInit
    PROVE  CampaignInv
<1>1. manifest \in Manifests /\ repo \in [TaskIds -> SourceContents] /\ oracle \in Oracles
  BY CampaignAssumption DEF CampaignInit, Oracles
<1> QED
  BY <1>1 DEF CampaignInit, CampaignInv

LEMMA Written ==
    ASSUME NEW report, NEW origins, NEW more, Vouched(report, origins), origins \subseteq more
    PROVE  Vouched(report, more)
BY DEF Vouched

LEMMA PreflightKeeps ==
    ASSUME CampaignInv, Preflight
    PROVE  CampaignInv'
<1>1. foreseen' # <<>> => /\ foreseen'[1].manifest \in Manifests
                         /\ ReadyFor(foreseen'[1].manifest, foreseen'[1].repo)
  BY DEF CampaignInv, Preflight
<1> QED
  BY <1>1 DEF CampaignInv, Preflight

LEMMA BeginDuelKeeps ==
    ASSUME CampaignInv, NEW dry \in BOOLEAN, BeginDuel(dry)
    PROVE  CampaignInv'
<1> DEFINE d == [manifest |-> manifest, dry |-> dry, trial |-> 1, at |-> 1,
                 left |-> manifest.agents, rows |-> {}]
<1>1. manifest \in Manifests
  BY DEF CampaignInv
<1>2. manifest.agents \in SUBSET Agents /\ Len(manifest.tasks) \in Nat \ {0}
      /\ manifest.trials \in Nat \ {0}
  BY <1>1, ManifestShape
<1>3. /\ d.manifest = manifest /\ d.dry = dry /\ d.trial = 1 /\ d.at = 1
      /\ d.left = manifest.agents /\ d.rows = {}
  OBVIOUS
<1>4. d \in Duels
  <2>1. {} \in SUBSET Rows /\ 1 \in Nat
    OBVIOUS
  <2> QED
    BY <1>1, <1>2, <2>1 DEF Duels
<1>5. duel' = <<d>>
  BY DEF BeginDuel
<1> HIDE DEF d
<1>6. Fill(d.rows, d.manifest, Done(d))
  BY <1>1, <1>3, NothingDone
<1>7. DuelSound(d)
  <2>1. InEarnest(d.rows, d.dry)
    BY <1>3 DEF InEarnest
  <2>2. d.trial \in 1..d.manifest.trials /\ d.at \in 1..Len(d.manifest.tasks)
        /\ d.left \subseteq d.manifest.agents
    BY <1>2, <1>3
  <2> QED
    BY <1>4, <1>6, <2>1, <2>2 DEF DuelSound
<1>8. duel' # <<>> => DuelSound(duel'[1])
  BY <1>5, <1>7
<1> QED
  BY <1>8 DEF CampaignInv, BeginDuel

LEMMA RunOneKeeps ==
    ASSUME CampaignInv, NEW a \in Agents, NEW e \in Outcomes \union {"planned"}, RunOne(a, e)
    PROVE  CampaignInv'
<1> DEFINE d == duel[1]
           r == [task |-> d.manifest.tasks[d.at], trial |-> d.trial, agent |-> a,
                 ending |-> e, repo |-> repo[d.manifest.tasks[d.at]]]
<1>1. DuelSound(d) /\ a \in d.left /\ (e = "planned") = d.dry
  BY DEF CampaignInv, RunOne
<1>2. d.manifest \in Manifests /\ d.at \in 1..Len(d.manifest.tasks) /\ d.trial \in Nat
  BY <1>1 DEF DuelSound, Duels
<1>3. d.manifest.tasks[d.at] \in TaskIds
  BY <1>2, ManifestShape
<1>4. repo[d.manifest.tasks[d.at]] \in SourceContents
  BY <1>3 DEF CampaignInv
<1>5. e \in Endings
  BY CampaignAssumption DEF Endings
<1>6. r \in Rows
  BY <1>2, <1>3, <1>4, <1>5 DEF Rows
<1>7. /\ r.task = d.manifest.tasks[d.at] /\ r.trial = d.trial /\ r.agent = a
      /\ (r.ending = "planned") = d.dry
  BY <1>1
<1>8. duel' = <<[d EXCEPT !.left = @ \ {a}, !.rows = @ \union {r}]>>
  BY DEF RunOne
<1> HIDE DEF d, r
<1>9. DuelSound([d EXCEPT !.left = @ \ {a}, !.rows = @ \union {r}])
  BY <1>1, <1>6, <1>7, RunTaken
<1>10. duel' # <<>> => DuelSound(duel'[1])
  BY <1>8, <1>9
<1> QED
  BY <1>10 DEF CampaignInv, RunOne

LEMMA NextGroupKeeps ==
    ASSUME CampaignInv, NextGroup
    PROVE  CampaignInv'
<1> DEFINE d == duel[1]
           over == d.at = Len(d.manifest.tasks)
           i == IF over THEN 1 ELSE d.at + 1
           n == IF over THEN d.trial + 1 ELSE d.trial
<1>1. DuelSound(d) /\ d.left = {} /\ (~over \/ d.trial < d.manifest.trials)
  BY DEF CampaignInv, NextGroup
<1>2. duel' = <<[d EXCEPT !.at = i, !.trial = n, !.left = d.manifest.agents]>>
  BY DEF NextGroup
<1>3. d.manifest \in Manifests /\ d.at \in 1..Len(d.manifest.tasks)
  BY <1>1 DEF DuelSound, Duels
<1>4. Len(d.manifest.tasks) \in Nat
  BY <1>3, ManifestShape
<1>5. \/ d.at < Len(d.manifest.tasks) /\ i = d.at + 1 /\ n = d.trial
      \/ d.at = Len(d.manifest.tasks) /\ d.trial < d.manifest.trials /\ i = 1 /\ n = d.trial + 1
  BY <1>1, <1>3, <1>4
<1> HIDE DEF d, i, n, over
<1>6. DuelSound([d EXCEPT !.at = i, !.trial = n, !.left = d.manifest.agents])
  BY <1>1, <1>5, GroupEnded
<1>7. duel' # <<>> => DuelSound(duel'[1])
  BY <1>2, <1>6
<1> QED
  BY <1>7 DEF CampaignInv, NextGroup

LEMMA FinishDuelKeeps ==
    ASSUME CampaignInv, FinishDuel
    PROVE  CampaignInv'
<1> DEFINE d == duel[1]
           w == [manifest |-> d.manifest, flags |-> d.manifest.flags, oracle |-> oracle,
                 dry |-> d.dry, rows |-> d.rows, evaluator |-> "lab", signature |-> <<>>]
<1>1. /\ DuelSound(d) /\ d.left = {} /\ d.at = Len(d.manifest.tasks)
      /\ d.trial = d.manifest.trials
  BY DEF CampaignInv, FinishDuel
<1>2. /\ d.manifest \in Manifests /\ d.dry \in BOOLEAN /\ d.rows \in SUBSET Rows
      /\ Fill(d.rows, d.manifest, Done(d)) /\ InEarnest(d.rows, d.dry)
  BY <1>1 DEF DuelSound, Duels
<1>3. d.manifest.flags \in BOOLEAN
  BY <1>2, ManifestShape
<1>4. oracle \in Oracles
  BY DEF CampaignInv
<1>5. w \in Reports
  BY <1>2, <1>3, <1>4 DEF Reports, Evaluators
<1>6. /\ w.manifest = d.manifest /\ w.rows = d.rows /\ w.dry = d.dry /\ w.signature = <<>>
  OBVIOUS
<1>7. file' = <<w>> /\ published' = published \union {w} /\ duel' = <<>>
  BY DEF FinishDuel
<1> HIDE DEF d, w
<1>8. Done(d) = Slots(d.manifest)
  BY <1>1, AllDone
<1>9. PublishedSound(w)
  BY <1>2, <1>5, <1>6, <1>8 DEF PublishedSound
<1>10. \A x \in published' : PublishedSound(x)
  BY <1>7, <1>9 DEF CampaignInv
<1>11. Vouched(w, published')
  BY <1>5, <1>6, <1>7 DEF Vouched
<1>12. file' # <<>> => Vouched(file'[1], published')
  BY <1>7, <1>11
<1>13. published \subseteq published'
  BY <1>7
<1>14. desk' # <<>> => /\ desk'[1].evaluator \in Evaluators /\ desk'[1].report \in Reports
                       /\ desk'[1].evaluator = "lab" => desk'[1].report \in published'
  BY <1>13 DEF CampaignInv, FinishDuel
<1>15. claim' # <<>> => Vouched(claim'[1], published') /\ Qualified(claim'[1])
  BY <1>13, Written DEF CampaignInv, FinishDuel
<1> QED
  BY <1>7, <1>10, <1>12, <1>14, <1>15 DEF CampaignInv, FinishDuel

LEMMA ReadToSignKeeps ==
    ASSUME CampaignInv, NEW e \in {"lab", "other"}, ReadToSign(e)
    PROVE  CampaignInv'
<1>1. Vouched(file[1], published) /\ desk' = <<[report |-> file[1], evaluator |-> e]>>
      /\ (e = "lab" => file[1].signature = <<>>)
  BY DEF CampaignInv, ReadToSign
<1>2. file[1] \in Reports /\ (e = "lab" => file[1] \in published)
  BY <1>1 DEF Vouched
<1>3. desk'[1].report = file[1] /\ desk'[1].evaluator = e /\ published' = published
  BY <1>1 DEF ReadToSign
<1>4. /\ desk'[1].evaluator \in Evaluators /\ desk'[1].report \in Reports
      /\ desk'[1].evaluator = "lab" => desk'[1].report \in published'
  BY <1>2, <1>3 DEF Evaluators
<1> QED
  BY <1>4 DEF CampaignInv, ReadToSign

LEMMA PayloadParts ==
    ASSUME NEW report \in Reports
    PROVE  /\ Payload(report) \in Payloads
           /\ Payload(report).manifest = report.manifest
           /\ Payload(report).oracle = report.oracle
           /\ Payload(report).evaluator = report.evaluator
           /\ Payload(report).rows = report.rows
BY DEF Payload, Reports, Payloads

LEMMA SignedVouched ==
    ASSUME NEW report \in Reports, NEW e \in Evaluators, NEW origins,
           e = "lab" => report \in origins
    PROVE  Vouched(Signed(report, e), origins)
<1> DEFINE named == [report EXCEPT !.evaluator = e]
           mark == [by |-> e, payload |-> Payload(named)]
           signed == [named EXCEPT !.signature = <<mark>>]
<1>1. /\ named \in Reports /\ named.manifest = report.manifest /\ named.oracle = report.oracle
      /\ named.rows = report.rows
  BY DEF Reports
<1> HIDE DEF named
<1>2. /\ Payload(named) \in Payloads /\ Payload(named).manifest = report.manifest
      /\ Payload(named).oracle = report.oracle /\ Payload(named).rows = report.rows
  BY <1>1, PayloadParts
<1>3. mark \in [by : Evaluators, payload : Payloads]
  BY <1>2
<1>4. mark.by = e /\ mark.payload = Payload(named)
  OBVIOUS
<1> HIDE DEF mark
<1>5. /\ <<mark>> \in Seq([by : Evaluators, payload : Payloads])
      /\ <<mark>> # <<>> /\ <<mark>>[1] = mark
  BY <1>3
<1>6. signed \in Reports /\ signed.signature = <<mark>>
  BY <1>1, <1>5 DEF Reports
<1>7. Signed(report, e) = signed
  BY DEF Signed, named, mark
<1> HIDE DEF signed
<1>8. Vouched(signed, origins)
  <2>1. signed.signature # <<>> /\ signed.signature[1] = mark
    BY <1>5, <1>6
  <2>2. ASSUME e = "lab"
        PROVE  \E w \in origins :
                   /\ w.manifest = mark.payload.manifest /\ w.oracle = mark.payload.oracle
                   /\ w.rows = mark.payload.rows
    BY <1>2, <1>4, <2>2
  <2> QED
    BY <1>4, <1>6, <2>1, <2>2 DEF Vouched
<1> QED
  BY <1>7, <1>8

LEMMA WriteSignedKeeps ==
    ASSUME CampaignInv, WriteSigned
    PROVE  CampaignInv'
<1> DEFINE e == desk[1].evaluator
           report == desk[1].report
<1>1. /\ e \in Evaluators /\ report \in Reports /\ (e = "lab" => report \in published)
      /\ file' = <<Signed(report, e)>> /\ desk' = <<>> /\ published' = published
  BY DEF CampaignInv, WriteSigned
<1> HIDE DEF e, report
<1>2. Vouched(Signed(report, e), published)
  BY <1>1, SignedVouched
<1>3. file' # <<>> => Vouched(file'[1], published')
  BY <1>1, <1>2
<1> QED
  BY <1>1, <1>3 DEF CampaignInv, WriteSigned

LEMMA GateKeeps ==
    ASSUME CampaignInv, Gate
    PROVE  CampaignInv'
<1>1. claim' # <<>> => Vouched(claim'[1], published') /\ Qualified(claim'[1])
  BY DEF CampaignInv, Gate
<1> QED
  BY <1>1 DEF CampaignInv, Gate

LEMMA EditsKeep ==
    ASSUME CampaignInv,
           \/ \E t \in TaskIds, c \in SourceContents : EditRepository(t, c)
           \/ EditOracle
           \/ \E m \in Manifests : EditManifest(m)
    PROVE  CampaignInv'
<1>1. manifest' \in Manifests /\ repo' \in [TaskIds -> SourceContents] /\ oracle' \in Oracles
  BY DEF CampaignInv, EditRepository, EditOracle, EditManifest, Oracles
<1>2. UNCHANGED <<foreseen, duel, file, desk, claim, published>>
  BY DEF EditRepository, EditOracle, EditManifest
<1> QED
  BY <1>1, <1>2 DEF CampaignInv

LEMMA AlteredReport ==
    ASSUME NEW report \in Reports, NEW r \in Altered(report)
    PROVE  r \in Reports /\ r.signature = report.signature
<1>1. CASE r \in {[report EXCEPT !.rows = (@ \ {q}) \union {[q EXCEPT !.ending = e]}] :
                      q \in report.rows, e \in {"solved", "missed"}}
  <2>1. PICK q \in report.rows, e \in {"solved", "missed"} :
            r = [report EXCEPT !.rows = (@ \ {q}) \union {[q EXCEPT !.ending = e]}]
    BY <1>1
  <2>2. report.rows \in SUBSET Rows /\ e \in Endings
    BY DEF Reports, Endings
  <2>3. q \in Rows
    BY <2>2
  <2>4. [q EXCEPT !.ending = e] \in Rows
    BY <2>2, <2>3 DEF Rows
  <2>5. (report.rows \ {q}) \union {[q EXCEPT !.ending = e]} \in SUBSET Rows
    BY <2>2, <2>4
  <2> QED
    BY <2>1, <2>5 DEF Reports
<1>2. CASE r \in {[report EXCEPT !.rows = {q \in @ : q.task # t}] : t \in TaskIds}
  <2>1. PICK t \in TaskIds : r = [report EXCEPT !.rows = {q \in @ : q.task # t}]
    BY <1>2
  <2>2. {q \in report.rows : q.task # t} \in SUBSET Rows
    BY DEF Reports
  <2> QED
    BY <2>1, <2>2 DEF Reports
<1>3. CASE r = [report EXCEPT !.dry = ~@]
  BY <1>3 DEF Reports
<1> QED
  BY <1>1, <1>2, <1>3 DEF Altered

LEMMA AlterReportKeeps ==
    ASSUME CampaignInv, AlterReport
    PROVE  CampaignInv'
<1>1. PICK r \in Altered(file[1]) : file' = <<r>>
  BY DEF AlterReport
<1>2. Vouched(file[1], published) /\ file[1].signature # <<>> /\ published' = published
  BY DEF CampaignInv, AlterReport
<1>3. r \in Reports /\ r.signature = file[1].signature
  BY <1>2, AlteredReport DEF Vouched
<1>4. Vouched(r, published)
  BY <1>2, <1>3 DEF Vouched
<1>5. file' # <<>> => Vouched(file'[1], published')
  BY <1>1, <1>2, <1>4
<1> QED
  BY <1>5 DEF CampaignInv, AlterReport

LEMMA CampaignStep ==
    ASSUME CampaignInv, [CampaignNext]_campaignVars
    PROVE  CampaignInv'
<1>1. CASE Preflight
  BY <1>1, PreflightKeeps
<1>2. CASE NextGroup
  BY <1>2, NextGroupKeeps
<1>3. CASE FinishDuel
  BY <1>3, FinishDuelKeeps
<1>4. CASE WriteSigned
  BY <1>4, WriteSignedKeeps
<1>5. CASE Gate
  BY <1>5, GateKeeps
<1>6. CASE AlterReport
  BY <1>6, AlterReportKeeps
<1>7. CASE \E dry \in BOOLEAN : BeginDuel(dry)
  BY <1>7, BeginDuelKeeps
<1>8. CASE \E a \in Agents, e \in Outcomes \union {"planned"} : RunOne(a, e)
  BY <1>8, RunOneKeeps
<1>9. CASE \E e \in {"lab", "other"} : ReadToSign(e)
  BY <1>9, ReadToSignKeeps
<1>10. CASE \/ \E t \in TaskIds, c \in SourceContents : EditRepository(t, c)
            \/ EditOracle
            \/ \E m \in Manifests : EditManifest(m)
  BY <1>10, EditsKeep
<1>11. CASE UNCHANGED campaignVars
  BY <1>11 DEF CampaignInv, campaignVars
<1> QED
  BY <1>1, <1>2, <1>3, <1>4, <1>5, <1>6, <1>7, <1>8, <1>9, <1>10, <1>11 DEF CampaignNext

\* A superiority claim that the gate has let through rests on a duel carried out in full and in
\* earnest on the sealed manifest, whatever was edited, signed or altered; and a campaign that the
\* preflight called ready is not refused for its shape (competitive_qualification.py:1-7,
\* competitive_benchmark.py:230).
THEOREM CampaignSoundHolds == CampaignSpec => []CampaignSound
<1>1. CampaignInv => CampaignSound
  BY ClaimIsEarned, ReadyIsJudged DEF CampaignSound
<1>2. CampaignInit => CampaignInv
  BY CampaignStarts
<1>3. CampaignInv /\ [CampaignNext]_campaignVars => CampaignInv'
  BY CampaignStep
<1> QED
  BY <1>1, <1>2, <1>3, PTL DEF CampaignSpec
=============================================================================
