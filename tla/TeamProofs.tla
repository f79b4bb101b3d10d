----------------------------- MODULE TeamProofs -----------------------------
(***************************************************************************)
(* What holds of Collaboration for any workers, any dependencies and       *)
(* scopes and any budgets: workers start in order, write apart, and what   *)
(* is integrated is what was verified, of a run that was not cancelled.    *)
(*                                                                         *)
(* And of LeadIntegration for any files, results and bounds: what is       *)
(* reported as integrated is what was applied, a clean rollback has        *)
(* restored what the baseline saw, and no commit overwrites what another   *)
(* program wrote before the drift check.                                   *)
(***************************************************************************)
EXTENDS Collaboration, LeadIntegration, SequenceTheorems, WellFoundedInduction, TLAPS

-----------------------------------------------------------------------------
(* The inductive invariant. *)

Phases == {"analyzing", "registering", "reserving", "preparing", "running", "gathering",
           "reviewing", "integrating", "completing", "done"}
WorkerSteps == {"none", "loop", "asking", "tools", "reading", "writing", "verifying", "ended"}
Counts == [Workers -> Nat]

\* What TeamTypeOK says of a worker, as functions.
TeamTypes ==
    /\ team \in Teams /\ teamPc \in Phases /\ cancelled \in BOOLEAN
    /\ outcome \in {"none", "COMPLETED", "FAILED", "CANCELLED", "raised", "killed"}
    /\ registered \subseteq Workers /\ reserved \subseteq Workers /\ launched \subseteq Workers
    /\ orphans \subseteq Workers /\ spaces \subseteq Workers /\ events \subseteq Workers
    /\ approved \subseteq Workers /\ integrated \subseteq Workers
    /\ wpc \in [Workers -> WorkerSteps] /\ result \in [Workers -> Statuses]
    /\ calls \in Counts /\ tools \in Counts /\ retries \in Counts
    /\ changes \in Counts /\ written \in Counts /\ checked \in Counts

\* A worker that goes on has budget left for what it does next.
WithinBudget(w) ==
    /\ calls[w] <= MaxCalls /\ (wpc[w] = "asking" => calls[w] < MaxCalls)
    /\ tools[w] <= MaxTools + 1 /\ (wpc[w] # "ended" => tools[w] <= MaxTools)
    /\ retries[w] <= MaxRetries + 1 /\ (wpc[w] # "ended" => retries[w] <= MaxRetries)

\* The books of a worker: while it works it reports every mutation it made;
\* only one that timed out leaves a thread behind; a result of success was
\* verified as it stands.
Booked(w) ==
    /\ result[w] # "none" => wpc[w] = "ended"
    /\ wpc[w] # "ended" => written[w] = changes[w]
    /\ wpc[w] = "verifying" => changes[w] > 0
    /\ w \in orphans => result[w] = "TIMED_OUT"
    /\ result[w] \in Finished /\ w \in Mutates =>
           written[w] = checked[w] /\ changes[w] = checked[w] /\ checked[w] > 0

\* Workers work while the run awaits them; the ones that have started are the
\* launched ones.
AtRest(w) ==
    /\ teamPc \notin {"gathering", "done"} => wpc[w] \in {"none", "ended"}
    /\ w \notin launched <=> wpc[w] = "none"
    /\ wpc[w] = "writing" => w \in reserved

\* An assignment starts after the ones it depends on, which have ended.
InOrder == \A w \in launched : \A d \in Deps[w] : d \in launched /\ wpc[d] = "ended"

\* Reservations exclude each other.
Apart == \A v, w \in reserved : v # w => scope[v] \cap scope[w] = {}

\* Only results of success are approved, and only approved ones integrated.
Accepted ==
    /\ \A w \in approved : result[w] \in Finished
    /\ integrated \subseteq approved
    /\ integrated # {} => teamPc \in {"completing", "done"}

\* A cancelled run goes no further than its workers.
Stopped ==
    /\ outcome # "none" => teamPc = "done"
    /\ cancelled => /\ teamPc \notin {"reviewing", "integrating", "completing"}
                    /\ integrated = {} /\ outcome # "COMPLETED"

TeamInv ==
    /\ TeamTypes
    /\ \A w \in Workers : WithinBudget(w) /\ Booked(w) /\ AtRest(w)
    /\ InOrder /\ Apart /\ Accepted /\ Stopped

-----------------------------------------------------------------------------
(* The run before its workers start. *)

LEMMA LeastNumber ==
    ASSUME NEW S \in SUBSET Nat, S # {}
    PROVE  LeastOf(S) \in S
<1>1. PICK m \in S : \A n \in S : <<n, m>> \notin OpToRel(<, Nat)
  BY NatLessThanWellFounded, WFMin, Zenon
<1>2. \A n \in S : ~(n < m)
  BY <1>1, Zenon DEF OpToRel
<1>3. \A n \in S : m <= n
  BY <1>2
<1> QED
  BY <1>3 DEF LeastOf

LEMMA TeamOf ==
    ASSUME TeamTypes
    PROVE  Deps \in [Workers -> SUBSET Workers] /\ Mutates \subseteq Workers
BY TeamAssumption DEF TeamTypes, Deps, Mutates

LEMMA InitGood ==
    ASSUME TeamInit
    PROVE  TeamInv
<1>1. TeamTypes
  BY DEF TeamInit, TeamTypes, Phases, WorkerSteps, Counts, Statuses
<1>2. ASSUME NEW w \in Workers PROVE WithinBudget(w) /\ Booked(w) /\ AtRest(w)
  BY TeamAssumption DEF TeamInit, WithinBudget, Booked, AtRest, Finished
<1>3. InOrder /\ Apart /\ Accepted /\ Stopped
  BY DEF TeamInit, InOrder, Apart, Accepted, Stopped
<1> QED
  BY <1>1, <1>2, <1>3 DEF TeamInv

LEMMA RegisterGood ==
    ASSUME TeamInv, Decide \/ Register \/ Prepare
    PROVE  TeamInv'
<1>1. registered # Workers => LeastOf(Workers \ registered) \in Workers
  <2>1. registered # Workers => Workers \ registered # {}
    BY DEF TeamInv, TeamTypes
  <2> QED
    BY <2>1, LeastNumber, TeamAssumption
<1>2. TeamTypes'
  BY <1>1 DEF TeamInv, TeamTypes, Phases, Decide, Register, Prepare, End, plan, worker, usage,
              work, signals, verdict
<1>3. \A w \in Workers : WithinBudget(w)' /\ Booked(w)' /\ AtRest(w)'
  BY DEF TeamInv, WithinBudget, Booked, AtRest, Decide, Register, Prepare, End, plan, worker,
         usage, work, signals, verdict, Mutates
<1>4. (InOrder /\ Apart /\ Accepted /\ Stopped)'
  BY DEF TeamInv, InOrder, Apart, Accepted, Stopped, Decide, Register, Prepare, End, plan,
         worker, usage, work, signals, verdict, Deps, scope
<1> QED
  BY <1>2, <1>3, <1>4 DEF TeamInv

LEMMA ReserveGood ==
    ASSUME TeamInv, Reserve
    PROVE  TeamInv'
<1> DEFINE w == LeastOf(Unreserved)
<1>1. Unreserved # {} => w \in Workers
  BY LeastNumber, TeamOf, TeamAssumption DEF TeamInv, Unreserved
<1>2. TeamTypes'
  BY <1>1 DEF TeamInv, TeamTypes, Phases, Reserve, End, plan, worker, usage, work, signals, verdict
<1>3. \A v \in Workers : WithinBudget(v)' /\ Booked(v)' /\ AtRest(v)'
  BY DEF TeamInv, WithinBudget, Booked, AtRest, Reserve, End, plan, worker, usage, work,
         signals, verdict, Mutates
<1>4. Apart'
  BY DEF TeamInv, Apart, Reserve, Overlaps, plan, scope
<1>5. (InOrder /\ Accepted /\ Stopped)'
  BY DEF TeamInv, InOrder, Accepted, Stopped, Reserve, End, plan, worker, usage, work, signals,
         verdict, Deps
<1> QED
  BY <1>2, <1>3, <1>4, <1>5 DEF TeamInv

-----------------------------------------------------------------------------
(* Groups of workers. *)

LEMMA LaunchGood ==
    ASSUME TeamInv, Launch
    PROVE  TeamInv'
<1>1. Group \subseteq Workers
  BY DEF Group
<1>2. TeamTypes'
  BY <1>1 DEF TeamInv, TeamTypes, Phases, WorkerSteps, Launch, plan, usage, work, signals, verdict
<1>3. \A w \in Workers : wpc'[w] = IF w \in Group THEN "loop" ELSE wpc[w]
  BY DEF Launch
<1>4. ASSUME NEW w \in Workers PROVE WithinBudget(w)' /\ Booked(w)' /\ AtRest(w)'
  BY <1>3 DEF TeamInv, WithinBudget, Booked, AtRest, Launch, Group, plan, usage, work, Mutates,
              Finished
<1>5. InOrder'
  <2>1. \A w \in launched : wpc[w] = "ended" /\ w \notin Group
    BY DEF TeamInv, TeamTypes, AtRest, Launch, Group
  <2> QED
    BY <1>3, <2>1, TeamOf DEF TeamInv, TeamTypes, InOrder, Launch, Group, plan, Deps
<1>6. (Apart /\ Accepted /\ Stopped)'
  BY DEF TeamInv, Apart, Accepted, Stopped, Launch, plan, signals, verdict, scope
<1> QED
  BY <1>2, <1>4, <1>5, <1>6 DEF TeamInv

LEMMA GroupGood ==
    ASSUME TeamInv, LaunchFails \/ Gathered \/ WorkersDone
    PROVE  TeamInv'
<1>1. TeamTypes'
  BY DEF TeamInv, TeamTypes, Phases, LaunchFails, Gathered, WorkersDone, End, Cleanup, Group, plan,
         worker, usage, work, signals, verdict
<1>2. ASSUME NEW w \in Workers PROVE WithinBudget(w)' /\ Booked(w)' /\ AtRest(w)'
  BY DEF TeamInv, WithinBudget, Booked, AtRest, LaunchFails, Gathered, WorkersDone, End, Cleanup,
         plan, worker, usage, work, Mutates
<1>3. (InOrder /\ Apart /\ Accepted /\ Stopped)'
  BY DEF TeamInv, InOrder, Apart, Accepted, Stopped, LaunchFails, Gathered, WorkersDone, End,
         Cleanup, plan, worker, signals, verdict, Deps, scope
<1> QED
  BY <1>1, <1>2, <1>3 DEF TeamInv

-----------------------------------------------------------------------------
(* The workers. *)

\* A step of one worker leaves the run and the other workers alone.
LEMMA WorkTypes ==
    ASSUME TeamInv, NEW w \in Workers, Work(w)
    PROVE  TeamTypes'
<1>1. UNCHANGED <<teamPc, outcome, team, registered, reserved, launched, spaces, cancelled, events,
                  approved, integrated>>
  BY DEF Work, Ask, AnswerInvalid, AnswerEnds, AnswerTools, AnswerFinal, ToolStarts, ToolSucceeds,
         ToolFails, LocallyVerified, Timeout, SameOrchestrator, plan, signals, verdict
<1>2. wpc' \in [Workers -> WorkerSteps] /\ result' \in [Workers -> Statuses]
  BY DEF TeamInv, TeamTypes, WorkerSteps, Statuses, Finished, Step, Result, Work, Ask, AnswerInvalid,
         AnswerEnds, AnswerTools, AnswerFinal, ToolStarts, ToolSucceeds, ToolFails, LocallyVerified,
         Timeout
<1>3. calls' \in Counts /\ tools' \in Counts /\ retries' \in Counts
  BY DEF TeamInv, TeamTypes, Counts, usage, Work, Ask, Answered, AnswerInvalid, AnswerEnds,
         AnswerTools, AnswerFinal, ToolStarts, ToolSucceeds, ToolFails, LocallyVerified, Timeout
<1>4. changes' \in Counts /\ written' \in Counts /\ checked' \in Counts /\ orphans' \subseteq Workers
  BY DEF TeamInv, TeamTypes, Counts, work, Wrote, Work, Ask, AnswerInvalid, AnswerEnds,
         AnswerTools, AnswerFinal, ToolStarts, ToolSucceeds, ToolFails, LocallyVerified, Timeout
<1> QED
  BY <1>1, <1>2, <1>3, <1>4 DEF TeamInv, TeamTypes

\* The budget is spent by one at a time, and looked at before.
LEMMA WorkWithinBudget ==
    ASSUME TeamInv, NEW w \in Workers, Work(w)
    PROVE  \A v \in Workers : WithinBudget(v)'
BY TeamAssumption
   DEF TeamInv, TeamTypes, Counts, WithinBudget, Step, Result, usage, Work, Ask, Answered, AnswerInvalid,
       AnswerEnds, AnswerTools, AnswerFinal, ToolStarts, ToolSucceeds, ToolFails, LocallyVerified,
       Timeout

\* Mutations are made and reported in one step, or the worker has ended; the
\* verification sees them all, and nothing follows it.
LEMMA WorkBooked ==
    ASSUME TeamInv, NEW w \in Workers, Work(w)
    PROVE  \A v \in Workers : Booked(v)'
<1>1. Mutates' = Mutates /\ \A v \in Workers : Booked(v)
  BY DEF TeamInv, Mutates, Work, Ask, AnswerInvalid, AnswerEnds, AnswerTools, AnswerFinal, ToolStarts,
         ToolSucceeds, ToolFails, LocallyVerified, Timeout, SameOrchestrator, plan
<1>2. CASE Ask(w) \/ AnswerInvalid(w) \/ AnswerEnds(w) \/ AnswerTools(w) \/ ToolStarts(w)
  BY <1>1, <1>2
     DEF TeamInv, TeamTypes, Counts, Booked, Finished, Step, Result, usage, work, Ask, Answered,
         AnswerInvalid, AnswerEnds, AnswerTools, ToolStarts
<1>3. CASE AnswerFinal(w)
  BY <1>1, <1>3
     DEF TeamInv, TeamTypes, Counts, Booked, Finished, Step, Result, work, Answered, AnswerFinal
<1>4. CASE ToolSucceeds(w) \/ ToolFails(w)
  BY <1>1, <1>4
     DEF TeamInv, TeamTypes, Counts, Booked, Finished, Step, Result, Wrote, ToolSucceeds, ToolFails
<1>5. CASE LocallyVerified(w)
  BY <1>1, <1>5
     DEF TeamInv, TeamTypes, Counts, Booked, Finished, Step, Result, LocallyVerified
<1>6. CASE Timeout(w)
  BY <1>1, <1>6
     DEF TeamInv, TeamTypes, Counts, Booked, Finished, Step, Result, work, Timeout
<1> QED
  BY <1>2, <1>3, <1>4, <1>5, <1>6 DEF Work

LEMMA WorkOrdered ==
    ASSUME TeamInv, NEW w \in Workers, Work(w), teamPc = "gathering"
    PROVE  (\A v \in Workers : AtRest(v)') /\ InOrder'
<1>1. UNCHANGED <<teamPc, team, launched, reserved>>
  BY DEF Work, Ask, AnswerInvalid, AnswerEnds, AnswerTools, AnswerFinal, ToolStarts, ToolSucceeds,
         ToolFails, LocallyVerified, Timeout, SameOrchestrator, plan
<1>2. /\ \A v \in Workers : v # w => wpc'[v] = wpc[v]
      /\ wpc[w] \notin {"none", "ended"} /\ wpc'[w] # "none"
      /\ wpc'[w] = "writing" => w \in reserved
  BY DEF TeamInv, TeamTypes, Step, Result, MayWrite, Work, Ask, Answered, AnswerInvalid, AnswerEnds,
         AnswerTools, AnswerFinal, ToolStarts, ToolSucceeds, ToolFails, LocallyVerified, Timeout
<1>3. \A v \in Workers : AtRest(v)'
  BY <1>1, <1>2 DEF TeamInv, AtRest
<1>4. InOrder'
  BY <1>1, <1>2, TeamOf DEF TeamInv, TeamTypes, InOrder, Deps
<1> QED
  BY <1>3, <1>4

\* A result of success stays: a worker that has ended does nothing more.
LEMMA WorkAccepted ==
    ASSUME TeamInv, NEW w \in Workers, Work(w), teamPc = "gathering"
    PROVE  (Apart /\ Accepted /\ Stopped)'
<1>1. UNCHANGED <<teamPc, outcome, team, reserved, cancelled, approved, integrated>>
  BY DEF Work, Ask, AnswerInvalid, AnswerEnds, AnswerTools, AnswerFinal, ToolStarts, ToolSucceeds,
         ToolFails, LocallyVerified, Timeout, SameOrchestrator, plan, signals, verdict
<1>2. wpc[w] # "ended" /\ \A v \in Workers : v # w => result'[v] = result[v]
  BY DEF TeamInv, TeamTypes, Result, Work, Ask, Answered, AnswerInvalid, AnswerEnds, AnswerTools,
         AnswerFinal, ToolStarts, ToolSucceeds, ToolFails, LocallyVerified, Timeout
<1>3. w \notin approved
  BY <1>2 DEF TeamInv, TeamTypes, Accepted, Booked, Finished
<1>4. Accepted'
  BY <1>1, <1>2, <1>3 DEF TeamInv, TeamTypes, Accepted
<1> QED
  BY <1>1, <1>4 DEF TeamInv, Apart, Stopped, scope

LEMMA OrphanGood ==
    ASSUME TeamInv, NEW w \in Workers, OrphanEnds(w)
    PROVE  TeamInv'
<1>1. TeamTypes'
  BY DEF TeamInv, TeamTypes, Counts, OrphanEnds, Wrote, SameOrchestrator, usage, plan, signals,
         verdict
<1>2. ASSUME NEW v \in Workers PROVE WithinBudget(v)' /\ AtRest(v)'
  BY DEF TeamInv, WithinBudget, AtRest, OrphanEnds, SameOrchestrator, usage, plan
<1>3. ASSUME NEW v \in Workers PROVE Booked(v)'
  <2>1. result[w] = "TIMED_OUT" /\ wpc[w] = "ended"
    BY DEF TeamInv, Booked, OrphanEnds
  <2>2. written'[v] = written[v] \/ v = w
    BY DEF TeamInv, TeamTypes, Counts, OrphanEnds, Wrote
  <2>3. UNCHANGED <<wpc, result, changes, checked, team>> /\ orphans' \subseteq orphans
    BY DEF OrphanEnds, SameOrchestrator, plan
  <2> QED
    BY <2>1, <2>2, <2>3 DEF TeamInv, Booked, Finished, Mutates
<1>4. (InOrder /\ Apart /\ Accepted /\ Stopped)'
  BY DEF TeamInv, InOrder, Apart, Accepted, Stopped, OrphanEnds, SameOrchestrator, plan, signals,
         verdict, Deps, scope
<1> QED
  BY <1>1, <1>2, <1>3, <1>4 DEF TeamInv

-----------------------------------------------------------------------------
(* The end of the run and its surroundings. *)

LEMMA EndGood ==
    ASSUME TeamInv, Review \/ Integrate \/ IntegrateRaises \/ Complete
    PROVE  TeamInv'
<1>1. TeamTypes'
  BY DEF TeamInv, TeamTypes, Phases, Review, Reviewable, Integrate, IntegrateRaises, Complete, End,
         Cleanup, plan, worker, usage, work, signals, verdict
<1>2. ASSUME NEW w \in Workers PROVE WithinBudget(w)' /\ Booked(w)' /\ AtRest(w)'
  BY DEF TeamInv, WithinBudget, Booked, AtRest, Review, Integrate, IntegrateRaises, Complete, End,
         Cleanup, plan, worker, usage, work, Mutates
<1>3. (Accepted /\ Stopped)'
  BY DEF TeamInv, Accepted, Stopped, Review, Reviewable, Integrate, IntegrateRaises, Complete, End,
         Cleanup, worker, signals, verdict
<1>4. (InOrder /\ Apart)'
  BY DEF TeamInv, InOrder, Apart, Review, Integrate, IntegrateRaises, Complete, Cleanup, plan,
         worker, verdict, Deps, scope
<1> QED
  BY <1>1, <1>2, <1>3, <1>4 DEF TeamInv

LEMMA SurroundingsGood ==
    ASSUME TeamInv, CancelAll \/ Expire \/ Kill \/ UNCHANGED teamVars
    PROVE  TeamInv'
<1>1. TeamTypes'
  BY DEF TeamInv, TeamTypes, Phases, CancelAll, Expire, Kill, End, teamVars, plan, worker, usage,
         work, signals, verdict
<1>2. ASSUME NEW w \in Workers PROVE WithinBudget(w)' /\ Booked(w)' /\ AtRest(w)'
  BY DEF TeamInv, WithinBudget, Booked, AtRest, CancelAll, Expire, Kill, End, teamVars, plan, worker,
         usage, work, Mutates
<1>3. (InOrder /\ Apart /\ Accepted /\ Stopped)'
  BY DEF TeamInv, InOrder, Apart, Accepted, Stopped, CancelAll, Expire, Kill, End, teamVars, plan,
         worker, usage, work, signals, verdict, Deps, scope
<1> QED
  BY <1>1, <1>2, <1>3 DEF TeamInv

-----------------------------------------------------------------------------
LEMMA TeamStep ==
    ASSUME TeamInv, [TeamNext]_teamVars
    PROVE  TeamInv'
<1>1. ASSUME NEW w \in Workers, teamPc = "gathering", Work(w) PROVE TeamInv'
  BY <1>1, WorkTypes, WorkWithinBudget, WorkBooked, WorkOrdered, WorkAccepted DEF TeamInv
<1> QED
  BY <1>1, RegisterGood, ReserveGood, LaunchGood, GroupGood, OrphanGood, EndGood, SurroundingsGood
     DEF TeamNext, Orchestrate

\* Every state of a run satisfies the invariant.
THEOREM TeamInvariant == TeamSpec => []TeamInv
<1>1. TeamInit => TeamInv
  BY InitGood
<1>2. TeamInv /\ [TeamNext]_teamVars => TeamInv'
  BY TeamStep
<1> QED
  BY <1>1, <1>2, PTL DEF TeamSpec

\* The run state and every worker stay within their types and budgets
\* (LeadOrchestrator, WorkerRuntime.execute).
THEOREM TeamTypeHolds == TeamSpec => []TeamTypeOK
<1>1. TeamInv => TeamTypeOK
  BY DEF TeamInv, TeamTypes, TeamTypeOK, Phases, WorkerSteps, Statuses, WithinBudget
<1> QED
  BY <1>1, TeamInvariant, PTL

\* Workers start after what they depend on, write in scopes that are apart,
\* and only what a local verification saw is integrated, of a run that was
\* not cancelled (LeadOrchestrator.run_collaboration).
THEOREM TeamSoundHolds == TeamSpec => []TeamSound
<1>1. ASSUME TeamInv PROVE TeamSound
  <2>1. DependenciesReturned
    BY <1>1 DEF TeamInv, InOrder, DependenciesReturned
  <2>2. ScopesDisjoint
    BY <1>1, TeamOf DEF TeamInv, AtRest, Apart, ScopesDisjoint
  <2>3. VerifiedIsIntegrated
    BY <1>1 DEF TeamInv, TeamTypes, Accepted, Booked, VerifiedIsIntegrated
  <2>4. CancelledStaysOut
    BY <1>1 DEF TeamInv, Stopped, CancelledStaysOut
  <2> QED
    BY <2>1, <2>2, <2>3, <2>4 DEF TeamSound
<1> QED
  BY <1>1, TeamInvariant, PTL

-----------------------------------------------------------------------------
-----------------------------------------------------------------------------
(* The inductive invariant. *)

Preparing == {"copying", "verifying", "checking"}
Committing == {"writing", "deleting", "rolling_back"}

\* The contents there can be so far: the next foreign version is a new one.
Known == {v \in Nat : v < Foreign + foreign}
Executed == [kind : {"CREATE", "MODIFY", "DELETE"}, file : LeadFiles, bytes : Known]

LeadTypes ==
    /\ leadPc \in {"idle", "snapshotting", "done"} \cup Preparing \cup Committing
    /\ lead \in [LeadFiles -> Known] /\ copy \in [LeadFiles -> Known]
    /\ before \in [LeadFiles -> Known] /\ snapshot \in [Snapshotted -> Known]
    /\ todo \subseteq LeadFiles /\ early \subseteq Known
    /\ actions \in Seq(Executed) /\ conflicted \in BOOLEAN /\ foreign \in Nat /\ leadKills \in Nat
    /\ edits \in [Assignments -> [LeadFiles -> Nat]] /\ accepted \subseteq Assignments

\* The baseline is the lead workspace of the beginning, which no early write has touched.
BaselineKept ==
    /\ leadPc \notin {"idle", "done"} => baseline = HashOf(before)
    /\ leadPc = "idle" => early = {}
    /\ Missing \notin early /\ \A f \in Hashed : before[f] \notin early

\* Only hashed files hold an early version before the check; after it only files that the
\* coordinator wrote itself do.
EarlyWrites ==
    /\ leadPc \in Preparing => \A f \in LeadFiles : f \notin Hashed => lead[f] \notin early
    /\ leadPc \in {"snapshotting"} \cup Committing =>
          \A f \in LeadFiles : f \in theirs => lead[f] \notin early

\* An action on a file that another program wrote since would not be undone.
TheirsStays ==
    \A i \in DOMAIN actions :
        actions[i].file \in theirs => lead[actions[i].file] # actions[i].bytes

\* What was there before can be put back.
Restorable ==
    /\ leadPc = "deleting" => todo \subseteq Snapshotted
    /\ \A i \in DOMAIN actions : actions[i].kind # "CREATE" => actions[i].file \in Snapshotted

KeptInv == LeadTypes /\ BaselineKept /\ EarlyWrites /\ TheirsStays /\ Restorable

-----------------------------------------------------------------------------
(* Without foreign writes. *)

ToWrite == {f \in LeadFiles : copy[f] # Missing /\ KindOf[f] # "ignored"}
ToDelete == {f \in LeadFiles : PreExisting(f) /\ copy[f] = Missing}

CopyExact ==
    /\ leadPc = "idle" => \A f \in LeadFiles : copy[f] = Missing
    /\ leadPc = "copying" =>
          /\ todo \subseteq Copied
          /\ \A f \in LeadFiles :
                copy[f] = IF f \in Copied \ todo THEN before[f] ELSE Missing
    /\ leadPc \in {"verifying", "checking", "snapshotting"} \cup Committing =>
          \A f \in LeadFiles : copy[f] = Merged(f, IF f \in Copied THEN before[f] ELSE Missing)

\* Each file of the lead workspace as far as the commit has come.
LeadExact ==
    /\ leadPc \in {"idle", "snapshotting"} \cup Preparing => lead = before /\ actions = <<>>
    /\ leadPc \in Committing => snapshot = [f \in Snapshotted |-> before[f]]
    /\ leadPc = "writing" =>
          /\ todo \subseteq ToWrite
          /\ \A f \in LeadFiles : lead[f] = IF f \in ToWrite \ todo THEN copy[f] ELSE before[f]
    /\ leadPc = "deleting" =>
          /\ todo \subseteq ToDelete
          /\ \A f \in LeadFiles : lead[f] = IF f \in ToWrite THEN copy[f]
                                           ELSE IF f \in ToDelete \ todo THEN Missing
                                           ELSE before[f]

\* The actions say what was done, and to each file once.
ActionsExact ==
    leadPc \in Committing =>
        /\ ~conflicted
        /\ \A i \in DOMAIN actions :
              /\ actions[i].bytes = lead[actions[i].file]
              /\ actions[i].kind = "CREATE" <=> ~PreExisting(actions[i].file)
              /\ KindOf[actions[i].file] # "ignored"
              /\ leadPc = "writing" => actions[i].file \in ToWrite \ todo
              /\ leadPc = "deleting" => actions[i].file \in ToWrite \cup (ToDelete \ todo)
        /\ \A i, j \in DOMAIN actions : actions[i].file = actions[j].file => i = j
        /\ \A f \in Hashed : lead[f] # before[f] => \E i \in DOMAIN actions : actions[i].file = f

Undisturbed ==
    foreign = 0 => CopyExact /\ LeadExact /\ ActionsExact /\ (leadPc # "done" => ~conflicted)

-----------------------------------------------------------------------------
(* What the result says. *)

Outcome ==
    leadPc = "done" =>
        /\ leadStatus = "ROLLED_BACK" => HashOf(lead) = HashOf(before)
        /\ leadStatus = "killed" => leadKills > 0
        /\ foreign = 0 => leadStatus \notin {"MISMATCH", "ROLLBACK_CONFLICT"}
        /\ foreign = 0 /\ leadKills = 0 =>
              \/ /\ leadApplied = {} /\ HashOf(lead) = HashOf(before)
                 /\ leadStatus = "INTEGRATED" => lead = before
              \/ /\ leadApplied = Eligible /\ leadStatus = "INTEGRATED"
                 /\ \A f \in LeadFiles \ OfKind({"hidden_dir", "ignored"}) : lead[f] = Merged(f, before[f])
                 /\ \A f \in OfKind({"ignored"}) : lead[f] = before[f]

Silent == leadPc # "done" => leadStatus = "none"

LeadInv == KeptInv /\ Undisturbed /\ Outcome /\ Silent

-----------------------------------------------------------------------------
(* The operators. *)

\* At most one of the integrated results changes a file.
LEMMA OneWriter ==
    ASSUME LeadTypes, NEW f \in LeadFiles, NEW w \in Eligible, NEW v \in Eligible,
           edits[w][f] > 0, edits[v][f] > 0
    PROVE  w = v
<1>1. w \in Nat /\ v \in Nat /\ w \in accepted /\ v \in accepted
  <2>1. w \in accepted /\ v \in accepted
    BY DEF Eligible
  <2>2. accepted \subseteq Nat
    BY LeadAssumption DEF LeadTypes, Assignments
  <2> QED
    BY <2>1, <2>2
<1>2. ~(v < w) /\ ~(w < v)
  BY <1>1 DEF Eligible, Conflicting
<1> QED
  BY <1>1, <1>2

LEMMA AppliedKnown ==
    ASSUME LeadTypes, NEW w \in Assignments
    PROVE  AppliedOf(w) \in Known /\ AppliedOf(w) # Missing
<1>1. w \in Nat /\ w > 0 /\ w <= Results /\ Results \in Nat /\ foreign \in Nat
  BY LeadAssumption DEF LeadTypes, Assignments
<1> QED
  BY <1>1 DEF AppliedOf, NoteOf, ChangeOf, Known, Foreign, Missing

\* Merging leaves a file that no result changes, and takes the one change otherwise.
LEMMA MergedIs ==
    ASSUME LeadTypes, NEW f \in LeadFiles, NEW old
    PROVE  /\ \A w \in Eligible : edits[w][f] > 0 => Merged(f, old) = AppliedOf(w)
           /\ (\A w \in Eligible : ~(edits[w][f] > 0)) => Merged(f, old) = old
<1> DEFINE who == {w \in Eligible : edits[w][f] > 0}
<1>1. ASSUME NEW w \in Eligible, edits[w][f] > 0 PROVE Merged(f, old) = AppliedOf(w)
  <2>1. \A v \in who : v = w
    BY <1>1, OneWriter
  <2>2. who = {w}
    BY <1>1, <2>1
  <2>4. w \in Nat
    BY LeadAssumption DEF Eligible, LeadTypes, Assignments
  <2>3. (CHOOSE u \in who : \A v \in who : v <= u) = w
    BY <2>2, <2>4
  <2> QED
    BY <2>2, <2>3 DEF Merged
<1>2. (\A w \in Eligible : ~(edits[w][f] > 0)) => Merged(f, old) = old
  BY DEF Merged
<1> QED
  BY <1>1, <1>2

LEMMA MergedKnown ==
    ASSUME LeadTypes, NEW f \in LeadFiles, NEW old \in Known
    PROVE  Merged(f, old) \in Known
<1>1. Eligible \subseteq Assignments
  BY DEF Eligible, LeadTypes
<1> QED
  BY <1>1, MergedIs, AppliedKnown

LEMMA LeastOfFiles ==
    ASSUME NEW S \in SUBSET LeadFiles, S # {}
    PROVE  LeastFile(S) \in S
<1>0. S \subseteq Nat
  BY LeadAssumption
<1>1. PICK m \in S : \A n \in S : <<n, m>> \notin OpToRel(<, Nat)
  BY <1>0, NatLessThanWellFounded, WFMin, Zenon
<1>2. \A n \in S : ~(n < m)
  BY <1>0, <1>1, Zenon DEF OpToRel
<1>3. \A n \in S : m <= n
  BY <1>0, <1>2
<1> QED
  BY <1>3 DEF LeastFile

\* What the coordinator writes is no longer another program's.
LEMMA Overwritten ==
    ASSUME LeadTypes, NEW f \in LeadFiles, NEW bytes \in Known, Overwrites(f, bytes)
    PROVE  /\ lead' \in [LeadFiles -> Known] /\ lead'[f] = bytes
           /\ \A g \in LeadFiles : g # f => lead'[g] = lead[g]
           /\ theirs' = theirs \ {f}
           /\ lost' = IF f \in theirs /\ lead[f] # bytes THEN lost \cup {lead[f]} ELSE lost
BY DEF Overwrites, LeadTypes

LEMMA Acted ==
    ASSUME LeadTypes, NEW kind \in {"CREATE", "MODIFY", "DELETE"}, NEW f \in LeadFiles,
           NEW bytes \in Known, Act(kind, f, bytes)
    PROVE  /\ actions' \in Seq(Executed)
           /\ DOMAIN actions = 1..Len(actions) /\ DOMAIN actions' = 1..(Len(actions) + 1)
           /\ Len(actions) \in Nat
           /\ \A i \in DOMAIN actions : actions'[i] = actions[i]
           /\ actions'[Len(actions) + 1] = [kind |-> kind, file |-> f, bytes |-> bytes]
<1> DEFINE a == [kind |-> kind, file |-> f, bytes |-> bytes]
<1>1. a \in Executed /\ actions \in Seq(Executed)
  BY DEF Executed, LeadTypes
<1>2. actions' = Append(actions, a)
  BY DEF Act
<1> HIDE DEF a
<1>3. /\ actions' \in Seq(Executed) /\ Len(actions') = Len(actions) + 1
      /\ \A i \in 1..Len(actions) : actions'[i] = actions[i]
      /\ actions'[Len(actions) + 1] = a
  BY <1>1, <1>2, AppendProperties
<1>4. /\ DOMAIN actions = 1..Len(actions) /\ DOMAIN actions' = 1..Len(actions')
      /\ Len(actions) \in Nat
  BY <1>1, <1>3, LenProperties
<1> QED
  BY <1>3, <1>4 DEF a

LEMMA LastUndone ==
    ASSUME LeadTypes, actions # <<>>, actions' = Front(actions)
    PROVE  /\ actions' \in Seq(Executed) /\ Len(actions) \in DOMAIN actions
           /\ actions[Len(actions)] \in Executed
           /\ DOMAIN actions = 1..Len(actions) /\ Len(actions) \in Nat
           /\ DOMAIN actions' = DOMAIN actions \ {Len(actions)}
           /\ \A i \in DOMAIN actions' : actions'[i] = actions[i]
<1>1. /\ actions \in Seq(Executed) /\ Len(actions) \in Nat \ {0}
      /\ DOMAIN actions = 1..Len(actions)
  BY EmptySeq, LenProperties DEF LeadTypes
<1> DEFINE n == Len(actions) - 1
<1>2. n \in Nat /\ 1..n \subseteq 1..Len(actions)
  BY <1>1
<1>3. actions' = [i \in 1..n |-> actions[i]]
  BY <1>1, <1>2 DEF Front
<1>4. \A i \in 1..n : actions[i] \in Executed
  BY <1>1, <1>2, ElementOfSeq
<1>5. actions' \in Seq(Executed)
  BY <1>2, <1>3, <1>4, IsASeq
<1>6. actions[Len(actions)] \in Executed
  BY <1>1, ElementOfSeq
<1> QED
  BY <1>1, <1>2, <1>3, <1>5, <1>6

-----------------------------------------------------------------------------
(* Each step of the coordinator and of its environment. *)

LEMMA KeptInit ==
    ASSUME LeadInit
    PROVE  KeptInv
<1>1. Foreign \in Nat /\ AsFound < Foreign /\ Missing < Foreign
  BY LeadAssumption DEF Foreign, AsFound, Missing
<1>2. AsFound \in Known /\ Missing \in Known
  BY <1>1 DEF Known, LeadInit, AsFound, Missing
<1>3. Snapshotted \subseteq LeadFiles /\ Hashed \subseteq LeadFiles
  BY DEF Snapshotted, Hashed, OfKind
<1>4. <<>> \in Seq(Executed) /\ DOMAIN <<>> = {}
  BY EmptySeq
<1>5. LeadTypes
  <2>1. edits \in [Assignments -> [LeadFiles -> Nat]]
    <3>1. 0..MaxEdits \subseteq Nat
      BY LeadAssumption
    <3>2. [LeadFiles -> 0..MaxEdits] \subseteq [LeadFiles -> Nat]
      BY <3>1
    <3>3. edits \in [Assignments -> [LeadFiles -> 0..MaxEdits]]
      BY DEF LeadInit
    <3> HIDE DEF Assignments
    <3> QED
      BY <3>2, <3>3
  <2>2. lead \in [LeadFiles -> Known] /\ before = lead
    BY <1>2 DEF LeadInit
  <2>3. copy \in [LeadFiles -> Known] /\ snapshot \in [Snapshotted -> Known]
    BY <1>2 DEF LeadInit
  <2>4. leadPc = "idle" /\ todo = {} /\ early = {} /\ conflicted \in BOOLEAN /\ actions = <<>>
        /\ accepted \subseteq Assignments /\ foreign = 0 /\ leadKills = 0
    BY DEF LeadInit
  <2> QED
    BY <1>4, <2>1, <2>2, <2>3, <2>4 DEF LeadTypes
<1> QED
  BY <1>3, <1>4, <1>5 DEF LeadInit, KeptInv, BaselineKept, EarlyWrites, TheirsStays, Restorable, Preparing,
                          Committing

\* Steps that write no file of the lead workspace or of the copy.
LEMMA KeptQuiet ==
    ASSUME KeptInv,
           \/ Verify \/ Written \/ Commit \/ CommitFails \/ RolledBack \/ LeadKilled
           \/ UNCHANGED leadVars
    PROVE  KeptInv'
<1>1. /\ UNCHANGED <<inputs, lead, baseline, copy, snapshot, actions, conflicted, losses, seen>>
      /\ todo' \subseteq LeadFiles /\ leadKills' \in Nat
      /\ leadPc' = "deleting" => todo' \subseteq Snapshotted
      /\ \/ leadPc' = "done" \/ leadPc' = leadPc
         \/ leadPc = "verifying" /\ leadPc' = "checking"
         \/ leadPc \in Committing /\ leadPc' \in Committing
  BY DEF Verify, Written, Commit, CommitFails, RolledBack, LeadKilled, leadVars, Return, KeptInv,
         LeadTypes, Restorable, PreExisting, inputs, losses, seen, bounds, answer, Committing
<1>2. Known' = Known /\ Executed' = Executed
  BY <1>1 DEF Known, Executed, seen
<1>3. LeadTypes'
  BY <1>1, <1>2 DEF KeptInv, LeadTypes, inputs, losses, seen, Committing, Preparing
<1> QED
  BY <1>1, <1>3 DEF KeptInv, BaselineKept, EarlyWrites, TheirsStays, Restorable, inputs, losses, seen,
                    Committing, Preparing, HashOf

LEMMA KeptBegin ==
    ASSUME KeptInv, Begin
    PROVE  KeptInv'
<1>1. /\ UNCHANGED <<edits, accepted, lead, copy, snapshot, actions, conflicted, lost, seen, bounds>>
      /\ before' = lead /\ theirs' = {} /\ baseline' = HashOf(lead) /\ leadPc = "idle"
      /\ leadPc' \in {"done", "copying"} /\ (todo' = Copied \/ todo' = todo)
  BY DEF Begin, Return
<1>2. Known' = Known /\ Executed' = Executed /\ Copied \subseteq LeadFiles
  BY <1>1 DEF Known, Executed, seen, Copied, OfKind
<1>3. LeadTypes'
  BY <1>1, <1>2 DEF KeptInv, LeadTypes, seen, bounds, Preparing
<1>4. early' = {} /\ HashOf(lead)' = HashOf(lead)
  BY <1>1 DEF KeptInv, BaselineKept, seen, HashOf
<1> QED
  BY <1>1, <1>3, <1>4 DEF KeptInv, BaselineKept, EarlyWrites, TheirsStays, Restorable, Preparing, Committing,
                          HashOf

LEMMA KeptCopy ==
    ASSUME KeptInv, CopyFile \/ Apply \/ Snapshot
    PROVE  KeptInv'
<1>1. /\ UNCHANGED <<inputs, lead, baseline, actions, conflicted, losses, seen, bounds>>
      /\ \/ leadPc' = "done" \/ leadPc' = leadPc
         \/ leadPc = "copying" /\ leadPc' = "verifying"
         \/ leadPc = "snapshotting" /\ leadPc' = "writing"
      /\ leadPc' # "deleting"
  BY DEF CopyFile, Apply, Snapshot, Return
<1>2. Known' = Known /\ Executed' = Executed
  BY <1>1 DEF Known, Executed, seen
<1>3. copy' \in [LeadFiles -> Known] /\ snapshot' \in [Snapshotted -> Known] /\ todo' \subseteq LeadFiles
  <2>1. CASE CopyFile
    <3>1. LeastFile(todo) \in LeadFiles
      BY <2>1, LeastOfFiles DEF CopyFile, KeptInv, LeadTypes
    <3> QED
      BY <2>1, <3>1 DEF CopyFile, KeptInv, LeadTypes
  <2>2. CASE Apply
    <3>1. \A f \in LeadFiles : Merged(f, copy[f]) \in Known
      BY MergedKnown DEF KeptInv, LeadTypes
    <3> QED
      BY <2>2, <3>1 DEF Apply, KeptInv, LeadTypes
  <2>3. CASE Snapshot
    BY <2>3 DEF Snapshot, KeptInv, LeadTypes, Snapshotted, OfKind
  <2> QED
    BY <2>1, <2>2, <2>3
<1>4. LeadTypes'
  BY <1>1, <1>2, <1>3 DEF KeptInv, LeadTypes, inputs, losses, seen, bounds, Committing, Preparing
<1> QED
  BY <1>1, <1>4 DEF KeptInv, BaselineKept, EarlyWrites, TheirsStays, Restorable, inputs, losses, seen,
                    Committing, Preparing, HashOf

\* The check finds every early version: in a hashed file the hash differs from the baseline.
LEMMA KeptCheck ==
    ASSUME KeptInv, DriftCheck
    PROVE  KeptInv'
<1>1. /\ UNCHANGED <<inputs, lead, baseline, copy, todo, snapshot, actions, conflicted, losses,
                     seen, bounds>>
      /\ leadPc = "checking" /\ leadPc' \in {"done", "snapshotting"}
      /\ leadPc' = "snapshotting" => HashOf(lead) = baseline
  BY DEF DriftCheck, Return
<1>2. Known' = Known /\ Executed' = Executed
  BY <1>1 DEF Known, Executed, seen
<1>3. LeadTypes'
  BY <1>1, <1>2 DEF KeptInv, LeadTypes, inputs, losses, seen, bounds, Committing, Preparing
<1>4. leadPc' = "snapshotting" => \A f \in LeadFiles : lead[f] \notin early
  <2> SUFFICES ASSUME leadPc' = "snapshotting", NEW f \in LeadFiles PROVE lead[f] \notin early
    OBVIOUS
  <2>1. CASE f \in Hashed
    <3>1. HashOf(lead) = HashOf(before)
      BY <1>1 DEF KeptInv, BaselineKept
    <3>2. lead[f] = HashOf(lead)[f] /\ before[f] = HashOf(before)[f]
      BY <2>1 DEF HashOf
    <3> QED
      BY <2>1, <3>1, <3>2 DEF KeptInv, BaselineKept
  <2>2. CASE f \notin Hashed
    BY <1>1, <2>2 DEF KeptInv, EarlyWrites, Preparing
  <2> QED
    BY <2>1, <2>2
<1> QED
  BY <1>1, <1>3, <1>4 DEF KeptInv, BaselineKept, EarlyWrites, TheirsStays, Restorable, inputs, losses, seen,
                          Committing, Preparing, HashOf

\* A file that is written or deleted is the coordinator's from then on.
LEMMA KeptCommit ==
    ASSUME KeptInv, WriteBack \/ Delete
    PROVE  KeptInv' /\ \A v \in lost' \ lost : v \notin early /\ leadPc # "rolling_back"
<1> DEFINE f == LeastFile(todo)
<1>1. /\ UNCHANGED <<leadPc, inputs, baseline, copy, snapshot, conflicted, answer, seen, bounds>>
      /\ f \in LeadFiles /\ todo' = todo \ {f} /\ leadPc \in {"writing", "deleting"}
      /\ f \in todo
  <2>1. f \in todo
    BY LeastOfFiles DEF WriteBack, Delete, KeptInv, LeadTypes
  <2> QED
    BY <2>1 DEF WriteBack, Delete, KeptInv, LeadTypes
<1>2. Known' = Known /\ Executed' = Executed
  BY <1>1 DEF Known, Executed, seen
<1>3. LeadTypes
  BY DEF KeptInv
<1>4. \/ UNCHANGED <<lead, actions, losses>>
      \/ \E bytes \in Known, kind \in {"CREATE", "MODIFY", "DELETE"} :
            /\ Overwrites(f, bytes) /\ Act(kind, f, bytes)
            /\ kind # "CREATE" => f \in Snapshotted
  <2>1. copy[f] \in Known /\ Missing \in Known
    <3>1. Foreign \in Nat /\ Foreign > 0 /\ foreign \in Nat
      BY <1>3, LeadAssumption DEF Foreign, LeadTypes
    <3> QED
      BY <1>1, <1>3, <3>1 DEF LeadTypes, Known, Missing
  <2>2. CASE WriteBack
    <3>1. Overwrites(f, copy[f]) /\ Act(IF PreExisting(f) THEN "MODIFY" ELSE "CREATE", f, copy[f])
      BY <2>2 DEF WriteBack
    <3> HIDE DEF f
    <3> QED
      BY <2>1, <3>1 DEF PreExisting
  <2>3. CASE Delete
    <3>1. f \in Snapshotted
      BY <1>1, <2>3 DEF Delete, KeptInv, Restorable
    <3> HIDE DEF f
    <3> QED
      BY <2>1, <2>3, <3>1 DEF Delete, f
  <2> QED
    BY <2>2, <2>3
<1> HIDE DEF f
<1>5. CASE UNCHANGED <<lead, actions, losses>>
  <2>1. LeadTypes'
    BY <1>1, <1>2, <1>3, <1>5 DEF LeadTypes, inputs, losses, seen, bounds, answer, Committing, Preparing
  <2> QED
    BY <1>1, <1>5, <2>1 DEF KeptInv, BaselineKept, EarlyWrites, TheirsStays, Restorable, inputs, losses, seen,
                            Committing, Preparing, HashOf
<1>6. ASSUME NEW bytes \in Known, NEW kind \in {"CREATE", "MODIFY", "DELETE"},
             Overwrites(f, bytes), Act(kind, f, bytes), kind # "CREATE" => f \in Snapshotted
      PROVE  KeptInv' /\ \A v \in lost' \ lost : v \notin early /\ leadPc # "rolling_back"
  <2>1. /\ lead' \in [LeadFiles -> Known] /\ lead'[f] = bytes
        /\ \A g \in LeadFiles : g # f => lead'[g] = lead[g]
        /\ theirs' = theirs \ {f}
        /\ lost' = IF f \in theirs /\ lead[f] # bytes THEN lost \cup {lead[f]} ELSE lost
    BY <1>1, <1>3, <1>6, Overwritten
  <2>2. /\ actions' \in Seq(Executed)
        /\ DOMAIN actions = 1..Len(actions) /\ DOMAIN actions' = 1..(Len(actions) + 1)
        /\ Len(actions) \in Nat
        /\ \A i \in DOMAIN actions : actions'[i] = actions[i]
        /\ actions'[Len(actions) + 1] = [kind |-> kind, file |-> f, bytes |-> bytes]
    BY <1>1, <1>3, <1>6, Acted
  <2>3. LeadTypes'
    BY <1>1, <1>2, <1>3, <2>1, <2>2 DEF LeadTypes, inputs, seen, bounds, answer, Committing, Preparing
  <2>4. TheirsStays'
    <3> SUFFICES ASSUME NEW i \in DOMAIN actions', actions'[i].file \in theirs'
                 PROVE  lead'[actions'[i].file] # actions'[i].bytes
      BY DEF TheirsStays
    <3>1. i # Len(actions) + 1
      BY <2>1, <2>2
    <3>2. i \in DOMAIN actions /\ actions'[i] = actions[i]
      BY <2>2, <3>1
    <3>3. actions[i] \in Executed
      BY <1>3, <2>2, <3>2, ElementOfSeq DEF LeadTypes
    <3> QED
      BY <2>1, <3>2, <3>3 DEF KeptInv, TheirsStays, Executed
  <2>5. EarlyWrites'
    BY <1>1, <2>1 DEF KeptInv, EarlyWrites, seen, Preparing, Committing
  <2>6. BaselineKept'
    BY <1>1 DEF KeptInv, BaselineKept, inputs, seen, HashOf
  <2>7. \A v \in lost' \ lost : v \notin early /\ leadPc # "rolling_back"
    BY <1>1, <2>1 DEF KeptInv, EarlyWrites, Committing
  <2>8. Restorable'
    BY <1>1, <1>6, <2>2 DEF KeptInv, Restorable, Snapshotted, OfKind
  <2> QED
    BY <2>3, <2>4, <2>5, <2>6, <2>7, <2>8 DEF KeptInv
<1> QED
  BY <1>4, <1>5, <1>6

\* An action is undone only where nothing of another program would go.
LEMMA KeptUndo ==
    ASSUME KeptInv, UndoAction
    PROVE  KeptInv' /\ lost' = lost
<1> DEFINE a == actions[Len(actions)]
<1>1. /\ UNCHANGED <<leadPc, inputs, baseline, copy, todo, snapshot, answer, seen, bounds>>
      /\ actions # <<>> /\ actions' = Front(actions) /\ leadPc = "rolling_back"
  BY DEF UndoAction
<1>2. Known' = Known /\ Executed' = Executed /\ LeadTypes
  BY <1>1 DEF Known, Executed, seen, KeptInv
<1>3. /\ actions' \in Seq(Executed) /\ Len(actions) \in DOMAIN actions /\ a \in Executed
      /\ DOMAIN actions' \subseteq DOMAIN actions
      /\ \A i \in DOMAIN actions' : actions'[i] = actions[i] /\ actions'[i] \in Executed
  <2>1. /\ actions' \in Seq(Executed) /\ Len(actions) \in DOMAIN actions /\ a \in Executed
        /\ DOMAIN actions' \subseteq DOMAIN actions /\ DOMAIN actions = 1..Len(actions)
        /\ \A i \in DOMAIN actions' : actions'[i] = actions[i]
    BY <1>1, <1>2, LastUndone
  <2>2. \A i \in DOMAIN actions : actions[i] \in Executed
    BY <1>2, <2>1, ElementOfSeq DEF LeadTypes
  <2> QED
    BY <2>1, <2>2
<1>4. CASE Untouched(a)
  <2>1. Restored(a) \in Known
    <3>1. Foreign \in Nat /\ Foreign > 0 /\ foreign \in Nat
      BY <1>2, LeadAssumption DEF Foreign, LeadTypes
    <3>2. a.kind # "CREATE" => snapshot[a.file] \in Known
      BY <1>2, <1>3 DEF KeptInv, Restorable, LeadTypes
    <3> QED
      BY <3>1, <3>2 DEF Restored, Known, Missing
  <2>2. Overwrites(a.file, Restored(a)) /\ conflicted' = conflicted /\ a.file \in LeadFiles
    BY <1>3, <1>4 DEF UndoAction, Executed
  <2>3. a.file \notin theirs
    BY <1>3, <1>4 DEF Untouched, KeptInv, TheirsStays
  <2> HIDE DEF a
  <2>4. /\ lead' \in [LeadFiles -> Known]
        /\ \A g \in LeadFiles : g # a.file => lead'[g] = lead[g]
        /\ theirs' = theirs \ {a.file} /\ lost' = lost
    BY <1>2, <2>1, <2>2, <2>3, Overwritten
  <2>5. LeadTypes'
    BY <1>1, <1>2, <1>3, <2>2, <2>4 DEF LeadTypes, inputs, seen, bounds, answer, Committing, Preparing
  <2>6. TheirsStays'
    BY <1>3, <2>3, <2>4 DEF KeptInv, TheirsStays, Executed
  <2>7. EarlyWrites' /\ BaselineKept' /\ Restorable'
    BY <1>1, <1>3, <2>3, <2>4 DEF KeptInv, EarlyWrites, BaselineKept, Restorable, seen, inputs, HashOf,
                                  Preparing, Committing
  <2> QED
    BY <2>4, <2>5, <2>6, <2>7 DEF KeptInv
<1>5. CASE ~Untouched(a)
  <2>1. UNCHANGED <<lead, losses>> /\ conflicted' \in BOOLEAN
    BY <1>2, <1>5 DEF UndoAction, LeadTypes
  <2> HIDE DEF a
  <2>2. LeadTypes'
    BY <1>1, <1>2, <1>3, <2>1 DEF LeadTypes, inputs, losses, seen, bounds, answer, Committing, Preparing
  <2> QED
    BY <1>1, <1>3, <2>1, <2>2 DEF KeptInv, BaselineKept, EarlyWrites, TheirsStays, Restorable, inputs,
                                  losses, seen, Committing, Preparing, HashOf
<1> QED
  BY <1>4, <1>5

\* A foreign version is new: no copy, no action and no earlier state holds it.
LEMMA KeptForeign ==
    ASSUME KeptInv, ForeignWrite
    PROVE  KeptInv' /\ lost' = lost
<1> DEFINE new == Foreign + foreign
<1>1. PICK f \in LeadFiles, gone \in BOOLEAN :
          /\ lead' = [lead EXCEPT ![f] = IF gone THEN Missing ELSE new]
          /\ theirs' = IF gone THEN theirs \ {f} ELSE theirs \cup {f}
          /\ early' = IF leadPc \in Preparing /\ ~gone /\ f \in Hashed THEN early \cup {new} ELSE early
  BY DEF ForeignWrite, Preparing
<1>2. /\ UNCHANGED <<leadPc, inputs, baseline, copy, todo, snapshot, actions, conflicted, answer,
                     lost, bounds>>
      /\ foreign' = foreign + 1
  BY DEF ForeignWrite
<1>3. /\ Foreign \in Nat /\ Foreign > 0 /\ foreign \in Nat /\ new \in Nat /\ new > Missing
      /\ Known \subseteq Known' /\ new \in Known' /\ new \notin Known /\ Missing \in Known'
      /\ Missing \in Known
  <2>1. Results \in Nat /\ foreign \in Nat
    BY LeadAssumption DEF KeptInv, LeadTypes
  <2>2. Foreign \in Nat /\ Foreign > 0
    BY <2>1 DEF Foreign
  <2> HIDE DEF Foreign
  <2>3. new \in Nat /\ new > 0
    BY <2>1, <2>2
  <2> QED
    BY <1>2, <2>1, <2>2, <2>3 DEF Known, Missing
<1>4. actions \in Seq(Executed')
  <2>1. Executed \subseteq Executed'
    BY <1>3 DEF Executed
  <2> QED
    BY <2>1, SeqMonotonic DEF KeptInv, LeadTypes
<1> HIDE DEF new
<1>5. LeadTypes'
  <2>1. /\ lead' \in [LeadFiles -> Known'] /\ copy' \in [LeadFiles -> Known']
        /\ before' \in [LeadFiles -> Known'] /\ snapshot' \in [Snapshotted -> Known']
    BY <1>1, <1>2, <1>3 DEF KeptInv, LeadTypes, inputs
  <2> QED
    BY <1>1, <1>2, <1>3, <1>4, <2>1 DEF KeptInv, LeadTypes, inputs, bounds, answer, Committing, Preparing
<1>6. BaselineKept'
  <2>1. \A g \in LeadFiles : before[g] # new
    BY <1>3 DEF KeptInv, LeadTypes
  <2> QED
    BY <1>1, <1>2, <1>3, <2>1 DEF KeptInv, BaselineKept, inputs, HashOf, Preparing, Hashed, OfKind
<1>7. \A v \in early : v # new /\ v # Missing
  BY <1>3 DEF KeptInv, LeadTypes, BaselineKept
<1>8. EarlyWrites'
  BY <1>1, <1>2, <1>3, <1>7 DEF KeptInv, LeadTypes, EarlyWrites, Preparing, Committing
<1>9. TheirsStays'
  <2>1. ASSUME NEW i \in DOMAIN actions PROVE actions[i] \in Executed
    BY <2>1, ElementOfSeq, LenProperties DEF KeptInv, LeadTypes
  <2> QED
    BY <1>1, <1>2, <1>3, <2>1 DEF KeptInv, LeadTypes, TheirsStays, Executed
<1>10. Restorable'
  BY <1>2 DEF KeptInv, Restorable, Snapshotted, OfKind
<1> QED
  BY <1>2, <1>5, <1>6, <1>8, <1>9, <1>10 DEF KeptInv

-----------------------------------------------------------------------------
(* The same steps while no other program writes. *)

Calm == KeptInv /\ foreign = 0 /\ CopyExact /\ LeadExact /\ ActionsExact /\ (leadPc # "done" => ~conflicted)

LEMMA CalmBegin ==
    ASSUME Calm, Begin
    PROVE  CopyExact' /\ LeadExact' /\ ActionsExact'
<1>1. /\ UNCHANGED <<lead, copy, actions>> /\ before' = lead /\ leadPc = "idle"
      /\ leadPc' = "done" \/ (leadPc' = "copying" /\ todo' = Copied)
  BY DEF Begin, Return
<1> QED
  BY <1>1 DEF Calm, CopyExact, LeadExact, ActionsExact, Preparing, Committing

LEMMA CalmCopy ==
    ASSUME Calm, CopyFile \/ Apply
    PROVE  CopyExact' /\ LeadExact' /\ ActionsExact'
<1>1. UNCHANGED <<lead, before, actions>> /\ leadPc = "copying"
  BY DEF CopyFile, Apply, inputs
<1>2. CASE CopyFile
  <2> DEFINE f == LeastFile(todo)
  <2>1. f \in todo /\ f \in LeadFiles /\ f \in Copied
    BY <1>1, <1>2, LeastOfFiles DEF CopyFile, Calm, KeptInv, LeadTypes, CopyExact
  <2>2. leadPc' = leadPc /\ todo' = todo \ {f} /\ copy' = [copy EXCEPT ![f] = lead[f]]
    BY <1>2 DEF CopyFile
  <2>3. lead = before
    BY <1>1 DEF Calm, LeadExact, Preparing
  <2> HIDE DEF f
  <2> QED
    BY <1>1, <2>1, <2>2, <2>3
       DEF Calm, KeptInv, LeadTypes, CopyExact, LeadExact, ActionsExact, Preparing, Committing
<1>3. CASE Apply
  <2>1. todo = {} /\ edits' = edits /\ accepted' = accepted
    BY <1>3 DEF Apply, inputs
  <2>2. \A f \in LeadFiles : copy[f] = IF f \in Copied THEN before[f] ELSE Missing
    BY <1>1, <2>1 DEF Calm, CopyExact
  <2>3. \/ leadPc' = "done"
        \/ leadPc' = "verifying" /\ copy' = [f \in LeadFiles |-> Merged(f, copy[f])]
    BY <1>3 DEF Apply, Return
  <2>4. leadPc' = "verifying" =>
            \A f \in LeadFiles :
                copy'[f] = Merged(f, IF f \in Copied THEN before[f] ELSE Missing)
    BY <2>2, <2>3
  <2>5. ASSUME NEW f \in LeadFiles, NEW old PROVE Merged(f, old)' = Merged(f, old)
    BY <2>1 DEF Merged, Eligible, Conflicting
  <2>6. CopyExact'
    <3>1. \A f \in LeadFiles : Merged(f, IF f \in Copied THEN before[f] ELSE Missing)' =
                                   Merged(f, IF f \in Copied THEN before[f] ELSE Missing)
      BY <1>1, <2>1 DEF Merged, Eligible, Conflicting
    <3> QED
      BY <1>1, <2>3, <2>4, <3>1 DEF CopyExact, Committing
  <2> QED
    BY <1>1, <2>3, <2>6 DEF Calm, LeadExact, ActionsExact, Preparing, Committing
<1> QED
  BY <1>2, <1>3

\* Steps that leave the copy, the lead workspace and the actions.
LEMMA CalmQuiet ==
    ASSUME Calm,
           \/ Verify \/ DriftCheck \/ Commit \/ CommitFails \/ RolledBack \/ LeadKilled
           \/ UNCHANGED leadVars
    PROVE  CopyExact' /\ LeadExact' /\ ActionsExact'
<1>1. /\ UNCHANGED <<edits, accepted, before, lead, copy, actions, snapshot, conflicted>>
      /\ \/ leadPc' = "done"
         \/ leadPc = "verifying" /\ leadPc' = "checking"
         \/ leadPc = "checking" /\ leadPc' = "snapshotting"
         \/ leadPc \in Committing /\ leadPc' = "rolling_back"
         \/ leadPc' = leadPc /\ todo' = todo
  BY DEF Verify, DriftCheck, Commit, CommitFails, RolledBack, LeadKilled, leadVars, Return, inputs,
         Committing
<1>2. CopyExact'
  BY <1>1 DEF Calm, CopyExact, Merged, Eligible, Conflicting, Preparing, Committing
<1>3. LeadExact'
  BY <1>1 DEF Calm, LeadExact, ToWrite, ToDelete, PreExisting, Preparing, Committing
<1>4. ActionsExact'
  BY <1>1 DEF Calm, ActionsExact, ToWrite, ToDelete, PreExisting, Committing
<1> QED
  BY <1>2, <1>3, <1>4

LEMMA CalmSnapshot ==
    ASSUME Calm, Snapshot \/ Written
    PROVE  CopyExact' /\ LeadExact' /\ ActionsExact'
<1>1. UNCHANGED <<edits, accepted, before, lead, copy, actions, conflicted>>
  BY DEF Snapshot, Written, inputs
<1>2. CASE Snapshot
  <2>1. /\ leadPc = "snapshotting" /\ leadPc' = "writing" /\ todo' = ToWrite
        /\ snapshot' = [f \in Snapshotted |-> lead[f]] /\ ToWrite' = ToWrite
    BY <1>1, <1>2 DEF Snapshot, ToWrite
  <2>2. lead = before /\ actions = <<>> /\ DOMAIN actions = {} /\ ~conflicted
    BY <2>1 DEF Calm, LeadExact
  <2>3. CopyExact'
    BY <1>1, <2>1 DEF Calm, CopyExact, Merged, Eligible, Conflicting, Preparing, Committing
  <2>4. LeadExact' /\ ActionsExact'
    BY <1>1, <2>1, <2>2 DEF LeadExact, ActionsExact, Preparing, Committing
  <2> QED
    BY <2>3, <2>4
<1>3. CASE Written
  <2>1. /\ leadPc = "writing" /\ leadPc' = "deleting" /\ todo = {} /\ todo' = ToDelete
        /\ ToWrite' = ToWrite /\ ToDelete' = ToDelete /\ snapshot' = snapshot
    BY <1>1, <1>3 DEF Written, ToWrite, ToDelete, PreExisting
  <2>2. CopyExact'
    BY <1>1, <2>1 DEF Calm, CopyExact, Merged, Eligible, Conflicting, Preparing, Committing
  <2>3. LeadExact'
    BY <1>1, <2>1 DEF Calm, LeadExact, Preparing, Committing
  <2>4. ActionsExact'
    BY <1>1, <2>1 DEF Calm, ActionsExact, PreExisting, Preparing, Committing
  <2> QED
    BY <2>2, <2>3, <2>4
<1> QED
  BY <1>2, <1>3

\* The file that is written or deleted was not written before.
LEMMA CalmCommit ==
    ASSUME Calm, WriteBack \/ Delete
    PROVE  CopyExact' /\ LeadExact' /\ ActionsExact'
<1>0. PICK f \in LeadFiles : f = LeastFile(todo) /\ f \in todo
  <2>1. LeastFile(todo) \in todo
    BY LeastOfFiles DEF WriteBack, Delete, Calm, KeptInv, LeadTypes
  <2> QED
    BY <2>1 DEF Calm, KeptInv, LeadTypes
<1>1. /\ UNCHANGED <<leadPc, edits, accepted, before, copy, snapshot, conflicted>>
      /\ f \in LeadFiles /\ f \in todo /\ todo' = todo \ {f} /\ leadPc \in {"writing", "deleting"}
  BY <1>0 DEF WriteBack, Delete, Calm, KeptInv, LeadTypes, inputs
<1>2. LeadTypes /\ ToWrite' = ToWrite /\ ToDelete' = ToDelete
  BY <1>1 DEF Calm, KeptInv, ToWrite, ToDelete, PreExisting
<1>3. /\ leadPc = "writing" => f \in ToWrite
      /\ leadPc = "deleting" => /\ f \in ToDelete /\ f \notin ToWrite
                                /\ lead[f] = before[f] /\ before[f] # Missing
  BY <1>1 DEF Calm, LeadExact, ToWrite, ToDelete, PreExisting, Committing
<1>4. \E bytes \in Known, kind \in {"CREATE", "MODIFY", "DELETE"} :
          /\ Overwrites(f, bytes) /\ Act(kind, f, bytes)
          /\ bytes = IF leadPc = "writing" THEN copy[f] ELSE Missing
          /\ kind = "CREATE" <=> ~PreExisting(f)
  <2>1. copy[f] \in Known /\ Missing \in Known
    <3>1. Foreign \in Nat /\ Foreign > 0 /\ foreign \in Nat
      BY <1>2, LeadAssumption DEF Foreign, LeadTypes
    <3> QED
      BY <1>1, <1>2, <3>1 DEF LeadTypes, Known, Missing
  <2>2. CASE WriteBack
    <3>1. Overwrites(f, copy[f]) /\ Act(IF PreExisting(f) THEN "MODIFY" ELSE "CREATE", f, copy[f])
          /\ leadPc = "writing"
      BY <1>0, <2>2 DEF WriteBack
    <3> QED
      BY <2>1, <3>1
  <2>3. CASE Delete
    <3>1. PreExisting(f) /\ lead[f] # Missing /\ leadPc = "deleting"
      BY <1>0, <1>3, <2>3 DEF Delete, ToDelete
    <3>2. Overwrites(f, Missing) /\ Act("DELETE", f, Missing)
      BY <1>0, <2>3, <3>1 DEF Delete
    <3> QED
      BY <2>1, <3>1, <3>2
  <2> QED
    BY <2>2, <2>3
<1>5. PICK bytes \in Known, kind \in {"CREATE", "MODIFY", "DELETE"} :
          /\ Overwrites(f, bytes) /\ Act(kind, f, bytes)
          /\ bytes = IF leadPc = "writing" THEN copy[f] ELSE Missing
          /\ kind = "CREATE" <=> ~PreExisting(f)
  BY <1>4
<1>6. /\ lead' \in [LeadFiles -> Known] /\ lead'[f] = bytes
      /\ \A g \in LeadFiles : g # f => lead'[g] = lead[g]
  BY <1>1, <1>2, <1>5, Overwritten
<1>7. /\ DOMAIN actions = 1..Len(actions) /\ DOMAIN actions' = 1..(Len(actions) + 1)
      /\ Len(actions) \in Nat
      /\ \A i \in DOMAIN actions : actions'[i] = actions[i]
      /\ actions'[Len(actions) + 1] = [kind |-> kind, file |-> f, bytes |-> bytes]
  BY <1>1, <1>2, <1>5, Acted
<1>8. \A i \in DOMAIN actions : actions[i].file \in LeadFiles /\ actions[i].file # f
  <2> TAKE i \in DOMAIN actions
  <2>1. actions[i] \in Executed
    BY <1>2, <1>7, ElementOfSeq DEF LeadTypes
  <2> QED
    BY <1>1, <1>3, <2>1 DEF Calm, ActionsExact, Committing, Executed
<1>9. CopyExact'
  BY <1>1 DEF Calm, CopyExact, Merged, Eligible, Conflicting, Preparing, Committing
<1>10. LeadExact'
  BY <1>1, <1>2, <1>3, <1>5, <1>6 DEF Calm, LeadExact, Preparing, Committing
<1>11. \A g : PreExisting(g)' <=> PreExisting(g)
  BY <1>1 DEF PreExisting
<1>12. ActionsExact'
  <2> DEFINE n == Len(actions) + 1
  <2>1. DOMAIN actions' = DOMAIN actions \cup {n} /\ n \in DOMAIN actions' /\ n \notin DOMAIN actions
    BY <1>7
  <2>2. \A i \in DOMAIN actions' : i \in DOMAIN actions \/ i = n
    BY <2>1
  <2> HIDE DEF n
  <2>3. actions'[n].file = f /\ actions'[n].bytes = bytes /\ actions'[n].kind = kind
    BY <1>7 DEF n
  <2>4. ASSUME NEW i \in DOMAIN actions'
        PROVE  /\ actions'[i].bytes = lead'[actions'[i].file]
               /\ actions'[i].kind = "CREATE" <=> ~PreExisting(actions[i].file)'
               /\ KindOf[actions'[i].file] # "ignored"
               /\ leadPc' = "writing" => actions'[i].file \in (ToWrite \ todo)'
               /\ leadPc' = "deleting" => actions'[i].file \in (ToWrite \cup (ToDelete \ todo))'
    <3>1. CASE i \in DOMAIN actions
      BY <1>1, <1>2, <1>6, <1>7, <1>8, <1>11, <3>1 DEF Calm, ActionsExact, Committing
    <3>2. CASE i = n
      <4>1. KindOf[f] # "ignored"
        BY <1>1, <1>3 DEF ToWrite, ToDelete, PreExisting, Snapshotted, OfKind
      <4> QED
        BY <1>1, <1>2, <1>3, <1>5, <1>6, <1>11, <2>3, <3>2, <4>1
    <3> QED
      BY <2>2, <3>1, <3>2
  <2>5. ASSUME NEW i \in DOMAIN actions', NEW j \in DOMAIN actions', actions'[i].file = actions'[j].file
        PROVE  i = j
    <3>1. i \in DOMAIN actions /\ j \in DOMAIN actions => i = j
      BY <1>1, <1>7, <2>5 DEF Calm, ActionsExact, Committing
    <3> QED
      BY <1>7, <1>8, <2>2, <2>3, <2>5, <3>1
  <2>6. ASSUME NEW g \in Hashed, lead'[g] # before'[g]
        PROVE  \E i \in DOMAIN actions' : actions'[i].file = g
    <3>1. CASE g = f
      BY <2>1, <2>3, <3>1
    <3>2. CASE g # f
      <4>1. lead[g] # before[g]
        BY <1>1, <1>6, <2>6, <3>2 DEF Hashed, OfKind
      <4>2. PICK i \in DOMAIN actions : actions[i].file = g
        BY <1>1, <4>1 DEF Calm, ActionsExact, Committing
      <4> QED
        BY <1>7, <2>1, <4>2
    <3> QED
      BY <3>1, <3>2
  <2>7. ~conflicted'
    BY <1>1 DEF Calm
  <2> QED
    BY <2>4, <2>5, <2>6, <2>7 DEF ActionsExact
<1> QED
  BY <1>9, <1>10, <1>12

\* Undoing the last action puts its file back as it was.
LEMMA CalmUndo ==
    ASSUME Calm, UndoAction
    PROVE  CopyExact' /\ LeadExact' /\ ActionsExact' /\ conflicted' = conflicted
<1>1. PICK n, a : n = Len(actions) /\ a = actions[n]
  OBVIOUS
<1>2. /\ UNCHANGED <<leadPc, edits, accepted, before, copy, todo, snapshot, foreign>>
      /\ actions # <<>> /\ actions' = Front(actions) /\ leadPc = "rolling_back" /\ LeadTypes
  BY DEF UndoAction, inputs, seen, Calm, KeptInv
<1>3. /\ n \in DOMAIN actions /\ a \in Executed /\ DOMAIN actions' = DOMAIN actions \ {n}
      /\ \A i \in DOMAIN actions' : actions'[i] = actions[i]
  BY <1>1, <1>2, LastUndone
<1>4. /\ a.file \in LeadFiles /\ KindOf[a.file] # "ignored" /\ a.bytes = lead[a.file]
      /\ a.kind = "CREATE" <=> ~PreExisting(a.file)
  BY <1>1, <1>2, <1>3 DEF Calm, ActionsExact, Executed, Committing
<1>5. snapshot = [f \in Snapshotted |-> before[f]]
  BY <1>2 DEF Calm, LeadExact, Committing
<1>6. /\ a.file \in Snapshotted => Restored(a) = before[a.file]
      /\ Restored(a) \in Known
  <2>1. Foreign \in Nat /\ Foreign > 0 /\ foreign \in Nat
    BY <1>2, LeadAssumption DEF Foreign, LeadTypes
  <2> QED
    BY <1>2, <1>4, <1>5, <2>1 DEF Restored, PreExisting, LeadTypes, Known, Missing
<1>7. Overwrites(a.file, Restored(a)) /\ conflicted' = conflicted
  BY <1>1, <1>4 DEF UndoAction, Untouched
<1>8. /\ lead' \in [LeadFiles -> Known] /\ lead'[a.file] = Restored(a)
      /\ \A g \in LeadFiles : g # a.file => lead'[g] = lead[g]
  BY <1>2, <1>4, <1>6, <1>7, Overwritten
<1>9. CopyExact'
  BY <1>2 DEF Calm, CopyExact, Merged, Eligible, Conflicting, Preparing, Committing
<1>10. LeadExact'
  BY <1>2, <1>5 DEF LeadExact, Preparing, Committing
<1>11. \A g : PreExisting(g)' <=> PreExisting(g)
  BY <1>2 DEF PreExisting
<1>12. \A i \in DOMAIN actions' : actions[i].file # a.file /\ actions[i].file \in LeadFiles
  <2> TAKE i \in DOMAIN actions'
  <2>1. i \in DOMAIN actions /\ i # n
    BY <1>3
  <2>2. actions[i] \in Executed
    BY <1>2, <2>1, ElementOfSeq, LenProperties DEF LeadTypes
  <2> QED
    BY <1>1, <1>2, <1>3, <2>1, <2>2 DEF Calm, ActionsExact, Committing, Executed
<1>13. ActionsExact'
  <2>1. ASSUME NEW i \in DOMAIN actions'
        PROVE  /\ actions'[i].bytes = lead'[actions'[i].file]
               /\ actions'[i].kind = "CREATE" <=> ~PreExisting(actions[i].file)'
               /\ KindOf[actions'[i].file] # "ignored"
    BY <1>2, <1>3, <1>8, <1>11, <1>12 DEF Calm, ActionsExact, Committing
  <2>2. ASSUME NEW i \in DOMAIN actions', NEW j \in DOMAIN actions', actions'[i].file = actions'[j].file
        PROVE  i = j
    BY <1>2, <1>3, <2>2 DEF Calm, ActionsExact, Committing
  <2>3. ASSUME NEW g \in Hashed, lead'[g] # before'[g]
        PROVE  \E i \in DOMAIN actions' : actions'[i].file = g
    <3>1. g # a.file
      BY <1>2, <1>4, <1>6, <1>8, <2>3 DEF Hashed, Snapshotted, OfKind
    <3>2. lead[g] # before[g]
      BY <1>2, <1>8, <2>3, <3>1 DEF Hashed, OfKind
    <3>3. PICK i \in DOMAIN actions : actions[i].file = g
      BY <1>2, <3>2 DEF Calm, ActionsExact, Committing
    <3> QED
      BY <1>1, <1>3, <3>1, <3>3
  <2>4. ~conflicted'
    BY <1>2, <1>7 DEF Calm
  <2> QED
    BY <1>2, <2>1, <2>2, <2>3, <2>4 DEF ActionsExact
<1> QED
  BY <1>7, <1>9, <1>10, <1>13

-----------------------------------------------------------------------------
(* The result.                                                             *)

\* A commit that went through has left every visible file as the results have it.
LEMMA Integrated ==
    ASSUME Calm, Commit
    PROVE  /\ \A f \in LeadFiles \ OfKind({"hidden_dir", "ignored"}) : lead[f] = Merged(f, before[f])
           /\ \A f \in OfKind({"ignored"}) : lead[f] = before[f]
<1>1. leadPc = "deleting" /\ todo = {} /\ LeadTypes
  BY DEF Commit, Calm, KeptInv
<1>2. /\ \A f \in LeadFiles : lead[f] = IF f \in ToWrite THEN copy[f]
                                        ELSE IF f \in ToDelete THEN Missing ELSE before[f]
      /\ \A f \in LeadFiles : copy[f] = Merged(f, IF f \in Copied THEN before[f] ELSE Missing)
      /\ snapshot = [f \in Snapshotted |-> before[f]]
  BY <1>1 DEF Calm, LeadExact, CopyExact, Committing
<1>3. ASSUME NEW f \in LeadFiles, f \notin OfKind({"hidden_dir", "ignored"})
      PROVE  lead[f] = Merged(f, before[f])
  <2>1. KindOf[f] \in {"plain", "nested_dot", "top_dot"}
    BY <1>3, LeadAssumption DEF OfKind
  <2>2. CASE \E w \in Eligible : edits[w][f] > 0
    <3>1. PICK w \in Eligible : edits[w][f] > 0
      BY <2>2
    <3>2. w \in Assignments
      BY <1>1 DEF Eligible, LeadTypes
    <3>3. copy[f] = AppliedOf(w) /\ Merged(f, before[f]) = AppliedOf(w) /\ copy[f] # Missing
      BY <1>1, <1>2, <3>1, <3>2, MergedIs, AppliedKnown
    <3> QED
      BY <1>2, <2>1, <3>3 DEF ToWrite
  <2>3. CASE \A w \in Eligible : ~(edits[w][f] > 0)
    <3>1. copy[f] = (IF f \in Copied THEN before[f] ELSE Missing) /\ Merged(f, before[f]) = before[f]
      BY <1>1, <1>2, <2>3, MergedIs
    <3> QED
      BY <1>2, <2>1, <3>1 DEF ToWrite, ToDelete, PreExisting, Copied, Snapshotted, OfKind
  <2> QED
    BY <2>2, <2>3
<1>4. ASSUME NEW f \in OfKind({"ignored"})
      PROVE  lead[f] = before[f]
  BY <1>2, <1>4 DEF ToWrite, ToDelete, PreExisting, Snapshotted, OfKind
<1> QED
  BY <1>3, <1>4

LEMMA DoneStays ==
    ASSUME leadPc = "done", [LeadNext]_leadVars
    PROVE  UNCHANGED leadVars
BY DEF LeadNext, LeadWork, Begin, CopyFile, Apply, Verify, DriftCheck, Snapshot, WriteBack, Written,
       Delete, Commit, CommitFails, UndoAction, RolledBack, ForeignWrite, LeadKilled

LEMMA GoesOn ==
    ASSUME CopyFile \/ Snapshot \/ WriteBack \/ Written \/ Delete \/ CommitFails \/ UndoAction \/ ForeignWrite
    PROVE  leadPc # "done" /\ leadPc' # "done" /\ leadStatus' = leadStatus
BY DEF CopyFile, Snapshot, WriteBack, Written, Delete, CommitFails, UndoAction, ForeignWrite, answer

\* Each way to return says what was done.
LEMMA ReturnsExact ==
    ASSUME KeptInv, Undisturbed, leadPc # "done", leadPc' = "done",
           Begin \/ Apply \/ Verify \/ DriftCheck \/ Commit \/ RolledBack \/ LeadKilled
    PROVE  Outcome'
<1>1. foreign' = foreign /\ lead' = lead /\ HashOf(lead)' = HashOf(lead)
  BY DEF Begin, Apply, Verify, DriftCheck, Commit, RolledBack, LeadKilled, inputs, seen, HashOf
<1>2. foreign = 0 => Calm
  BY DEF Undisturbed, Calm
<1>3. CASE Begin
  <2>1. /\ leadApplied' = {} /\ before' = lead
        /\ leadStatus' \in {"CONFLICTED", "FAILED", "INTEGRATED"}
    BY <1>3 DEF Begin, Return
  <2> QED
    BY <1>1, <2>1 DEF Outcome, HashOf
<1>4. CASE Apply \/ Verify \/ DriftCheck
  <2>1. /\ leadApplied' = {} /\ leadStatus' \in {"raised", "FAILED"} /\ before' = before
        /\ leadPc \in Preparing
    BY <1>4 DEF Apply, Verify, DriftCheck, Return, Preparing, inputs
  <2>2. foreign = 0 => lead = before
    BY <1>2, <2>1 DEF Calm, LeadExact
  <2> QED
    BY <1>1, <2>1, <2>2 DEF Outcome, HashOf
<1>5. CASE Commit
  <2>1. /\ leadApplied' = Eligible /\ leadStatus' = "INTEGRATED"
        /\ UNCHANGED <<edits, accepted, before>>
    BY <1>5 DEF Commit, Return, inputs
  <2>2. Eligible' = Eligible /\ \A f \in LeadFiles : Merged(f, before[f])' = Merged(f, before[f])
    BY <2>1 DEF Merged, Eligible, Conflicting
  <2>3. foreign = 0 =>
            /\ \A f \in LeadFiles \ OfKind({"hidden_dir", "ignored"}) : lead[f] = Merged(f, before[f])
            /\ \A f \in OfKind({"ignored"}) : lead[f] = before[f]
    BY <1>2, <1>5, Integrated
  <2> QED
    BY <1>1, <2>1, <2>2, <2>3 DEF Outcome
<1>6. CASE RolledBack
  <2>1. /\ leadPc = "rolling_back" /\ actions = <<>> /\ leadApplied' = {} /\ before' = before
        /\ leadStatus' = IF conflicted THEN "ROLLBACK_CONFLICT"
                         ELSE IF HashOf(lead) # baseline THEN "MISMATCH" ELSE "ROLLED_BACK"
    BY <1>6 DEF RolledBack, Return, inputs
  <2>2. baseline = HashOf(before)
    BY <2>1 DEF KeptInv, BaselineKept
  <2>3. foreign = 0 => ~conflicted /\ HashOf(lead) = HashOf(before)
    <3> HAVE foreign = 0
    <3>1. ~conflicted /\ DOMAIN actions = {}
      BY <1>2, <2>1 DEF Calm
    <3>2. \A f \in Hashed : lead[f] = before[f]
      BY <1>2, <2>1, <3>1 DEF Calm, ActionsExact, Committing
    <3> QED
      BY <3>1, <3>2 DEF HashOf
  <2>4. HashOf(before)' = HashOf(before)
    BY <2>1 DEF HashOf
  <2> QED
    BY <1>1, <2>1, <2>2, <2>3, <2>4 DEF Outcome
<1>7. CASE LeadKilled
  <2>1. leadStatus' = "killed" /\ leadKills' = leadKills + 1 /\ leadKills \in Nat
    BY <1>7 DEF LeadKilled, Return, KeptInv, LeadTypes
  <2> QED
    BY <2>1 DEF Outcome
<1> QED
  BY <1>3, <1>4, <1>5, <1>6, <1>7

LEMMA LeadInitGood ==
    ASSUME LeadInit
    PROVE  LeadInv
<1>1. DOMAIN <<>> = {}
  BY EmptySeq
<1> QED
  BY <1>1, KeptInit
     DEF LeadInit, LeadInv, Undisturbed, CopyExact, LeadExact, ActionsExact, Outcome, Silent,
         Preparing, Committing

\* No step loses an early version, and the rollback loses none at all.
LEMMA KeptStep ==
    ASSUME KeptInv, [LeadNext]_leadVars
    PROVE  KeptInv' /\ \A v \in lost' \ lost : v \notin early /\ leadPc # "rolling_back"
<1>1. CASE Begin \/ CopyFile \/ Apply \/ Snapshot \/ DriftCheck \/ Verify \/ Written \/ Commit
           \/ CommitFails \/ RolledBack \/ LeadKilled \/ UNCHANGED leadVars
  <2>1. KeptInv'
    BY <1>1, KeptBegin, KeptCopy, KeptCheck, KeptQuiet
  <2>2. lost' = lost
    BY <1>1 DEF Begin, CopyFile, Apply, Snapshot, DriftCheck, Verify, Written, Commit, CommitFails,
                RolledBack, LeadKilled, leadVars, losses
  <2> QED
    BY <2>1, <2>2
<1>2. CASE WriteBack \/ Delete
  BY <1>2, KeptCommit
<1>3. CASE UndoAction \/ ForeignWrite
  <2>1. KeptInv' /\ lost' = lost
    BY <1>3, KeptUndo, KeptForeign
  <2> QED
    BY <2>1
<1> QED
  BY <1>1, <1>2, <1>3 DEF LeadNext, LeadWork

LEMMA LeadStep ==
    ASSUME LeadInv, [LeadNext]_leadVars
    PROVE  LeadInv'
<1>1. KeptInv'
  BY KeptStep DEF LeadInv
<1>2. CASE leadPc = "done"
  <2>1. UNCHANGED leadVars
    BY <1>2, DoneStays
  <2> QED
    BY <1>1, <2>1
       DEF leadVars, LeadInv, Undisturbed, CopyExact, LeadExact, ActionsExact, Outcome, Silent, Merged,
           Eligible, Conflicting, ToWrite, ToDelete, PreExisting, HashOf
<1>3. CASE leadPc # "done"
  <2>1. Outcome' /\ Silent'
    <3>1. CASE leadPc' = "done"
      BY <1>3, <3>1, GoesOn, ReturnsExact DEF LeadInv, LeadNext, LeadWork, leadVars, Silent
    <3>2. CASE leadPc' # "done"
      <4>1. leadStatus' = leadStatus
        BY <3>2, GoesOn DEF LeadNext, LeadWork, leadVars, Begin, Apply, Verify, DriftCheck, Commit,
                            RolledBack, LeadKilled, Return, answer
      <4> QED
        BY <1>3, <3>2, <4>1 DEF LeadInv, Outcome, Silent
    <3> QED
      BY <3>1, <3>2
  <2>2. Undisturbed'
    <3> SUFFICES ASSUME foreign' = 0
                 PROVE  CopyExact' /\ LeadExact' /\ ActionsExact' /\ (leadPc' # "done" => ~conflicted')
      BY DEF Undisturbed
    <3>1. ~ForeignWrite /\ foreign = 0
      BY DEF ForeignWrite, LeadInv, KeptInv, LeadTypes, LeadNext, LeadWork, Begin, CopyFile, Apply,
             Verify, DriftCheck, Snapshot, WriteBack, Written, Delete, Commit, CommitFails,
             UndoAction, RolledBack, LeadKilled, seen, leadVars
    <3>2. Calm
      BY <3>1 DEF LeadInv, Undisturbed, Calm
    <3>3. CopyExact' /\ LeadExact' /\ ActionsExact'
      BY <3>1, <3>2, CalmBegin, CalmCopy, CalmQuiet, CalmSnapshot, CalmCommit, CalmUndo
         DEF LeadNext, LeadWork
    <3>4. conflicted' = conflicted
      BY <3>1, <3>2, CalmUndo
         DEF LeadNext, LeadWork, Begin, CopyFile, Apply, Verify, DriftCheck, Snapshot, WriteBack,
             Written, Delete, Commit, CommitFails, RolledBack, LeadKilled, leadVars
    <3> QED
      BY <1>3, <3>2, <3>3, <3>4 DEF Calm
  <2> QED
    BY <1>1, <2>1, <2>2 DEF LeadInv
<1> QED
  BY <1>2, <1>3

LEMMA AppliedExactly ==
    ASSUME LeadInv
    PROVE  ExactlyTheApplied
<1> SUFFICES ASSUME Returned, foreign = 0, leadKills = 0,
                    NEW f \in OfKind({"plain", "ignored"}
                         \cup (IF leadStatus = "INTEGRATED" THEN {"nested_dot", "top_dot"} ELSE {}))
             PROVE  LET who == {w \in leadApplied : edits[w][f] > 0}
                    IN IF who = {} \/ KindOf[f] = "ignored" THEN lead[f] = before[f]
                       ELSE \E w \in who : lead[f] = AppliedOf(w) /\ who = {w}
  BY Zenon DEF ExactlyTheApplied
<1>1. f \in LeadFiles /\ LeadTypes
  BY DEF OfKind, LeadInv, KeptInv
<1>2. CASE leadApplied = {} /\ HashOf(lead) = HashOf(before) /\ (leadStatus = "INTEGRATED" => lead = before)
  <2>1. lead[f] = before[f]
    <3>1. CASE f \in Hashed
      <4>1. HashOf(lead)[f] = lead[f] /\ HashOf(before)[f] = before[f]
        BY <3>1 DEF HashOf
      <4> QED
        BY <1>2, <4>1
    <3>2. CASE f \notin Hashed
      BY <1>2, <3>2 DEF Hashed, OfKind
    <3> QED
      BY <3>1, <3>2
  <2> QED
    BY <1>2, <2>1
<1>3. CASE /\ leadApplied = Eligible
           /\ \A g \in LeadFiles \ OfKind({"hidden_dir", "ignored"}) : lead[g] = Merged(g, before[g])
           /\ \A g \in OfKind({"ignored"}) : lead[g] = before[g]
  <2> DEFINE who == {w \in leadApplied : edits[w][f] > 0}
  <2>1. CASE KindOf[f] = "ignored"
    BY <1>1, <1>3, <2>1 DEF OfKind
  <2>2. CASE KindOf[f] # "ignored"
    <3>1. lead[f] = Merged(f, before[f])
      BY <1>1, <1>3, <2>2 DEF OfKind
    <3>2. CASE who = {}
      BY <1>1, <1>3, <2>2, <3>1, <3>2, MergedIs
    <3>3. CASE who # {}
      <4>1. PICK w \in who : TRUE
        BY <3>3
      <4>2. lead[f] = AppliedOf(w)
        BY <1>1, <1>3, <3>1, <4>1, MergedIs
      <4>3. who = {w}
        BY <1>1, <1>3, <4>1, OneWriter
      <4> QED
        BY <2>2, <4>2, <4>3
    <3> QED
      BY <3>2, <3>3
  <2> QED
    BY <2>1, <2>2
<1> QED
  BY <1>2, <1>3 DEF LeadInv, Outcome, Returned

\* In every behaviour of the coordinator a rollback that is reported as clean
\* has restored the baseline, what is reported as integrated is what the lead
\* workspace holds, and no early foreign version is lost
\* (IntegrationCoordinator._commit_to_lead, integration.py).
THEOREM IntegrationExactHolds == LeadSpec => IntegrationExact
<1>1. LeadInit => LeadInv
  BY LeadInitGood
<1>2. LeadInv /\ [LeadNext]_leadVars => LeadInv'
  BY LeadStep
<1>3. LeadInv => CleanRollback /\ ExactlyTheApplied
  BY AppliedExactly DEF LeadInv, CleanRollback, Outcome, Returned
<1>4. LeadInv /\ [LeadNext]_leadVars
          => [\A v \in lost' \ lost : v \notin early /\ leadPc # "rolling_back"]_leadVars
  BY KeptStep DEF LeadInv
<1> QED
  BY <1>1, <1>2, <1>3, <1>4, PTL DEF LeadSpec, IntegrationExact, ForeignKept
=============================================================================
