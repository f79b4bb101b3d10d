------------------------------ MODULE Governance ------------------------------
(***************************************************************************)
(* The state that noryx keeps for teams as JSON files without a lock:      *)
(* members, policies, approvals, secrets, budgets and their audit log      *)
(* (enterprise/governance.py), and long projects with their checkpoints    *)
(* (autonomy/projects.py).  Every command of the CLI is a process that     *)
(* reads a file, replaces it through a temporary file of a fixed name, and *)
(* then adds a record to a second file in the same way.                    *)
(* There is one approval subject, one budget and one project; the hash of  *)
(* an audit record is the record's own number.                             *)
(***************************************************************************)
EXTENDS Naturals, Sequences, SequencesExt, FiniteSets

CONSTANTS
    Callers,        \* processes of the CLI that may run at the same time
    Ids,            \* identities
    Tried,          \* the command lines that are tried
    MaxCommands,    \* bound: commands of one behaviour
    MaxKills        \* bound: processes killed in the middle of a command

Roles == {"viewer", "approver", "org_admin"}
States == {"proposed", "approved", "running", "paused", "cancelled", "archived"}
Effects == {"allow", "deny", "require_approval", "require_local_model"}

\* The command lines of _handle_enterprise and _handle_autonomy_project that change something, or
\* leave a record of having looked.
CommandLines ==
    [kind : {"members"}, id : Ids, roles : SUBSET Roles]
    \union [kind : {"activate"}, rules : SUBSET Effects]
    \union [kind : {"evaluate"}]
    \union [kind : {"request"}, id : Ids]
    \union [kind : {"decide"}, id : Ids, request : Nat, decision : {"approved", "rejected"}]
    \union [kind : {"put"}, project : {"p"}]
    \union [kind : {"get"}, id : Ids, project : {"p"}]
    \union [kind : {"limit"}, limit : Nat, threshold : Nat]
    \union [kind : {"charge"}, amount : Nat]
    \union [kind : {"create"}]
    \union [kind : {"transition"}, state : States \ {"proposed"}]

ASSUME GovernanceAssumption ==
    /\ {MaxCommands, MaxKills} \subseteq Nat
    /\ \A c \in Tried : c \in CommandLines

VARIABLES
    disk,           \* the files
    tmp,            \* their temporary files: <<>> or <<content>>
    proc,           \* what each process does
    began,          \* commands begun
    kills,
    effects,        \* bookkeeping: commands whose first file was replaced
    recorded,       \* bookkeeping: commands that returned after adding a record
    spent,          \* bookkeeping: charges allowed since the limit was set
    statesSeen,     \* bookkeeping: states the project has had on disk
    overlapped      \* bookkeeping: two commands were under way at once

teamsVars == <<disk, tmp, proc, began, kills, effects, recorded, spent, statesSeen, overlapped>>

Idle == [pc |-> "idle"]
Files == {"identities", "policies", "approvals", "secrets", "budgets", "projects", "audit",
          "checkpoints"}

TeamsInit ==
    /\ disk = [identities |-> [i \in Ids |-> {}], policies |-> {},
               approvals |-> [requests |-> <<>>, decisions |-> {}], secrets |-> {},
               budgets |-> <<>>, projects |-> <<>>, audit |-> <<>>, checkpoints |-> <<>>]
    /\ tmp = [f \in Files |-> <<>>]
    /\ proc = [p \in Callers |-> Idle]
    /\ began = 0 /\ kills = 0 /\ effects = {} /\ recorded = {} /\ spent = 0 /\ statesSeen = {}
    /\ overlapped = FALSE

-----------------------------------------------------------------------------
(* What a command makes of the file it has read, or a set without members when it refuses. *)

\* ROLE_PERMISSIONS, for the permissions that are asked for.
Grants(permission) ==
    CASE permission = "approve_edits" -> {"approver", "org_admin"}
      [] permission = "access_credentials" -> {"org_admin"}

\* AuthorizationService: an identity that is not known has nothing.
IsAllowed(id, permission) == disk.identities[id] \cap Grants(permission) # {}

\* noryx members add: an identity of the same name is replaced.
AddMember(c, items) == {[items EXCEPT ![c.id] = c.roles \union {"viewer"}]}

ActivateRules(c, rules) == {c.rules}

\* PolicyEngine.evaluate on the effects of the rules that match, in the order of their priority.
Decision(matched) ==
    IF matched = <<>> \/ "deny" \in ToSet(matched) THEN "deny"
    ELSE IF "require_approval" \in ToSet(matched) THEN "require_approval"
    ELSE matched[1]

\* The rules of the policy that match a context, in their order.
Matches == UNION {[1..k -> disk.policies] : k \in 0..2}

Request(c, data) ==
    {[data EXCEPT !.requests = Append(@, [requester |-> c.id, status |-> "pending"])]}

MayDecide(c, request) == c.id # request.requester /\ IsAllowed(c.id, "approve_edits")

\* A request that was decided, or has expired, is decided again all the same.
Decide(c, data) ==
    IF c.request \in DOMAIN data.requests /\ MayDecide(c, data.requests[c.request])
    THEN {[requests |-> [data.requests EXCEPT ![c.request].status = c.decision],
           decisions |-> data.decisions \union
                            {[request |-> c.request, by |-> c.id, decision |-> c.decision]}]}
    ELSE {}

PutSecret(c, items) == {items \union {c.project}}

\* SecretBroker.request writes nothing; it needs the permission and a secret of the project.
MayGetSecret(c, items) == IsAllowed(c.id, "access_credentials") /\ c.project \in items

\* set_limit replaces the limit of the subject, and what was spent starts again.
SetLimit(c, items) == {<<[limit |-> c.limit, threshold |-> c.threshold, spent |-> 0]>>}

\* Faulty variant: the charge is compared with the limit as if nothing had been spent.
WithinEach(item, amount) == amount <= item.limit

WithinLimit(item, amount) ==
    /\ item.spent + amount <= item.limit
    /\ item.threshold > 0 => item.spent + amount <= item.threshold

Charge(c, items) ==
    IF items # <<>> /\ WithinLimit(items[1], c.amount)
    THEN {<<[items[1] EXCEPT !.spent = @ + c.amount]>>}
    ELSE {}

\* A project starts with one milestone and none of its requirements covered.
CreateProject(c, items) == {<<[state |-> "proposed"]>>}

\* ProjectService.transition: every state may follow every other.
Transition(c, items) == IF items = <<>> THEN {} ELSE {<<[state |-> c.state]>>}

\* The file a command changes, and the one it adds a record to afterwards.
FileOf(kind) ==
    CASE kind = "members" -> "identities"
      [] kind = "activate" -> "policies"
      [] kind \in {"request", "decide"} -> "approvals"
      [] kind = "put" -> "secrets"
      [] kind \in {"limit", "charge"} -> "budgets"
      [] kind \in {"create", "transition"} -> "projects"
      [] OTHER -> "none"
Checkpointed(c) == c.kind = "create" \/ (c.kind = "transition" /\ c.state \in {"approved", "paused", "running"})
RecordsIn(c) ==
    CASE c.kind \in {"members", "activate", "evaluate", "put", "get"} -> "audit"
      [] Checkpointed(c) -> "checkpoints"
      [] OTHER -> "none"

Made(c, content) ==
    CASE c.kind = "members" -> AddMember(c, content)
      [] c.kind = "activate" -> ActivateRules(c, content)
      [] c.kind = "request" -> Request(c, content)
      [] c.kind = "decide" -> Decide(c, content)
      [] c.kind = "put" -> PutSecret(c, content)
      [] c.kind = "limit" -> SetLimit(c, content)
      [] c.kind = "charge" -> Charge(c, content)
      [] c.kind = "create" -> CreateProject(c, content)
      [] c.kind = "transition" -> Transition(c, content)

-----------------------------------------------------------------------------
(* A process. *)

Overlap(p) == overlapped' = (overlapped \/ \E q \in Callers \ {p} : proc[q].pc # "idle")

\* The command line is parsed and the first file is read.
BeginCommand(p, c) ==
    /\ proc[p].pc = "idle" /\ began < MaxCommands
    /\ began' = began + 1
    /\ Overlap(p)
    /\ proc' = [proc EXCEPT ![p] =
                  [pc |-> IF FileOf(c.kind) = "none" THEN "look" ELSE "make", n |-> began',
                   cmd |-> c,
                   read |-> IF FileOf(c.kind) = "none" THEN <<>> ELSE <<disk[FileOf(c.kind)]>>]]
    /\ UNCHANGED <<disk, tmp, kills, effects, recorded, spent, statesSeen>>

\* policy evaluate and secrets get look, and are recorded only when there was something to see.
Look(p) ==
    /\ proc[p].pc = "look"
    /\ \E decided \in IF proc[p].cmd.kind = "get" THEN {"read"} ELSE {Decision(m) : m \in Matches} :
       LET c == proc[p].cmd
       IN proc' = [proc EXCEPT ![p] =
                     IF c.kind = "get" /\ ~MayGetSecret(c, disk.secrets) THEN Idle
                     ELSE [pc |-> "record", n |-> @.n, cmd |-> c, decided |-> decided]]
    /\ effects' = effects \union {<<proc[p].n, proc[p].cmd.kind>>}
    /\ UNCHANGED <<disk, tmp, began, kills, recorded, spent, statesSeen, overlapped>>

\* The new content goes to the temporary file, or the command refuses.
Make(p) ==
    /\ proc[p].pc = "make"
    /\ LET c == proc[p].cmd
           made == Made(c, proc[p].read[1])
       IN \/ /\ made = {} /\ proc' = [proc EXCEPT ![p] = Idle] /\ UNCHANGED tmp
          \/ \E content \in made :
               /\ tmp' = [tmp EXCEPT ![FileOf(c.kind)] = <<content>>]
               /\ proc' = [proc EXCEPT ![p] = [pc |-> "replace", n |-> @.n, cmd |-> c]]
    /\ UNCHANGED <<disk, began, kills, effects, recorded, spent, statesSeen, overlapped>>

\* Without a record to add, the command has returned.
After(p, file) ==
    IF file = "none" THEN proc' = [proc EXCEPT ![p] = Idle]
    ELSE proc' = [proc EXCEPT ![p] = [pc |-> "record", n |-> @.n, cmd |-> @.cmd, decided |-> "none"]]

\* The temporary file takes the file's place; when another process has moved it away, the command
\* fails there.
Replace(p) ==
    /\ proc[p].pc = "replace"
    /\ LET c == proc[p].cmd
           f == FileOf(c.kind)
       IN IF tmp[f] = <<>>
          THEN /\ proc' = [proc EXCEPT ![p] = Idle]
               /\ UNCHANGED <<disk, tmp, effects, spent, statesSeen>>
          ELSE /\ disk' = [disk EXCEPT ![f] = tmp[f][1]]
               /\ tmp' = [tmp EXCEPT ![f] = <<>>]
               /\ effects' = effects \union {<<proc[p].n, proc[p].cmd.kind>>}
               /\ spent' = CASE c.kind = "limit" -> 0
                             [] c.kind = "charge" -> spent + c.amount
                             [] OTHER -> spent
               /\ statesSeen' = IF f = "projects" THEN statesSeen \union {tmp[f][1][1].state} ELSE statesSeen
               /\ After(p, RecordsIn(c))
    /\ UNCHANGED <<began, kills, recorded, overlapped>>

PreviousOf(list) == IF list = <<>> THEN 0 ELSE list[Len(list)].n
What(c, decided) == IF c.kind = "evaluate" THEN decided ELSE c.kind

\* EnterpriseAuditService.append and ProjectService.checkpoint read the list that they add to; a
\* checkpoint is of the project as it is then.
ReadList(p) ==
    /\ proc[p].pc = "record"
    /\ LET c == proc[p].cmd
           f == RecordsIn(c)
           list == disk[f]
           entry == IF f = "audit"
                    THEN [n |-> proc[p].n, what |-> What(c, proc[p].decided), previous |-> PreviousOf(list)]
                    ELSE [n |-> proc[p].n, state |-> disk.projects[1].state]
       IN proc' = [proc EXCEPT ![p] = [pc |-> "stage", n |-> @.n, cmd |-> c, list |-> Append(list, entry)]]
    /\ UNCHANGED <<disk, tmp, began, kills, effects, recorded, spent, statesSeen, overlapped>>

Stage(p) ==
    /\ proc[p].pc = "stage"
    /\ tmp' = [tmp EXCEPT ![RecordsIn(proc[p].cmd)] = <<proc[p].list>>]
    /\ proc' = [proc EXCEPT ![p] = [pc |-> "keep", n |-> @.n, cmd |-> @.cmd]]
    /\ UNCHANGED <<disk, began, kills, effects, recorded, spent, statesSeen, overlapped>>

Keep(p) ==
    /\ proc[p].pc = "keep"
    /\ LET f == RecordsIn(proc[p].cmd)
       IN IF tmp[f] = <<>> THEN UNCHANGED <<disk, tmp, recorded>>
          ELSE /\ disk' = [disk EXCEPT ![f] = tmp[f][1]]
               /\ tmp' = [tmp EXCEPT ![f] = <<>>]
               /\ recorded' = recorded \union {proc[p].n}
    /\ proc' = [proc EXCEPT ![p] = Idle]
    /\ UNCHANGED <<began, kills, effects, spent, statesSeen, overlapped>>

Kill(p) ==
    /\ proc[p].pc # "idle" /\ kills < MaxKills
    /\ kills' = kills + 1
    /\ proc' = [proc EXCEPT ![p] = Idle]
    /\ UNCHANGED <<disk, tmp, began, effects, recorded, spent, statesSeen, overlapped>>

TeamsNext == \E p \in Callers :
    \/ \E c \in Tried : BeginCommand(p, c)
    \/ Look(p) \/ Make(p) \/ Replace(p) \/ ReadList(p) \/ Stage(p) \/ Keep(p) \/ Kill(p)

TeamsSpec == TeamsInit /\ [][TeamsNext]_teamsVars

-----------------------------------------------------------------------------
\* verify_chain.
ChainValid ==
    \A i \in DOMAIN disk.audit :
        disk.audit[i].previous = IF i = 1 THEN 0 ELSE disk.audit[i - 1].n

\* The shape of the state.
TeamsTypeOK ==
    /\ \A i \in Ids : disk.identities[i] \subseteq Roles
    /\ disk.policies \subseteq Effects
    /\ \A i \in DOMAIN disk.approvals.requests :
           disk.approvals.requests[i] \in
               [requester : Ids, status : {"pending", "approved", "rejected"}]
    /\ Len(disk.budgets) <= 1 /\ Len(disk.projects) <= 1
    /\ \A i \in DOMAIN disk.projects : disk.projects[i].state \in States
    /\ began \in 0..MaxCommands /\ kills \in 0..MaxKills
    /\ recorded \subseteq {e[1] : e \in effects} /\ \A e \in effects : e[1] \in 1..MaxCommands

\* What is approved was approved by somebody else than the one who asked, whatever commands ran at
\* the same time (governance.py:552: self-approval is not allowed).
ApprovedByAnother ==
    \A i \in DOMAIN disk.approvals.requests :
        disk.approvals.requests[i].status = "approved" =>
            \E d \in disk.approvals.decisions :
                /\ d.request = i /\ d.decision = "approved"
                /\ d.by # disk.approvals.requests[i].requester

\* The audit's chain holds and tells of nothing that did not happen, and a checkpoint is of a state
\* that the project has had, although processes overwrite each other's files and are killed.
RecordsTrue ==
    /\ ChainValid
    /\ \A i \in DOMAIN disk.audit : \E e \in effects :
           /\ e[1] = disk.audit[i].n
           /\ disk.audit[i].what = "allow" => \E a \in effects : a[2] = "activate"
    /\ \A i \in DOMAIN disk.checkpoints : disk.checkpoints[i].state \in statesSeen

\* As long as commands come one after the other, killed ones among them, those that returned have
\* their record, and what was charged since the limit was set is what the file says, and within
\* the limit.
SequentialKeepsAll ==
    ~overlapped =>
        /\ disk.budgets # <<>> =>
               disk.budgets[1].spent = spent /\ spent <= disk.budgets[1].limit
        /\ recorded \subseteq {disk.audit[i].n : i \in DOMAIN disk.audit}
                             \union {disk.checkpoints[i].n : i \in DOMAIN disk.checkpoints}

\* What is approved was approved by another, records tell what happened, and commands that do not
\* overlap lose nothing.
TeamRecordsTrue == ApprovedByAnother /\ RecordsTrue /\ SequentialKeepsAll
=============================================================================
