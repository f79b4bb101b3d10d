--------------------------- MODULE ExtensionPlatform ---------------------------
(***************************************************************************)
(* Extensions and the permissions they are given (nexus/platform): the     *)
(* registry and its lifecycle operations, each a command of its own that   *)
(* reads both files, changes them and writes them back; the permission     *)
(* store with its scopes; and SecureExtensionRuntime, a long running host  *)
(* that reads the grants once, starts workers and checks every call.       *)
(* A file is written in place: a kill while it is written leaves text that *)
(* does not parse, which _load reads as no grant at all.                   *)
(***************************************************************************)
EXTENDS Naturals

CONSTANTS
    Exts,           \* names of extensions
    MaxGrants,      \* bound: grants that the user gives
    MaxLifecycle,    \* bound: lifecycle commands
    MaxCalls,       \* bound: calls of an extension
    Concurrent      \* commands are typed while a host runs

ASSUME PlatformAssumption ==
    {MaxGrants, MaxLifecycle, MaxCalls} \subseteq Nat /\ Concurrent \in BOOLEAN

Scopes == {"once", "run", "global"}

VARIABLES
    registry,       \* extension -> [installed, enabled, version, quarantined]
    grantFile,      \* permissions.json: [torn, grants], a list in the order of the grants' ids
    host,           \* [running, grants, workers]: what the running host has in memory
    runs,           \* hosts started so far
    uses,           \* bookkeeping: calls that each grant allowed
    removals,       \* bookkeeping: how often each extension was removed
    granted, commands, extensionCalls

platformVars ==
    <<registry, grantFile, host, runs, uses, removals, granted, commands, extensionCalls>>

Absent == [installed |-> FALSE, enabled |-> FALSE, version |-> 0, quarantined |-> FALSE]
NoHost == [running |-> FALSE, grants |-> {}, workers |-> {}]

File(grants) == [torn |-> FALSE, grants |-> grants]
Torn == [torn |-> TRUE, grants |-> {}]

\* _load: what does not parse counts as empty.
Load(text) == IF text.torn THEN {} ELSE text.grants

PlatformInit ==
    /\ registry = [e \in Exts |-> Absent]
    /\ grantFile = File({}) /\ host = NoHost /\ runs = 0
    /\ uses = [i \in 1..MaxGrants |-> 0] /\ removals = [e \in Exts |-> 0]
    /\ granted = 0 /\ commands = 0 /\ extensionCalls = 0

-----------------------------------------------------------------------------
(* Commands. *)

Command ==
    /\ Concurrent \/ ~host.running
    /\ UNCHANGED <<host, runs, extensionCalls>>

\* PermissionStore.grant and revoke.
GrantPermission(e, scope) ==
    /\ Command
    /\ granted < MaxGrants /\ granted' = granted + 1
    /\ grantFile' = File(Load(grantFile) \union
                          {[id |-> granted + 1, ext |-> e, scope |-> scope, run |-> runs,
                            version |-> registry[e].version, removal |-> removals[e]]})
    /\ UNCHANGED <<registry, uses, removals, commands>>

GrantsBut(e) == {g \in Load(grantFile) : g.ext # e}

Lifecycle ==
    /\ Command
    /\ commands < MaxLifecycle /\ commands' = commands + 1
    /\ UNCHANGED <<uses, granted>>

RevokePermissions(e) ==
    /\ Lifecycle
    /\ grantFile' = File(GrantsBut(e))
    /\ UNCHANGED <<registry, removals>>

\* install refuses the installed version, unless it is forced to (update).
InstallExtension(e, enable) ==
    /\ Lifecycle
    /\ ~registry[e].installed
    /\ registry' = [registry EXCEPT ![e] = [Absent EXCEPT !.installed = TRUE, !.enabled = enable,
                                                           !.version = 1]]
    /\ UNCHANGED <<grantFile, removals>>

\* update: installed anew, enabled if it was; whatever was granted stays.
UpdateExtension(e) ==
    /\ Lifecycle
    /\ registry[e].installed /\ registry[e].version < 2
    /\ registry' = [registry EXCEPT ![e].version = 2, ![e].quarantined = FALSE]
    /\ UNCHANGED <<grantFile, removals>>

SetEnabled(e, value) ==
    /\ Lifecycle
    /\ registry[e].installed /\ registry[e].enabled # value
    /\ registry' = [registry EXCEPT ![e].enabled = value]
    /\ UNCHANGED <<grantFile, removals>>

\* registry.remove revokes what the extension was granted.
RemainingGrants(e) == File(GrantsBut(e))

RemoveExtension(e) ==
    /\ Lifecycle
    /\ registry[e].installed
    /\ registry' = [registry EXCEPT ![e] = Absent]
    /\ removals' = [removals EXCEPT ![e] = @ + 1]
    /\ grantFile' = RemainingGrants(e)

\* QuarantineManager.quarantine and release.
QuarantineExtension(e) ==
    /\ Lifecycle
    /\ registry[e].installed /\ ~registry[e].quarantined
    /\ registry' = [registry EXCEPT ![e].enabled = FALSE, ![e].quarantined = TRUE]
    /\ UNCHANGED <<grantFile, removals>>

ReleaseExtension(e) ==
    /\ Lifecycle
    /\ registry[e].quarantined
    /\ registry' = [registry EXCEPT ![e].quarantined = FALSE]
    /\ UNCHANGED <<grantFile, removals>>

-----------------------------------------------------------------------------
(* The host. *)

HostOnly == UNCHANGED <<registry, removals, granted, commands>>

StartHost ==
    /\ ~host.running /\ runs < MaxCalls
    /\ runs' = runs + 1
    /\ host' = [NoHost EXCEPT !.running = TRUE, !.grants = Load(grantFile)]
    /\ UNCHANGED <<grantFile, uses, extensionCalls>> /\ HostOnly

\* stop_all, or a kill.
EndHost ==
    /\ host.running
    /\ host' = NoHost
    /\ UNCHANGED <<grantFile, runs, uses, extensionCalls>> /\ HostOnly

StartWorker(e) ==
    /\ host.running /\ registry[e].installed
    /\ host' = [host EXCEPT !.workers = @ \union {e}]
    /\ UNCHANGED <<grantFile, runs, uses, extensionCalls>> /\ HostOnly

StopWorker(e) ==
    /\ e \in host.workers
    /\ host' = [host EXCEPT !.workers = @ \ {e}]
    /\ UNCHANGED <<grantFile, runs, uses, extensionCalls>> /\ HostOnly

\* check: the newest grant of the extension; consume_once: its oldest one for a single call.
IsNewest(g, e) == g.ext = e /\ \A other \in host.grants : other.ext = e => other.id <= g.id
IsOldestOnce(g, e) ==
    /\ g.ext = e /\ g.scope = "once"
    /\ \A other \in host.grants : other.ext = e /\ other.scope = "once" => g.id <= other.id

\* Faulty variant: a single use is not taken out of the file.
SaveNothing(left) == grantFile

SaveGrants(left) == File(left)

\* A grant for one call is used up, any other is only looked at.
CallExtension(e) ==
    /\ e \in host.workers /\ extensionCalls < MaxCalls /\ extensionCalls' = extensionCalls + 1
    /\ \E newest \in host.grants :
          /\ IsNewest(newest, e)
          /\ \/ /\ newest.scope = "once"
                /\ \E g \in host.grants :
                      /\ IsOldestOnce(g, e)
                      /\ uses' = [uses EXCEPT ![g.id] = @ + 1]
                      /\ host' = [host EXCEPT !.grants = @ \ {g}]
                      /\ grantFile' = SaveGrants(host.grants \ {g})
             \/ /\ newest.scope # "once"
                /\ uses' = [uses EXCEPT ![newest.id] = @ + 1]
                /\ UNCHANGED <<host, grantFile>>
    /\ UNCHANGED runs /\ HostOnly

\* The host is killed while it writes the file.
KillInSave(e) ==
    /\ e \in host.workers /\ \E g \in host.grants : IsNewest(g, e) /\ g.scope = "once"
    /\ host' = NoHost /\ grantFile' = Torn
    /\ UNCHANGED <<runs, uses, extensionCalls>> /\ HostOnly

PlatformNext ==
    \/ \E e \in Exts, scope \in Scopes : GrantPermission(e, scope)
    \/ \E e \in Exts : \/ RevokePermissions(e) \/ UpdateExtension(e) \/ RemoveExtension(e)
                       \/ QuarantineExtension(e) \/ ReleaseExtension(e)
                       \/ StartWorker(e) \/ StopWorker(e) \/ CallExtension(e) \/ KillInSave(e)
    \/ \E e \in Exts, value \in BOOLEAN : InstallExtension(e, value) \/ SetEnabled(e, value)
    \/ StartHost \/ EndHost

PlatformSpec == PlatformInit /\ [][PlatformNext]_platformVars

-----------------------------------------------------------------------------
(* What the platform promises. *)

GrantRecords ==
    [id : 1..MaxGrants, ext : Exts, scope : Scopes, run : Nat, version : 0..2, removal : Nat]

PlatformTypeOK ==
    /\ Load(grantFile) \union host.grants \subseteq GrantRecords
    /\ host.workers \subseteq Exts /\ (~host.running => host = NoHost)
    /\ uses \in [1..MaxGrants -> Nat] /\ granted <= MaxGrants
    /\ \A e \in Exts : registry[e].enabled \/ registry[e].quarantined => registry[e].installed

\* A grant "once" allows a single invocation, whatever other grants there are, whether the host is
\* restarted, and when it is killed in the middle of writing down that the grant is used.
OnceIsOnce ==
    \A g \in Load(grantFile) \union host.grants : g.scope = "once" => uses[g.id] = 0

\* An extension that is removed loses what it was granted: installed again, it starts without.
RemovedLosesGrants ==
    \A g \in Load(grantFile) \union host.grants : g.removal = removals[g.ext]

\* A permission given once allows one call, and those of a removed extension are gone when another
\* is installed under its name, if no host holds them meanwhile.
PermissionsHonest == OnceIsOnce /\ (~Concurrent => RemovedLosesGrants)

\* "run" is a grant for the "Current agent run": no later host is allowed anything by it.
\* (Nothing ends it: it is a grant for good.)
RunGrantEnds ==
    [][\A g \in host.grants :
           g.scope = "run" /\ uses'[g.id] # uses[g.id] => runs <= g.run + 1]_platformVars
=============================================================================
