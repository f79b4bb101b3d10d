------------------------------ MODULE WebSessions ------------------------------
(***************************************************************************)
(* The sessions of the web server, nexus/webapp/server.py: handlers on one *)
(* event loop share a table of agents, and turns run in worker threads     *)
(* under a lease of their session.  The table has room for MaxAgents; the  *)
(* agent that was made first goes when another one needs its place,        *)
(* whether it works or not.                                                *)
(* What a turn does with the conversation is modelled in HostedTurn, what  *)
(* an agent does with held edits in ToolGate.                              *)
(***************************************************************************)
EXTENDS Naturals, Sequences, FiniteSets

CONSTANTS
    Sessions,        \* the session ids that clients name
    Sockets,         \* the WebSocket connections
    MaxAgents,       \* MAX_AGENTS
    MaxRequests,     \* bound: chat requests
    MaxMade          \* bound: agents made

Http == "http"

ASSUME WebAssumption ==
    /\ MaxAgents \in Nat \ {0} /\ MaxRequests \in Nat /\ MaxMade \in Nat
    /\ Sessions # {} /\ Http \notin Sockets

VARIABLES
    table,       \* _agents: a set of [sid, agent]
    made,        \* agents made so far; an agent is its number, so that the least one in the table is
                 \* the one that was put there first
    closed,      \* the agents that have been closed
    busy,        \* _agent_busy: "none", "no" or "yes" of each session
    lockOf,      \* _agent_locks: the lock object of each session, 0 for none
    locks,       \* lock objects made so far
    held,        \* the lock objects that are held
    running,     \* the agents whose own run lock is held
    cancelled,   \* the agents whose cancel flag is set
    requests,    \* chat requests: <<[from, sid, agent, lock, at], ...>>
    socket,      \* each connection: [sid, left], the session it names and whether the client is gone
    up           \* whether the server is up

webVars == <<table, made, closed, busy, lockOf, locks, held, running, cancelled, requests, socket, up>>

WebInit ==
    /\ table = {} /\ made = 0 /\ closed = {}
    /\ busy = [s \in Sessions |-> "none"] /\ lockOf = [s \in Sessions |-> 0]
    /\ locks = 0 /\ held = {} /\ running = {} /\ cancelled = {}
    /\ requests = <<>> /\ up = TRUE
    /\ \E s \in Sessions : socket = [c \in Sockets |-> [sid |-> s, left |-> FALSE]]

Listed == {e.sid : e \in table}
AgentOf(s) == (CHOOSE e \in table : e.sid = s).agent

\* A request is on its way from the handler's submission to the end of its thread.
Open(r) == r.at \in {"queued", "found", "leased", "running"}
Waiting(c) == \E i \in DOMAIN requests : requests[i].from = c /\ Open(requests[i])
Listening(c) == up /\ ~Waiting(c) /\ ~socket[c].left

-----------------------------------------------------------------------------
(* The table. *)

\* pop(...).close(discard_workspace=True)
ClosedWith(S) == closed \union {AgentOf(s) : s \in S}

Without(S) == {e \in table : e.sid \notin S}
Forgotten(f, S, nothing) == [s \in Sessions |-> IF s \in S THEN nothing ELSE f[s]]

\* The entry that gives way: the oldest one of a full table.
Victims ==
    IF Cardinality(table) >= MaxAgents
    THEN {(CHOOSE e \in table : \A d \in table : e.agent <= d.agent).sid}
    ELSE {}

\* _get_agent, whichever way it ends: the agent is there, is made, or its construction fails after
\* another one has given way.
Finds(s) == s \in Listed /\ UNCHANGED <<table, made, closed, busy, lockOf, locks>>

Makes(s) ==
    /\ s \notin Listed /\ made < MaxMade
    /\ table' = Without(Victims) \union {[sid |-> s, agent |-> made + 1]}
    /\ closed' = ClosedWith(Victims)
    /\ busy' = [Forgotten(busy, Victims, "none") EXCEPT ![s] = "no"]
    /\ lockOf' = [Forgotten(lockOf, Victims, 0) EXCEPT ![s] = locks + 1]
    /\ made' = made + 1 /\ locks' = locks + 1

Fails(s) ==
    /\ s \notin Listed
    /\ table' = Without(Victims) /\ closed' = ClosedWith(Victims)
    /\ busy' = Forgotten(busy, Victims, "none") /\ lockOf' = Forgotten(lockOf, Victims, 0)
    /\ UNCHANGED <<made, locks>>

Gets(s) == Finds(s) \/ Makes(s)

-----------------------------------------------------------------------------
(* The handlers, each run to its next await on the event loop. *)

\* api_chat and the chat message: the busy flag is read here, the lease is taken later by the thread.
\* The HTTP handler makes the agent before it looks at the flag, the WebSocket handler after.
Submit(from, s) ==
    /\ up /\ Len(requests) < MaxRequests
    /\ from = Http \/ (from \in Sockets /\ Listening(from) /\ socket[from].sid = s)
    /\ busy[s] # "yes" /\ Gets(s)
    /\ requests' = Append(requests,
           [from |-> from, sid |-> s, agent |-> AgentOf(s)', lock |-> 0, at |-> "queued"])
    /\ UNCHANGED <<held, running, cancelled, socket, up>>

\* What else asks for the agent of a session: api_pending_edits, api_edit_decision, a chat that is
\* refused as busy, and the messages set_model, clear, apply_edit, reject_edit and pending_edits.
\* None of them looks at the busy flag.
Touch(s) ==
    /\ up /\ Gets(s) /\ s \notin Listed
    /\ UNCHANGED <<held, running, cancelled, requests, socket, up>>

TouchFails(s) ==
    /\ up /\ Victims # {} /\ Fails(s)
    /\ UNCHANGED <<held, running, cancelled, requests, socket, up>>

\* set_session
SetSession(c, s) ==
    /\ Listening(c) /\ s # socket[c].sid
    /\ socket' = [socket EXCEPT ![c].sid = s]
    /\ UNCHANGED <<table, made, closed, busy, lockOf, locks, held, running, cancelled, requests, up>>

\* new_chat: the entry of the session goes, whoever else uses it; the new id counts seconds, so that
\* two clients may be given the same.
NewChat(c, s) ==
    /\ Listening(c) /\ s # socket[c].sid
    /\ LET old == {socket[c].sid} \intersect Listed
       IN  /\ table' = Without(old) /\ closed' = ClosedWith(old)
           /\ busy' = Forgotten(busy, old, "none") /\ lockOf' = Forgotten(lockOf, old, 0)
    /\ socket' = [socket EXCEPT ![c].sid = s]
    /\ UNCHANGED <<made, locks, held, running, cancelled, requests, up>>

\* A client goes away.  The handler learns of it when it next receives or sends, not while it waits
\* for a turn, and then sets the cancel flag of the agent its session has by now.
Leave(c) ==
    /\ up /\ ~socket[c].left
    /\ socket' = [socket EXCEPT ![c].left = TRUE]
    /\ UNCHANGED <<table, made, closed, busy, lockOf, locks, held, running, cancelled, requests, up>>

Notice(c) ==
    /\ up /\ socket[c].left /\ ~Waiting(c) /\ socket[c].sid \in Listed
    /\ AgentOf(socket[c].sid) \notin cancelled
    /\ cancelled' = cancelled \union {AgentOf(socket[c].sid)}
    /\ UNCHANGED <<table, made, closed, busy, lockOf, locks, held, running, requests, socket, up>>

\* The end of the application's lifespan; threads that run are not waited for.
Shutdown ==
    /\ up /\ up' = FALSE
    /\ table' = {} /\ closed' = ClosedWith(Listed)
    /\ busy' = [s \in Sessions |-> "none"] /\ lockOf' = [s \in Sessions |-> 0]
    /\ UNCHANGED <<made, locks, held, running, cancelled, requests, socket>>

-----------------------------------------------------------------------------
(* The worker threads: _run_agent_locked. *)

Moves(i, at) == requests' = [requests EXCEPT ![i].at = at]

\* The session's lock, made when there is none.
FindLock(i) ==
    /\ requests[i].at = "queued"
    /\ LET s == requests[i].sid
           k == IF lockOf[s] = 0 THEN locks + 1 ELSE lockOf[s]
       IN  /\ lockOf' = [lockOf EXCEPT ![s] = k]
           /\ locks' = IF k > locks THEN k ELSE locks
           /\ requests' = [requests EXCEPT ![i].lock = k, ![i].at = "found"]
    /\ UNCHANGED <<table, made, closed, busy, held, running, cancelled, socket, up>>

\* acquire(blocking=False)
Lease(i) ==
    /\ requests[i].at = "found"
    /\ IF requests[i].lock \in held
       THEN Moves(i, "refused") /\ UNCHANGED held
       ELSE Moves(i, "leased") /\ held' = held \union {requests[i].lock}
    /\ UNCHANGED <<table, made, closed, busy, lockOf, locks, running, cancelled, socket, up>>

\* The agent's own run lock is taken.
BusyAgent(a) == a \in running

\* Faulty variant: the refusal of an agent that runs already leaves the flag and the lease.
AbandonedOn(i) ==
    /\ Moves(i, "refused")
    /\ UNCHANGED <<busy, held>>

\* The finally clause: the flag of the session is cleared, whatever has become of the session.
ReleasedOn(i) ==
    /\ Moves(i, "refused")
    /\ busy' = [busy EXCEPT ![requests[i].sid] = "no"]
    /\ held' = held \ {requests[i].lock}

\* run_non_interactive: the flag is set, the agent's lock taken; a hosted turn resets the cancel flag.
StartTurn(i) ==
    /\ requests[i].at = "leased" /\ ~BusyAgent(requests[i].agent)
    /\ busy' = [busy EXCEPT ![requests[i].sid] = "yes"]
    /\ running' = running \union {requests[i].agent}
    /\ cancelled' = cancelled \ {requests[i].agent}
    /\ Moves(i, "running")
    /\ UNCHANGED <<table, made, closed, lockOf, locks, held, socket, up>>

\* The agent's lock is held: RuntimeError, answered as busy.
Refuse(i) ==
    /\ requests[i].at = "leased" /\ BusyAgent(requests[i].agent)
    /\ ReleasedOn(i)
    /\ UNCHANGED <<table, made, closed, lockOf, locks, running, cancelled, socket, up>>

\* The turn ends, by an answer, an exception or the cancel flag.
End(i) ==
    /\ requests[i].at = "running"
    /\ running' = running \ {requests[i].agent}
    /\ busy' = [busy EXCEPT ![requests[i].sid] = "no"]
    /\ held' = held \ {requests[i].lock}
    /\ Moves(i, "ended")
    /\ UNCHANGED <<table, made, closed, lockOf, locks, cancelled, socket, up>>

WebNext ==
    \/ \E s \in Sessions : Touch(s) \/ TouchFails(s) \/ \E from \in Sockets \union {Http} : Submit(from, s)
    \/ \E c \in Sockets : Leave(c) \/ Notice(c) \/ \E s \in Sessions : SetSession(c, s) \/ NewChat(c, s)
    \/ \E i \in DOMAIN requests : FindLock(i) \/ Lease(i) \/ StartTurn(i) \/ Refuse(i) \/ End(i)
    \/ Shutdown

WebSpec == WebInit /\ [][WebNext]_webVars

-----------------------------------------------------------------------------
\* The shape of the state.
WebTypeOK ==
    /\ table \subseteq [sid : Sessions, agent : 1..made] /\ made \in 0..MaxMade
    /\ closed \subseteq 1..made /\ running \subseteq 1..made /\ cancelled \subseteq 1..made
    /\ busy \in [Sessions -> {"none", "no", "yes"}] /\ locks \in Nat
    /\ lockOf \in [Sessions -> 0..locks] /\ held \subseteq 1..locks /\ up \in BOOLEAN
    /\ requests \in Seq([from : Sockets \union {Http}, sid : Sessions, agent : 1..made,
                         lock : 0..locks, at : {"queued", "found", "leased", "running", "ended", "refused"}])
    /\ socket \in [Sockets -> [sid : Sessions, left : BOOLEAN]]

\* No agent works at two turns at once, though a session's lock may be forgotten while a request for
\* the same agent is on its way to a new one (server.py:115, "an atomic, non-blocking per-session
\* lease").
OneTurnPerAgent ==
    \A i, j \in DOMAIN requests :
        (requests[i].at = "running" /\ requests[j].at = "running" /\ requests[i].agent = requests[j].agent)
        => i = j

\* A session that is marked busy has a turn that will clear the mark, and a lock that is held has a
\* request that will release it: no session stays busy for ever.
BusyEnds ==
    /\ \A s \in Sessions : busy[s] = "yes" =>
           \E i \in DOMAIN requests : requests[i].sid = s /\ requests[i].at = "running"
    /\ \A k \in held : \E i \in DOMAIN requests :
           requests[i].lock = k /\ requests[i].at \in {"leased", "running"}

\* Every agent that was made is in the table or closed, and the table keeps within its bound.
AgentsAccounted ==
    /\ \A a \in 1..made : a \in closed \/ \E e \in table : e.agent = a
    /\ Cardinality(table) <= MaxAgents
    /\ \A d, e \in table : d.sid = e.sid => d = e

\* What the table of agents and their sessions promises together.
WebSessionsSound == OneTurnPerAgent /\ BusyEnds /\ AgentsAccounted
=============================================================================
