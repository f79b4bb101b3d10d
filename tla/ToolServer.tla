------------------------------- MODULE ToolServer -------------------------------
(***************************************************************************)
(* Tools that run in a process of their own: an MCP server behind          *)
(* MCPConnection (nexus/mcp/client.py) or a plugin behind PluginWorker     *)
(* (nexus/plugins/worker.py), called through the tool executor.  A line    *)
(* goes out on the process's stdin, a line is awaited on its stdout, with  *)
(* a timeout; the answer is whatever line comes next.  The process may be  *)
(* slow, may answer with an error, and may die at any moment.              *)
(* Requests and answers are the numbers of the calls they belong to.       *)
(***************************************************************************)
EXTENDS Integers, Sequences, FiniteSets

CONSTANTS
    ToolCallers,    \* threads that call tools of this server
    MaxNotes,       \* bound: lines of the server that answer nothing
    MaxProcesses,   \* bound: times the process is started
    MaxSends        \* bound: requests sent

ASSUME ServerAssumption ==
    {MaxNotes, MaxProcesses, MaxSends} \subseteq Nat /\ "free" \notin ToolCallers

VARIABLES
    notes,      \* lines so far that answer nothing
    serverKind, \* "mcp" or "plugin"
    server,     \* each process: [state, registered, inbox, outbox, readers]
    connection, \* the process of the connection that calls go to, 0 before the first
    starting,   \* connect or start in progress: [process, step], process 0 if none
    pipeLock,   \* MCPConnection._lock of each process's connection: its holder, or "free"
    caller,     \* each caller: [at, process, id]
    answers,    \* bookkeeping: finished calls: [asked, got, success]
    served,     \* bookkeeping: how the server answered each request: "ok", "error" or "no"
    sends       \* _request_id

serverVars ==
    <<notes, serverKind, server, connection, starting, pipeLock, caller, answers, served, sends>>

Processes == 1..MaxProcesses
NoProcess ==
    [state |-> "none", registered |-> FALSE, inbox |-> <<>>, outbox |-> <<>>, readers |-> 0]
Nobody == [at |-> "idle", process |-> 0, id |-> 0]
Notification == 0
EndOfFile == -1

ServerInit ==
    /\ server = [p \in Processes |-> NoProcess]
    /\ notes = 0 /\ serverKind \in {"mcp", "plugin"} /\ connection = 0
    /\ starting = [process |-> 0, step |-> "none"]
    /\ pipeLock = [p \in Processes |-> "free"] /\ sends = 0 /\ answers = {} /\ served = <<>>
    /\ caller = [c \in ToolCallers |-> Nobody]

-----------------------------------------------------------------------------
(* The line protocol. *)

\* A request is numbered and written; a reader thread starts on the output.
Written(procs, p) == [procs EXCEPT ![p].inbox = Append(@, sends + 1), ![p].readers = @ + 1]
CanSend == sends < MaxSends
Alive(p) == server[p].state = "running"

\* readline_with_timeout: the next line, or the end of the file of a dead process.
NextLine(p) ==
    IF server[p].outbox # <<>> THEN Head(server[p].outbox)
    ELSE IF Alive(p) THEN Notification ELSE EndOfFile
HasLine(p) == server[p].outbox # <<>> \/ ~Alive(p)
LineRead(procs, p) ==
    [procs EXCEPT ![p].outbox = IF @ = <<>> THEN @ ELSE Tail(@), ![p].readers = @ - 1]

\* disconnect and stop: the process is terminated, waited for and forgotten; its readers see the
\* end of the file.
Stopped(procs, p) ==
    [procs EXCEPT ![p].state = "stopped", ![p].registered = FALSE, ![p].inbox = <<>>]

\* Faulty variant: the process goes on after a timeout.
AfterTimeoutGoesOn(procs, p) == [procs EXCEPT ![p].readers = @ - 1]

AfterTimeout(procs, p) == [Stopped(procs, p) EXCEPT ![p].readers = @ - 1]

-----------------------------------------------------------------------------
(* Starting: connect, or PluginWorker.start. *)

Spawn ==
    /\ starting.process = 0
    /\ \E p \in Processes :
          /\ server[p].state = "none" /\ \A q \in 1..(p - 1) : server[q].state # "none"
          /\ CanSend
          /\ server' = [Written(server, p) EXCEPT ![p].state = "running", ![p].registered = TRUE]
          /\ starting' = [process |-> p, step |-> "initialize"]
    /\ sends' = sends + 1 /\ served' = Append(served, "no")
    /\ UNCHANGED <<notes, serverKind, connection, pipeLock, caller, answers>>

\* An answer, an error, the end of the file, or the timeout.  A plugin that does not report itself
\* ready is stopped; connect only stops a server that timed out, and goes on after tools/list
\* whatever its outcome.  The new connection replaces the old one, which is not disconnected.
StartEnds(outcome) ==
    LET p == starting.process IN
    /\ p # 0
    /\ outcome = "line" <=> HasLine(p) /\ NextLine(p) # EndOfFile
    /\ outcome = "eof" => HasLine(p)
    /\ LET good == outcome = "line" /\ (NextLine(p) = Notification \/ served[NextLine(p)] = "ok")
           read == IF outcome = "timeout" THEN AfterTimeout(server, p) ELSE LineRead(server, p)
           more == serverKind = "mcp" /\ starting.step = "initialize" /\ good /\ CanSend
           ends == IF serverKind = "mcp" THEN good \/ starting.step = "list" ELSE good
       IN IF more
          THEN /\ server' = Written(read, p)
               /\ starting' = [starting EXCEPT !.step = "list"]
               /\ sends' = sends + 1 /\ served' = Append(served, "no")
               /\ UNCHANGED connection
          ELSE /\ server' = IF serverKind = "plugin" /\ ~good THEN Stopped(read, p) ELSE read
               /\ connection' = IF ends THEN p ELSE connection
               /\ starting' = [process |-> 0, step |-> "none"]
               /\ UNCHANGED <<sends, served>>
    /\ UNCHANGED <<notes, serverKind, pipeLock, caller, answers>>

-----------------------------------------------------------------------------
(* Calls. *)

Finished(c, got, success) ==
    /\ answers' = answers \union {[asked |-> caller[c].id, got |-> got, success |-> success]}
    /\ caller' = [caller EXCEPT ![c] = Nobody]

\* What the dispatcher makes of an answer: a plugin's error is raised; of an MCP server's it sees
\* a text, and a text is a success.
ReportedAs(got) == serverKind = "mcp" \/ (got > 0 /\ served[got] = "ok")

\* call_tool looks at the connection before it takes the lock, and a call without one ends at
\* once.  A plugin has no lock, and one thread that calls it.
CallTool(c) ==
    LET p == connection
        ready == server[p].registered /\ (serverKind = "plugin" => Alive(p)) IN
    /\ caller[c].at = "idle" /\ p # 0
    /\ serverKind = "plugin" => \A d \in ToolCallers : caller[d].at = "idle"
    /\ IF ready
       THEN /\ caller' = [caller EXCEPT ![c] = [at |-> "wanting", process |-> p, id |-> 0]]
            /\ UNCHANGED answers
       ELSE Finished(c, EndOfFile, ReportedAs(EndOfFile))
    /\ UNCHANGED <<notes, serverKind, server, connection, starting, pipeLock, served, sends>>

\* With the lock, the request goes out.  A server that was disconnected meanwhile has no pipe,
\* which raises; into a broken pipe nothing is written, and nothing is the answer.
Send(c) ==
    LET p == caller[c].process IN
    /\ caller[c].at = "wanting" /\ pipeLock[p] = "free"
    /\ IF Alive(p)
       THEN /\ CanSend
            /\ server' = Written(server, p)
            /\ sends' = sends + 1 /\ served' = Append(served, "no")
            /\ caller' = [caller EXCEPT ![c].at = "waiting", ![c].id = sends + 1]
            /\ pipeLock' = [pipeLock EXCEPT ![p] = c]
            /\ UNCHANGED answers
       ELSE /\ Finished(c, EndOfFile, server[p].registered /\ ReportedAs(EndOfFile))
            /\ UNCHANGED <<server, sends, served, pipeLock>>
    /\ UNCHANGED <<notes, serverKind, connection, starting>>

AnswerArrives(c) ==
    LET p == caller[c].process IN
    /\ caller[c].at = "waiting" /\ HasLine(p)
    /\ server' = LineRead(server, p)
    /\ Finished(c, NextLine(p), ReportedAs(NextLine(p)))
    /\ pipeLock' = [pipeLock EXCEPT ![p] = "free"]
    /\ UNCHANGED <<notes, serverKind, connection, starting, served, sends>>

CallTimesOut(c) ==
    LET p == caller[c].process IN
    /\ caller[c].at = "waiting" /\ ~HasLine(p)
    /\ server' = AfterTimeout(server, p)
    /\ Finished(c, EndOfFile, ReportedAs(EndOfFile))
    /\ pipeLock' = [pipeLock EXCEPT ![p] = "free"]
    /\ UNCHANGED <<notes, serverKind, connection, starting, served, sends>>

\* gateway.disconnect, disconnect_all, shutdown: no lock is taken.
Disconnect ==
    /\ connection # 0 /\ server[connection].registered
    /\ server' = Stopped(server, connection)
    /\ connection' = 0
    /\ UNCHANGED <<notes, serverKind, starting, pipeLock, caller, answers, served, sends>>

-----------------------------------------------------------------------------
(* The process. *)

Serve(p, answer) ==
    /\ Alive(p) /\ server[p].inbox # <<>>
    /\ LET id == Head(server[p].inbox) IN
       /\ server' = [server EXCEPT ![p].inbox = Tail(@), ![p].outbox = Append(@, id)]
       /\ served' = [served EXCEPT ![id] = answer]
    /\ UNCHANGED <<notes, serverKind, connection, starting, pipeLock, caller, answers, sends>>

Notify(p) ==
    /\ notes < MaxNotes /\ Alive(p)
    /\ notes' = notes + 1
    /\ server' = [server EXCEPT ![p].outbox = Append(@, Notification)]
    /\ UNCHANGED <<serverKind, connection, starting, pipeLock, caller, answers, served, sends>>

Die(p) ==
    /\ Alive(p)
    /\ server' = [server EXCEPT ![p].state = "dead"]
    /\ UNCHANGED <<notes, serverKind, connection, starting, pipeLock, caller, answers, served,
                   sends>>

ServerNext ==
    \/ Spawn
    \/ \E outcome \in {"line", "eof", "timeout"} : StartEnds(outcome)
    \/ \E c \in ToolCallers : CallTool(c) \/ Send(c) \/ AnswerArrives(c) \/ CallTimesOut(c)
    \/ Disconnect
    \/ \E p \in Processes, answer \in {"ok", "error"} : Serve(p, answer)
    \/ \E p \in Processes : Notify(p) \/ Die(p)

ServerSpec == ServerInit /\ [][ServerNext]_serverVars

-----------------------------------------------------------------------------
(* What the callers rely on. *)

ServerTypeOK ==
    /\ serverKind \in {"mcp", "plugin"} /\ connection \in 0..MaxProcesses
    /\ \A p \in Processes : /\ server[p].state \in {"none", "running", "dead", "stopped"}
                             /\ server[p].readers \in Nat
    /\ pipeLock \in [Processes -> ToolCallers \union {"free"}]
    /\ \A c \in ToolCallers :
          caller[c].at \in {"idle", "wanting", "waiting"} /\ caller[c].id <= sends
    /\ Len(served) = sends /\ sends <= MaxSends

\* A server that answers each request once, and sends nothing else, gives every call its own answer
\* or none, whatever timed out before, whoever else is calling, and however often the process was
\* started again.
AnswerIsOwn == notes = 0 => \A a \in answers : a.got \in {a.asked, EndOfFile}

\* A call that the server did not carry out is not reported to the model as a success. (Of an
\* MCP server any text is one: also an error, and that the connection has ended.)
TruthfulResult == \A a \in answers : a.success => a.got > 0 /\ served[a.got] = "ok"
=============================================================================
