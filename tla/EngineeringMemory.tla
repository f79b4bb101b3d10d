-------------------------- MODULE EngineeringMemory --------------------------
(* The task memory and the phase record of a session, which several processes may share
   (intelligence/engineering): both are signed with a key made at first use, replaced whole under
   a lock, and refused when the file is newer than the copy the writer read. *)
EXTENDS Integers

CONSTANTS
    Brains,     \* processes that work on one session
    MaxItems,   \* bound: memories prepared, and decisions, failures and changes recorded
    MaxMoves,   \* bound: sequence number of the phase record
    MaxMemoryFaults     \* bound: failing writes and kills

VARIABLES
    key,        \* the key file: "none", "empty", or the process that made it
    brainPc,    \* "off", "keying", "made", "idle", "creating"
    held,       \* the key a process signs with, "none" before
    memoryFile, \* the memory file: [seq, items], NoMemory
    seen,       \* the sequence that create() read
    mine,       \* EngineeringBrain.memory of a process: [seq, items, ahead]
    horizon,    \* the phase file: [seq, phase]
    own,        \* LongHorizonController.state of a process: [seq, phase, ahead]
    torn,       \* the last line of the failure lessons is cut off
    itemsMade, memoryFaults

memoryVars ==
    <<key, brainPc, held, memoryFile, seen, mine, horizon, own, torn, itemsMade, memoryFaults>>
memoryKeys == <<key, held>>
memoryBounds == <<itemsMade, memoryFaults>>

Phases == {"RESEARCH", "PLAN", "IMPLEMENT", "VERIFY", "REVIEW", "COMPLETE", "BLOCKED", "FAILED"}
Stops == {"BLOCKED", "FAILED"}
Allowed == [RESEARCH |-> {"PLAN"} \cup Stops, PLAN |-> {"RESEARCH", "IMPLEMENT"} \cup Stops,
            IMPLEMENT |-> {"VERIFY", "PLAN"} \cup Stops,
            VERIFY |-> {"REVIEW", "IMPLEMENT"} \cup Stops,
            REVIEW |-> {"COMPLETE", "IMPLEMENT"} \cup Stops, COMPLETE |-> {},
            BLOCKED |-> {"RESEARCH", "PLAN", "FAILED"}, FAILED |-> {}]

\* What the stages of a turn ask for, from the phase they see in memory.
Moves == {<<"RESEARCH", "PLAN">>, <<"PLAN", "IMPLEMENT">>, <<"IMPLEMENT", "VERIFY">>,
          <<"VERIFY", "IMPLEMENT">>, <<"REVIEW", "IMPLEMENT">>, <<"VERIFY", "REVIEW">>,
          <<"REVIEW", "COMPLETE">>}
         \cup {<<from, "BLOCKED">> : from \in Phases \ {"COMPLETE", "FAILED"}}

NoMemory == [seq |-> 0, items |-> {}]
NoCopy == [seq |-> 0, items |-> {}, ahead |-> FALSE]
NoPhase == [seq |-> 0, phase |-> "RESEARCH"]
NoState == [seq |-> 0, phase |-> "RESEARCH", ahead |-> FALSE]
CopyOf(record) == [seq |-> record.seq, items |-> record.items, ahead |-> FALSE]
StateOf(record) == [seq |-> record.seq, phase |-> record.phase, ahead |-> FALSE]

ASSUME MemoryAssumption ==
    /\ {MaxItems, MaxMoves, MaxMemoryFaults} \subseteq Nat
    /\ "none" \notin Brains /\ "empty" \notin Brains

MemoryInit ==
    /\ key = "none" /\ brainPc = [p \in Brains |-> "off"] /\ held = [p \in Brains |-> "none"]
    /\ memoryFile = NoMemory /\ seen = [p \in Brains |-> 0] /\ mine = [p \in Brains |-> NoCopy]
    /\ horizon = NoPhase /\ own = [p \in Brains |-> NoState]
    /\ torn = FALSE
    /\ itemsMade = 0 /\ memoryFaults = 0

BrainGoes(p, label) == brainPc' = [brainPc EXCEPT ![p] = label]

-----------------------------------------------------------------------------
\* _load_or_create_key: an exclusive create decides between processes that find no key; a
\* process that reads the file before the winner has filled it fails, and stays off.
FindNoKey(p) ==
    /\ brainPc[p] = "off" /\ key = "none"
    /\ BrainGoes(p, "keying")
    /\ UNCHANGED <<memoryKeys, memoryFile, seen, mine, horizon, own, torn, memoryBounds>>

CreateKey(p) ==
    /\ brainPc[p] = "keying" /\ key = "none"
    /\ key' = "empty" /\ BrainGoes(p, "made")
    /\ UNCHANGED <<held, memoryFile, seen, mine, horizon, own, torn, memoryBounds>>

WriteKey(p) ==
    /\ brainPc[p] = "made"
    /\ key' = p /\ held' = [held EXCEPT ![p] = p] /\ BrainGoes(p, "idle")
    /\ UNCHANGED <<memoryFile, seen, mine, horizon, own, torn, memoryBounds>>

LoadKey(p) ==
    /\ brainPc[p] \in {"off", "keying"} /\ key # "none"
    /\ IF key = "empty" THEN held' = held /\ BrainGoes(p, "off")
       ELSE held' = [held EXCEPT ![p] = key] /\ BrainGoes(p, "idle")
    /\ UNCHANGED <<key, memoryFile, seen, mine, horizon, own, torn, memoryBounds>>

-----------------------------------------------------------------------------
\* create() reads the sequence without the lock, and saves an empty memory over what is there.
PrepareMemory(p) ==
    /\ brainPc[p] = "idle" /\ itemsMade < MaxItems
    /\ itemsMade' = itemsMade + 1
    /\ seen' = [seen EXCEPT ![p] = memoryFile.seq] /\ BrainGoes(p, "creating")
    /\ UNCHANGED <<memoryKeys, memoryFile, mine, horizon, own, torn, memoryFaults>>

\* Faulty variant: the sequence is not compared.
StaleNever(seq) == FALSE

Stale(seq) == memoryFile.seq > seq
\* LongHorizonController.__init__: load the phases of the session, or write the first ones.
OpenHorizon(p) ==
    LET record == IF horizon.seq = 0 THEN [seq |-> 1, phase |-> "RESEARCH"] ELSE horizon
    IN  horizon' = record /\ own' = [own EXCEPT ![p] = StateOf(record)]

CreateMemory(p) ==
    /\ brainPc[p] = "creating" /\ BrainGoes(p, "idle")
    /\ \/ /\ ~Stale(seen[p])
          /\ memoryFile' = [seq |-> seen[p] + 1, items |-> {<<p, itemsMade>>}]
          /\ mine' = [mine EXCEPT ![p] = CopyOf(memoryFile')]
          /\ OpenHorizon(p) /\ memoryFaults' = memoryFaults
       \/ /\ Stale(seen[p])
          /\ UNCHANGED <<memoryFile, mine, horizon, own, memoryFaults>>
       \/ /\ ~Stale(seen[p]) /\ memoryFaults < MaxMemoryFaults
          /\ memoryFaults' = memoryFaults + 1
          /\ UNCHANGED <<memoryFile, mine, horizon, own>>
    /\ UNCHANGED <<memoryKeys, seen, torn, itemsMade>>

\* EngineeringMemoryStore.save of a copy with one more item: refused, written, or failing after
\* seal() has already raised the sequence.  record_changes saves a deep copy and keeps its own
\* when that fails; record_decision, record_failure and semantic_verify save the copy itself.
SaveCopy(p, deep) ==
    LET copy == [mine[p] EXCEPT !.items = @ \cup {<<p, itemsMade + 1>>}]
        next == [copy EXCEPT !.seq = @ + 1]
    IN  /\ brainPc[p] = "idle" /\ mine[p].seq > 0 /\ itemsMade < MaxItems
        /\ itemsMade' = itemsMade + 1
        /\ \/ /\ Stale(copy.seq)
              /\ mine' = IF deep THEN mine ELSE [mine EXCEPT ![p] = copy]
              /\ UNCHANGED <<memoryFile, memoryFaults>>
           \/ /\ ~Stale(copy.seq)
              /\ memoryFile' = [seq |-> next.seq, items |-> next.items]
              /\ mine' = [mine EXCEPT ![p] = CopyOf(memoryFile')]
              /\ memoryFaults' = memoryFaults
           \/ /\ ~Stale(copy.seq) /\ memoryFaults < MaxMemoryFaults
              /\ memoryFaults' = memoryFaults + 1 /\ memoryFile' = memoryFile
              /\ mine' = IF deep THEN mine ELSE [mine EXCEPT ![p] = [next EXCEPT !.ahead = TRUE]]
        /\ UNCHANGED <<memoryKeys, brainPc, seen, horizon, own>>

RecordChanges(p) == SaveCopy(p, TRUE) /\ UNCHANGED torn
RecordDecision(p) == SaveCopy(p, FALSE) /\ UNCHANGED torn

\* FailureLearningStore.record, then the memory: a torn line makes every later record fail.
RecordFailure(p) ==
    /\ ~torn
    /\ SaveCopy(p, FALSE) /\ UNCHANGED torn

-----------------------------------------------------------------------------
\* LongHorizonController.transition: take over a newer file, and check the move from there.
NewestState(p) == IF horizon.seq > own[p].seq THEN StateOf(horizon) ELSE own[p]
Transition(p, to) ==
    LET base == NewestState(p)
        next == [base EXCEPT !.seq = @ + 1, !.phase = to]
    IN  /\ base.seq < MaxMoves
        /\ \/ /\ to \notin Allowed[base.phase]
              /\ own' = [own EXCEPT ![p] = base] /\ UNCHANGED <<horizon, memoryFaults>>
           \/ /\ to \in Allowed[base.phase]
              /\ horizon' = [seq |-> next.seq, phase |-> to]
              /\ own' = [own EXCEPT ![p] = StateOf(horizon')] /\ memoryFaults' = memoryFaults
           \/ /\ to \in Allowed[base.phase] /\ memoryFaults < MaxMemoryFaults
              /\ memoryFaults' = memoryFaults + 1 /\ horizon' = horizon
              /\ own' = [own EXCEPT ![p] = [next EXCEPT !.ahead = TRUE]]

Advance(p) ==
    /\ brainPc[p] = "idle" /\ own[p].seq > 0
    /\ \E move \in Moves : own[p].phase = move[1] /\ Transition(p, move[2])
    /\ UNCHANGED <<memoryKeys, brainPc, memoryFile, seen, mine, torn, itemsMade>>

\* A process is killed, perhaps in the middle of a line of the lessons.
KillBrain(p) ==
    /\ brainPc[p] # "off" /\ memoryFaults < MaxMemoryFaults
    /\ memoryFaults' = memoryFaults + 1
    /\ BrainGoes(p, "off") /\ held' = [held EXCEPT ![p] = "none"]
    /\ mine' = [mine EXCEPT ![p] = NoCopy] /\ own' = [own EXCEPT ![p] = NoState]
    /\ torn' \in {torn, torn \/ brainPc[p] = "idle"}
    /\ UNCHANGED <<key, memoryFile, seen, horizon, itemsMade>>

MemoryNext ==
    \E p \in Brains :
        \/ FindNoKey(p) \/ CreateKey(p) \/ WriteKey(p) \/ LoadKey(p)
        \/ PrepareMemory(p) \/ CreateMemory(p)
        \/ RecordChanges(p) \/ RecordDecision(p) \/ RecordFailure(p)
        \/ Advance(p) \/ KillBrain(p)

MemorySpec == MemoryInit /\ [][MemoryNext]_memoryVars

-----------------------------------------------------------------------------
\* Every variable has its type.
MemoryTypeOK ==
    /\ key \in {"none", "empty"} \cup Brains /\ held \in [Brains -> {"none"} \cup Brains]
    /\ brainPc \in [Brains -> {"off", "keying", "made", "idle", "creating"}]
    /\ memoryFile.seq \in Nat /\ seen \in [Brains -> Nat]
    /\ horizon \in [seq : 0..MaxMoves, phase : Phases]
    /\ own \in [Brains -> [seq : 0..MaxMoves, phase : Phases, ahead : BOOLEAN]]
    /\ torn \in BOOLEAN /\ itemsMade \in 0..MaxItems /\ memoryFaults \in 0..MaxMemoryFaults

\* Processes that work on one session sign with one key, in whatever order they first start
\* (integrity._load_or_create_key): with two, each would refuse what the other wrote.
OneKey == \A p, q \in Brains : "none" \notin {held[p], held[q]} => held[p] = held[q]

\* A record that was saved stays in the memory until a new turn creates it afresh, unless the
\* writer's own save failed before: a failed save leaves the copy one ahead of the file, and the
\* next one passes the comparison over another's newer memory (memory.py:83, 247).
NewerKept ==
    [][\A p \in Brains :
          brainPc[p] = "idle" /\ ~mine[p].ahead /\ mine'[p] # mine[p] /\ memoryFile' # memoryFile
              => memoryFile.items \subseteq memoryFile'.items]_memoryVars

\* The phase on disk moves only along the allowed transitions, whichever process moves it, unless
\* the writer's own transition failed before.
PhasesLegal ==
    [][\A p \in Brains :
          brainPc[p] = "idle" /\ ~own[p].ahead /\ own'[p] # own[p] /\ horizon' # horizon
              => horizon'.phase \in Allowed[horizon.phase]]_memoryVars

\* The records of a session keep what was saved, under one key.
MemoryKept == []OneKey /\ NewerKept /\ PhasesLegal
=============================================================================
