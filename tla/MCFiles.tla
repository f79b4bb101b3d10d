------------------------------- MODULE MCFiles -------------------------------
(* How files are changed and what is kept on disk, in one run: one atomic write, a staged change of
   several files, the history behind /undo, the isolated workspace, the run ledger and the engineering
   memory.  Each behaviour follows one of them. *)
EXTENDS FileMutation, IsolatedWorkspace, RunLedger, UndoHistory, StagedChange, EngineeringMemory

\* One writer in each of two processes, or two threads beside them.
TwoWriters == {"w1", "w2"}
Separate == [w \in Writers |-> w]
ThreeWriters == {"w1", "w2", "w3"}
TwoProcs == {"p", "q"}
Paired == [w \in Writers |-> IF w = "w3" THEN "q" ELSE "p"]
TwoFiles == {"a", "b"}
FirstFile == {"a"}
SomeErrors == {"IMPORT", "TYPE", "TEST"}
LastNames == [f \in {"a", "b"} |-> IF f = "a" THEN "x" ELSE "y"]
AllBackends == {"clean", "dirty", "copy"}

Stage(paths, mandatory) == [paths |-> paths, mandatory |-> mandatory, commands |-> TRUE]
Plan(order, edges, stages, defects) ==
    [files |-> order, edges |-> edges, stages |-> stages, defects |-> defects, criteria |-> TRUE,
     kind |-> [f \in {"a", "b"} |-> IF f = "a" THEN "CREATE" ELSE "MODIFY"]]
FlatPlan == Plan(<<"a", "b">>, {<<"a", "b">>}, <<>>, {})
\* Flat and staged plans, a cycle, a duplicate and two plans with defects.
StagePlans ==
    {FlatPlan,
     Plan(<<"a", "b">>, {<<"a", "b">>, <<"b", "a">>}, <<>>, {}),
     Plan(<<"a", "b">>, {<<"a", "b">>}, <<Stage(<<"a">>, TRUE), Stage(<<"b">>, TRUE)>>, {}),
     Plan(<<"a", "b">>, {<<"a", "b">>}, <<Stage(<<"a">>, FALSE), Stage(<<"b">>, TRUE)>>, {}),
     Plan(<<"b", "b">>, {}, <<>>, {}),
     Plan(<<"a">>, {}, <<>>, {"STALE_CALLER"}),
     Plan(<<"a">>, {}, <<>>, {"PROTECTED"})}

VARIABLE which     \* the part that runs in this behaviour

-----------------------------------------------------------------------------
\* One part runs, and the others stay as they were at first.
SumInit ==
    /\ which \in {"write", "isolated", "ledger", "undo", "staged", "memory"}
    /\ which # "write" => path = 1
    /\ which # "staged" => plan = FlatPlan
    /\ which # "isolated" => backend = "clean"
    /\ Init
    /\ WsInit
    /\ LedgerInit
    /\ HistoryInit
    /\ StagedInit
    /\ MemoryInit

WriteOnly == which = "write" /\ UNCHANGED <<which, wsVars, ledgerVars, historyVars, stagedVars,
        memoryVars>>
IsolatedOnly == which = "isolated" /\ UNCHANGED <<which, vars, ledgerVars, historyVars,
        stagedVars, memoryVars>>
LedgerOnly == which = "ledger" /\ UNCHANGED <<which, vars, wsVars, historyVars, stagedVars,
        memoryVars>>
UndoOnly == which = "undo" /\ UNCHANGED <<which, vars, wsVars, ledgerVars, stagedVars,
        memoryVars>>
StagedOnly == which = "staged" /\ UNCHANGED <<which, vars, wsVars, ledgerVars, historyVars,
        memoryVars>>
MemoryOnly == which = "memory" /\ UNCHANGED <<which, vars, wsVars, ledgerVars, historyVars,
        stagedVars>>

WriteStep == WriteOnly /\ Next
IsolatedStep == IsolatedOnly /\ WsNext
LedgerStep == LedgerOnly /\ LedgerNext
UndoStep == UndoOnly /\ HistoryNext
StagedStep == StagedOnly /\ StagedNext
MemoryStep == MemoryOnly /\ MemoryNext

SumNext == WriteStep \/ IsolatedStep \/ LedgerStep \/ UndoStep \/ StagedStep \/ MemoryStep
sumVars == <<which, vars, wsVars, ledgerVars, historyVars, stagedVars, memoryVars>>

SumSafety == SumInit /\ [][SumNext]_sumVars

-----------------------------------------------------------------------------
\* The type invariants of the six parts.
SumTypeOK ==
    CASE which = "write" -> TypeOK
      [] which = "staged" -> StagedTypeOK
      [] which = "undo" -> HistoryTypeOK
      [] which = "isolated" -> WsTypeOK
      [] which = "ledger" -> LedgerTypeOK
      [] which = "memory" -> MemoryTypeOK

\* FileMutation alone, on instances of one writer each, for what the code does not keep: its
\* advisory lock does not exclude two processes.
WriteAlone == SumInit /\ which = "write" /\ [][WriteStep]_sumVars
=============================================================================
