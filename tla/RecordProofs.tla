----------------------------- MODULE RecordProofs -----------------------------
(***************************************************************************)
(* The files of a session, for any number of processes, turns, kills and   *)
(* failing writes: begin() picks a directory that does not exist,          *)
(* session.json lists the turns in order, and what it calls closed is      *)
(* closed in the files of the turn.                                        *)
(*                                                                         *)
(* And the records of its engineering memory: one key signs them, what was *)
(* saved stays, and the phase moves as it may.  The strengthening says     *)
(* that a copy is no newer than its file, unless its own write failed.     *)
(***************************************************************************)
EXTENDS RunLedger, EngineeringMemory, SequenceTheorems, TLAPS

\* Where a process holds the lock of session.json.
Locked == {"numbering", "starting", "listing", "closing"}

HolderInv == \A p \in Processes : ledgerPc[p] \in Locked => lock = p

\* No document, on disk or read by a process, lists more turns than there
\* are directories.
DocumentsInv(n) ==
    /\ Len(session) <= n
    /\ \A p \in Processes : Len(snap[p]) <= n

\* The turn a process is beginning is the next one until its directory is
\* made, and the document it will extend does not reach that far.
BeginningInv(n) ==
    \A p \in Processes :
        /\ ledgerPc[p] = "numbering" => turn[p] = n + 1
        /\ ledgerPc[p] \in {"starting", "listing"} => turn[p] = n
        /\ ledgerPc[p] \in {"numbering", "starting", "listing"} => Len(snap[p]) < turn[p]

\* The directories are consecutive.
NumberInv ==
    \E n \in Nat : dirs = 1..n /\ n <= MaxLedgerTurns /\ DocumentsInv(n) /\ BeginningInv(n)

TypeInv ==
    /\ session \in Seq(Entry)
    /\ dirs \subseteq Turns
    /\ turn \in [Processes -> Turns \cup {0}]
    /\ snap \in [Processes -> Seq(Entry)]
    /\ decided \in [Processes -> Statuses]
    /\ ledgerPc \in [Processes -> LedgerPcValues]
    /\ lock \in Processes \cup {NoProc}

Inv == TypeInv /\ HolderInv /\ NumberInv
-----------------------------------------------------------------------------
\* A function on 1..n with values in a set is a sequence over it.
LEMMA SeqOfFunction ==
    ASSUME NEW S, NEW n \in Nat, NEW f \in [1..n -> S]
    PROVE  f \in Seq(S) /\ Len(f) = n
BY SeqDef

\* Rewriting the status of a turn keeps the shape of the document.
LEMMA WithStatusDoc ==
    ASSUME NEW doc \in Seq(Entry), NEW t, NEW status \in Statuses
    PROVE  /\ WithStatus(doc, t, status) \in Seq(Entry)
           /\ Len(WithStatus(doc, t, status)) = Len(doc)
<1>1. doc \in [1..Len(doc) -> Entry] /\ Len(doc) \in Nat /\ DOMAIN doc = 1..Len(doc)
  BY LenProperties
<1>2. WithStatus(doc, t, status) \in [1..Len(doc) -> Entry]
  BY <1>1 DEF WithStatus, Entry
<1> QED
  BY <1>1, <1>2, SeqOfFunction

\* With consecutive directories the next turn is the one after the last.
LEMMA NextTurnAfterLast ==
    ASSUME NEW n \in Nat, dirs = 1..n, NEW doc \in Seq(Entry), Len(doc) <= n
    PROVE  NextTurn(doc) = n + 1
<1> DEFINE S == {Len(doc)} \cup (1..n)
<1>1. Len(doc) \in Nat
  BY LenProperties
<1>2. n \in S /\ \A m \in S : m \in Nat /\ m <= n
  BY <1>1
<1>3. Maximum(S) \in S /\ \A m \in S : m <= Maximum(S)
  BY <1>2 DEF Maximum
<1>4. Maximum(S) \in Nat /\ Maximum(S) <= n /\ n <= Maximum(S)
  <2> HIDE DEF S
  <2> QED BY <1>2, <1>3
<1>5. Maximum(S) = n
  <2> HIDE DEF S
  <2> QED BY <1>4
<1> QED
  BY <1>5 DEF NextTurn

\* A document out of scope is the empty one.
LEMMA EmptyDoc == <<>> \in Seq(Entry) /\ Len(<<>>) = 0
BY EmptySeq

-----------------------------------------------------------------------------
\* The empty session satisfies the inductive invariant.
LEMMA InitInv == LedgerInit => Inv
<1> SUFFICES ASSUME LedgerInit PROVE Inv
  OBVIOUS
<1>1. TypeInv
  BY EmptySeq DEF LedgerInit, TypeInv, Statuses, LedgerPcValues, Turns
<1>2. HolderInv
  BY DEF LedgerInit, HolderInv, Locked
<1>3. dirs = 1..0 /\ 0 <= MaxLedgerTurns
  BY LedgerAssumption DEF LedgerInit
<1>4. DocumentsInv(0) /\ BeginningInv(0)
  BY EmptySeq DEF LedgerInit, DocumentsInv, BeginningInv
<1> QED
  BY <1>1, <1>2, <1>3, <1>4 DEF Inv, NumberInv

-----------------------------------------------------------------------------
\* The turn of a process that is beginning is a turn.
StartingTurn ==
    \A p \in Processes : ledgerPc[p] \in {"numbering", "starting", "listing"} => turn[p] \in Turns

\* The newest directory, when the directories are consecutive.
LEMMA LatestTurn == NumberInv => Latest \in Turns \cup {0}
<1> SUFFICES ASSUME NEW n \in Nat, dirs = 1..n, n <= MaxLedgerTurns
             PROVE  Latest \in Turns \cup {0}
  BY DEF NumberInv
<1>1. CASE n = 0
  BY <1>1 DEF Latest, Maximum
<1>2. CASE n # 0
  <2>1. n \in dirs /\ \A m \in dirs : m \in Nat /\ m <= n
    BY <1>2
  <2>2. Maximum(dirs) \in dirs
    BY <2>1 DEF Maximum
  <2> QED
    BY <2>2, LedgerAssumption DEF Latest, Turns
<1> QED
  BY <1>1, <1>2

\* Every step keeps the types of the session's documents and processes.
LEMMA TypeStep == TypeInv /\ NumberInv /\ StartingTurn /\ [LedgerNext]_ledgerVars => TypeInv'
<1> SUFFICES ASSUME TypeInv, NumberInv, StartingTurn, [LedgerNext]_ledgerVars PROVE TypeInv'
  OBVIOUS
<1> USE DEF TypeInv
<1>1. ASSUME NEW p \in Processes, OpenRead(p) PROVE TypeInv'
  BY <1>1 DEF OpenRead, LedgerGoto, LedgerPcValues, disk
<1>2. ASSUME NEW p \in Processes, OpenWrite(p) PROVE TypeInv'
  BY <1>2, EmptyDoc DEF OpenWrite, ForgetDocument, LedgerGoto, LedgerPcValues, disk
<1>3. ASSUME NEW p \in Processes, BeginLock(p) PROVE TypeInv'
  BY <1>3 DEF BeginLock, LedgerGoto, LedgerPcValues, disk, Turns
<1>4. ASSUME NEW p \in Processes, BeginMkdir(p) PROVE TypeInv'
  BY <1>4 DEF BeginMkdir, LedgerGoto, StartingTurn, LedgerPcValues, disk
<1>5. ASSUME NEW p \in Processes, BeginState(p) PROVE TypeInv'
  BY <1>5 DEF BeginState, LedgerGoto, LedgerPcValues, disk
<1>6. ASSUME NEW p \in Processes, BeginSession(p) PROVE TypeInv'
  <2>1. [turn |-> turn[p], status |-> RUNNING] \in Entry
    BY <1>6, LedgerAssumption DEF BeginSession, ForgetDocument, LedgerGoto, StartingTurn, Entry, Statuses
  <2>2. Append(snap[p], [turn |-> turn[p], status |-> RUNNING]) \in Seq(Entry)
    BY <2>1
  <2> QED
    BY <1>6, <2>2, EmptyDoc DEF BeginSession, ForgetDocument, LedgerGoto, LedgerPcValues
<1>7. ASSUME NEW p \in Processes, FinalizeReport(p) PROVE TypeInv'
  BY <1>7 DEF FinalizeReport, LedgerGoto, LedgerPcValues, disk, Statuses
<1>8. ASSUME NEW p \in Processes, FinalizeState(p) PROVE TypeInv'
  BY <1>8 DEF FinalizeState, LedgerGoto, LedgerPcValues, disk
<1>9. ASSUME NEW p \in Processes, FinalizeLock(p) PROVE TypeInv'
  BY <1>9 DEF FinalizeLock, LedgerGoto, LedgerPcValues, disk
<1>10. ASSUME NEW p \in Processes, FinalizeSession(p) PROVE TypeInv'
  BY <1>10, WithStatusDoc, EmptyDoc DEF FinalizeSession, ForgetDocument, LedgerGoto, LedgerPcValues, disk
<1>11. ASSUME NEW p \in Processes, FinalizeRelease(p) PROVE TypeInv'
  BY <1>11 DEF FinalizeRelease, LedgerGoto, LedgerPcValues, disk
<1>12. ASSUME NEW p \in Processes, ResumeSummary(p) PROVE TypeInv'
  BY <1>12, LatestTurn DEF ResumeSummary, Adopt, LedgerGoto, LedgerPcValues, disk
<1>13. ASSUME NEW p \in Processes, RefreshReport(p) PROVE TypeInv'
  BY <1>13, LatestTurn DEF RefreshReport, Adopt, LedgerGoto, LedgerPcValues, disk
<1>14. ASSUME NEW p \in Processes, RollbackRelease(p) PROVE TypeInv'
  BY <1>14 DEF RollbackRelease, LedgerGoto, LedgerPcValues, disk, Statuses
<1>15. ASSUME NEW p \in Processes, RollbackState(p) PROVE TypeInv'
  BY <1>15 DEF RollbackState, LedgerGoto, LedgerPcValues, disk
<1>16. ASSUME NEW p \in Processes, RollbackReport(p) PROVE TypeInv'
  BY <1>16 DEF RollbackReport, LedgerGoto, LedgerPcValues, disk
<1>17. ASSUME NEW p \in Processes, RollbackRead(p) PROVE TypeInv'
  BY <1>17 DEF RollbackRead, LedgerGoto, LedgerPcValues, disk
<1>18. ASSUME NEW p \in Processes, RollbackSession(p) PROVE TypeInv'
  BY <1>18, WithStatusDoc, EmptyDoc DEF RollbackSession, ForgetDocument, LedgerGoto, LedgerPcValues, disk, Statuses
<1>19. ASSUME NEW p \in Processes, LedgerCrash(p) PROVE TypeInv'
  BY <1>19, EmptyDoc DEF LedgerCrash, ForgetDocument, LedgerGoto, LedgerPcValues, disk
<1>20. CASE UNCHANGED ledgerVars
  BY <1>20 DEF ledgerVars
<1> QED
  BY <1>1, <1>2, <1>3, <1>4, <1>5, <1>6, <1>7, <1>8, <1>9, <1>10, <1>11, <1>12, <1>13, <1>14, <1>15, <1>16, <1>17, <1>18, <1>19, <1>20 DEF LedgerNext, Beginning, Finalizing, RollingBack

-----------------------------------------------------------------------------
\* The lock of session.json has one holder.
LEMMA HolderStep == TypeInv /\ HolderInv /\ [LedgerNext]_ledgerVars => HolderInv'
<1> SUFFICES ASSUME TypeInv, HolderInv, [LedgerNext]_ledgerVars PROVE HolderInv'
  OBVIOUS
<1> USE LedgerAssumption DEF TypeInv, HolderInv, Locked, LedgerPcValues
<1>1. ASSUME NEW p \in Processes, OpenRead(p) PROVE HolderInv'
  BY <1>1 DEF OpenRead, LedgerGoto, disk
<1>2. ASSUME NEW p \in Processes, OpenWrite(p) PROVE HolderInv'
  BY <1>2 DEF OpenWrite, ForgetDocument, LedgerGoto, disk
<1>3. ASSUME NEW p \in Processes, BeginLock(p) PROVE HolderInv'
  BY <1>3 DEF BeginLock, LedgerGoto, disk
<1>4. ASSUME NEW p \in Processes, BeginMkdir(p) PROVE HolderInv'
  BY <1>4 DEF BeginMkdir, LedgerGoto, disk
<1>5. ASSUME NEW p \in Processes, BeginState(p) PROVE HolderInv'
  BY <1>5 DEF BeginState, LedgerGoto, disk
<1>6. ASSUME NEW p \in Processes, BeginSession(p) PROVE HolderInv'
  BY <1>6 DEF BeginSession, ForgetDocument, LedgerGoto, disk
<1>7. ASSUME NEW p \in Processes, FinalizeReport(p) PROVE HolderInv'
  BY <1>7 DEF FinalizeReport, LedgerGoto, disk
<1>8. ASSUME NEW p \in Processes, FinalizeState(p) PROVE HolderInv'
  BY <1>8 DEF FinalizeState, LedgerGoto, UpdateState, disk
<1>9. ASSUME NEW p \in Processes, FinalizeLock(p) PROVE HolderInv'
  BY <1>9 DEF FinalizeLock, LedgerGoto, disk
<1>10. ASSUME NEW p \in Processes, FinalizeSession(p) PROVE HolderInv'
  BY <1>10 DEF FinalizeSession, ForgetDocument, LedgerGoto, disk
<1>11. ASSUME NEW p \in Processes, FinalizeRelease(p) PROVE HolderInv'
  BY <1>11 DEF FinalizeRelease, LedgerGoto, disk
<1>12. ASSUME NEW p \in Processes, ResumeSummary(p) PROVE HolderInv'
  BY <1>12 DEF ResumeSummary, Adopt, LedgerGoto, disk
<1>13. ASSUME NEW p \in Processes, RefreshReport(p) PROVE HolderInv'
  BY <1>13 DEF RefreshReport, Adopt, LedgerGoto, disk
<1>14. ASSUME NEW p \in Processes, RollbackRelease(p) PROVE HolderInv'
  BY <1>14 DEF RollbackRelease, LedgerGoto, disk
<1>15. ASSUME NEW p \in Processes, RollbackState(p) PROVE HolderInv'
  BY <1>15 DEF RollbackState, LedgerGoto, UpdateState, disk
<1>16. ASSUME NEW p \in Processes, RollbackReport(p) PROVE HolderInv'
  BY <1>16 DEF RollbackReport, LedgerGoto, disk
<1>17. ASSUME NEW p \in Processes, RollbackRead(p) PROVE HolderInv'
  BY <1>17 DEF RollbackRead, LedgerGoto, disk
<1>18. ASSUME NEW p \in Processes, RollbackSession(p) PROVE HolderInv'
  BY <1>18 DEF RollbackSession, ForgetDocument, LedgerGoto, disk
<1>19. ASSUME NEW p \in Processes, LedgerCrash(p) PROVE HolderInv'
  BY <1>19 DEF LedgerCrash, ForgetDocument, LedgerGoto, Alive, disk
<1>20. CASE UNCHANGED ledgerVars
  BY <1>20 DEF ledgerVars
<1> QED
  BY <1>1, <1>2, <1>3, <1>4, <1>5, <1>6, <1>7, <1>8, <1>9, <1>10, <1>11, <1>12, <1>13, <1>14, <1>15, <1>16, <1>17, <1>18, <1>19, <1>20 DEF LedgerNext, Beginning, Finalizing, RollingBack

-----------------------------------------------------------------------------
\* The number a beginning process holds is that of a turn directory.
LEMMA BeginningIsATurn == TypeInv /\ NumberInv => StartingTurn
BY LedgerAssumption DEF TypeInv, NumberInv, BeginningInv, StartingTurn, Turns

\* Turn directories stay consecutive, and documents never run ahead of them.
LEMMA NumberStep == TypeInv /\ HolderInv /\ NumberInv /\ [LedgerNext]_ledgerVars => NumberInv'
<1> SUFFICES ASSUME TypeInv, HolderInv, [LedgerNext]_ledgerVars,
                    NEW n \in Nat, dirs = 1..n, n <= MaxLedgerTurns,
                    DocumentsInv(n), BeginningInv(n)
             PROVE  NumberInv'
  BY DEF NumberInv
<1> DEFINE Keeps(m) == /\ dirs' = 1..m /\ m <= MaxLedgerTurns
                       /\ DocumentsInv(m)' /\ BeginningInv(m)'
<1>a. ASSUME NEW m \in Nat, Keeps(m) PROVE NumberInv'
  BY <1>a DEF NumberInv
<1> USE DEF TypeInv, DocumentsInv, BeginningInv
<1>b. Len(session) \in Nat /\ \A p \in Processes : Len(snap[p]) \in Nat
  BY LenProperties
<1>1. ASSUME NEW p \in Processes, OpenRead(p) PROVE NumberInv'
  <2>1. Keeps(n)
    BY <1>1, <1>b DEF OpenRead, LedgerGoto, disk
  <2> QED
    BY <2>1, <1>a
<1>2. ASSUME NEW p \in Processes, OpenWrite(p) PROVE NumberInv'
  <2>1. Keeps(n)
    BY <1>2, <1>b, EmptyDoc DEF OpenWrite, ForgetDocument, LedgerGoto, disk
  <2> QED
    BY <2>1, <1>a
<1>3. ASSUME NEW p \in Processes, BeginLock(p) PROVE NumberInv'
  <2>1. NextTurn(session) = n + 1
    BY NextTurnAfterLast
  <2>2. \A q \in Processes : q # p => ledgerPc[q] \notin Locked
    BY <1>3, LedgerAssumption DEF BeginLock, HolderInv
  <2>3. Keeps(n)
    BY <1>3, <1>b, <2>1, <2>2 DEF BeginLock, LedgerGoto, disk, Locked
  <2> QED
    BY <2>3, <1>a
<1>4. ASSUME NEW p \in Processes, BeginMkdir(p) PROVE NumberInv'
  <2>1. turn[p] = n + 1 /\ n + 1 <= MaxLedgerTurns /\ lock = p
    BY <1>4, LedgerAssumption DEF BeginMkdir, LedgerGoto, HolderInv, Locked, Turns
  <2>2. \A q \in Processes : q # p => ledgerPc[q] \notin Locked
    BY <2>1 DEF HolderInv
  <2>3. dirs' = 1..(n + 1)
    BY <1>4, <2>1 DEF BeginMkdir
  <2>4. Keeps(n + 1)
    BY <1>4, <1>b, <2>1, <2>2, <2>3, LedgerAssumption DEF BeginMkdir, LedgerGoto, Locked
  <2>5. n + 1 \in Nat
    OBVIOUS
  <2> HIDE DEF Keeps
  <2> QED
    BY <2>4, <2>5, <1>a
<1>5. ASSUME NEW p \in Processes, BeginState(p) PROVE NumberInv'
  <2>1. Keeps(n)
    BY <1>5, <1>b DEF BeginState, LedgerGoto, disk
  <2> QED
    BY <2>1, <1>a
<1>6. ASSUME NEW p \in Processes, BeginSession(p) PROVE NumberInv'
  <2>1. Len(Append(snap[p], [turn |-> turn[p], status |-> RUNNING])) = Len(snap[p]) + 1
    BY AppendProperties, LedgerAssumption
  <2>2. turn[p] = n /\ Len(snap[p]) < n
    BY <1>6 DEF BeginSession, ForgetDocument, LedgerGoto
  <2>3. Keeps(n)
    BY <1>6, <1>b, <2>1, <2>2, EmptyDoc DEF BeginSession, ForgetDocument, LedgerGoto
  <2> QED
    BY <2>3, <1>a
<1>7. ASSUME NEW p \in Processes, FinalizeReport(p) PROVE NumberInv'
  <2>1. Keeps(n)
    BY <1>7, <1>b DEF FinalizeReport, LedgerGoto, disk
  <2> QED
    BY <2>1, <1>a
<1>8. ASSUME NEW p \in Processes, FinalizeState(p) PROVE NumberInv'
  <2>1. Keeps(n)
    BY <1>8, <1>b DEF FinalizeState, LedgerGoto, disk
  <2> QED
    BY <2>1, <1>a
<1>9. ASSUME NEW p \in Processes, FinalizeLock(p) PROVE NumberInv'
  <2>1. Keeps(n)
    BY <1>9, <1>b DEF FinalizeLock, LedgerGoto, disk
  <2> QED
    BY <2>1, <1>a
<1>10. ASSUME NEW p \in Processes, FinalizeSession(p) PROVE NumberInv'
  <2>1. Keeps(n)
    BY <1>10, <1>b, WithStatusDoc, EmptyDoc DEF FinalizeSession, ForgetDocument, LedgerGoto, disk
  <2> QED
    BY <2>1, <1>a
<1>11. ASSUME NEW p \in Processes, FinalizeRelease(p) PROVE NumberInv'
  <2>1. Keeps(n)
    BY <1>11, <1>b DEF FinalizeRelease, LedgerGoto, disk
  <2> QED
    BY <2>1, <1>a
<1>12. ASSUME NEW p \in Processes, ResumeSummary(p) PROVE NumberInv'
  <2>1. Keeps(n)
    BY <1>12, <1>b DEF ResumeSummary, Adopt, LedgerGoto, disk
  <2> QED
    BY <2>1, <1>a
<1>13. ASSUME NEW p \in Processes, RefreshReport(p) PROVE NumberInv'
  <2>1. Keeps(n)
    BY <1>13, <1>b DEF RefreshReport, Adopt, LedgerGoto, disk
  <2> QED
    BY <2>1, <1>a
<1>14. ASSUME NEW p \in Processes, RollbackRelease(p) PROVE NumberInv'
  <2>1. Keeps(n)
    BY <1>14, <1>b DEF RollbackRelease, LedgerGoto, disk
  <2> QED
    BY <2>1, <1>a
<1>15. ASSUME NEW p \in Processes, RollbackState(p) PROVE NumberInv'
  <2>1. Keeps(n)
    BY <1>15, <1>b DEF RollbackState, LedgerGoto, disk
  <2> QED
    BY <2>1, <1>a
<1>16. ASSUME NEW p \in Processes, RollbackReport(p) PROVE NumberInv'
  <2>1. Keeps(n)
    BY <1>16, <1>b DEF RollbackReport, LedgerGoto, disk
  <2> QED
    BY <2>1, <1>a
<1>17. ASSUME NEW p \in Processes, RollbackRead(p) PROVE NumberInv'
  <2>1. Keeps(n)
    BY <1>17, <1>b DEF RollbackRead, LedgerGoto, disk
  <2> QED
    BY <2>1, <1>a
<1>18. ASSUME NEW p \in Processes, RollbackSession(p) PROVE NumberInv'
  <2>1. Keeps(n)
    BY <1>18, <1>b, WithStatusDoc, EmptyDoc DEF RollbackSession, ForgetDocument, LedgerGoto, disk, Statuses
  <2> QED
    BY <2>1, <1>a
<1>19. ASSUME NEW p \in Processes, LedgerCrash(p) PROVE NumberInv'
  <2>1. Keeps(n)
    BY <1>19, <1>b, EmptyDoc DEF LedgerCrash, ForgetDocument, LedgerGoto, disk
  <2> QED
    BY <2>1, <1>a
<1>20. CASE UNCHANGED ledgerVars
  <2>1. Keeps(n)
    BY <1>20 DEF ledgerVars
  <2> QED
    BY <2>1, <1>a
<1> QED
  BY <1>1, <1>2, <1>3, <1>4, <1>5, <1>6, <1>7, <1>8, <1>9, <1>10, <1>11, <1>12, <1>13, <1>14, <1>15, <1>16, <1>17, <1>18, <1>19, <1>20 DEF LedgerNext, Beginning, Finalizing, RollingBack

-----------------------------------------------------------------------------
\* Every reachable state of the ledger, with any number of processes killed
\* anywhere, satisfies the inductive invariant.
THEOREM InvariantHolds == LedgerSpec => []Inv
<1>1. LedgerInit => Inv
  BY InitInv
<1>2. Inv /\ [LedgerNext]_ledgerVars => Inv'
  BY TypeStep, HolderStep, NumberStep, BeginningIsATurn DEF Inv
<1> QED
  BY <1>1, <1>2, PTL DEF LedgerSpec

\* The turn directories of a session are numbered without a gap.
THEOREM DirectoriesConsecutive == LedgerSpec => [](\E n \in Nat : dirs = 1..n)
<1>1. Inv => \E n \in Nat : dirs = 1..n
  BY DEF Inv, NumberInv
<1> QED
  BY <1>1, InvariantHolds, PTL

-----------------------------------------------------------------------------
(* What the documents of a session say: session.json on disk and the       *)
(* copies the processes have read.                                         *)

Docs == {session} \cup {snap[p] : p \in Processes}

\* A document lists existing directories in order.
Ordered(doc, D) ==
    /\ \A i \in DOMAIN doc : doc[i].turn \in D
    /\ \A i, j \in DOMAIN doc : i < j => doc[i].turn < doc[j].turn

\* It does not list turn t.
Without(doc, t) == \A i \in DOMAIN doc : doc[i].turn # t

\* Where a process is beginning a turn, and where it has one.
Beginnings == {"numbering", "starting", "listing"}
AtTurn == {"running", "reported", "stated", "closing", "releasing",
           "undone", "unstated", "unreported", "unlisting"}

\* All documents are in order, and none lists a turn that is just beginning.
OrderInv ==
    /\ \A d \in Docs : Ordered(d, dirs)
    /\ \A p \in Processes : ledgerPc[p] \in Beginnings => \A d \in Docs : Without(d, turn[p])

\* Processes in the middle of a turn have one, and two live processes with
\* the same turn share it.
TurnInv ==
    /\ \A p \in Processes : ledgerPc[p] \notin {"numbering", "dead"} => turn[p] \in dirs \cup {0}
    /\ \A p \in Processes : ledgerPc[p] \in AtTurn => turn[p] # 0
    /\ \A p, q \in Processes :
           p # q /\ Alive(p) /\ Alive(q) /\ turn[p] = turn[q] /\ turn[p] # 0
               => turn[p] \in shared

\* The state of turn t is closed on disk, unless two live processes had it.
StateClosed(t) == t \in shared \/ state[t] \notin {Unwritten, RUNNING}
Reported(t) == report[t] # Unwritten

\* What a document calls closed is closed on disk.
ClosedDoc(doc) ==
    \A i \in DOMAIN doc :
        doc[i].status # RUNNING =>
            /\ StateClosed(doc[i].turn)
            /\ doc[i].status \in Outcomes => Reported(doc[i].turn)

\* Where the report, and where state.json, of the turn has been written.
AfterReport == {"reported", "stated", "closing"}
AfterState == {"stated", "closing", "unstated", "unreported", "unlisting"}

\* No document runs ahead of the files of a turn, and no process that is
\* about to write one does.
FilesFirst ==
    /\ \A p \in Processes : ~degraded[p]
    /\ \A d \in Docs : ClosedDoc(d)
    /\ \A p \in Processes :
           ledgerPc[p] \in AfterReport => decided[p] \in Outcomes /\ Reported(turn[p])
    /\ \A p \in Processes : ledgerPc[p] \in AfterState => StateClosed(turn[p])

\* So it is as long as no write has failed.
ClosedInv == failedWrites = 0 => FilesFirst

FilesInv ==
    /\ state \in [Turns -> Statuses \cup {Unwritten}]
    /\ report \in [Turns -> Statuses \cup {Unwritten}]
    /\ degraded \in [Processes -> BOOLEAN]
    /\ failedWrites \in Nat

DocsInv == Inv /\ FilesInv /\ OrderInv /\ TurnInv /\ ClosedInv

-----------------------------------------------------------------------------
\* Rewriting a status keeps the turns of the document and their order.
LEMMA WithStatusTurns ==
    ASSUME NEW doc \in Seq(Entry), NEW t, NEW status \in Statuses
    PROVE  /\ DOMAIN WithStatus(doc, t, status) = DOMAIN doc
           /\ \A i \in DOMAIN doc : WithStatus(doc, t, status)[i].turn = doc[i].turn
           /\ \A i \in DOMAIN doc :
                 WithStatus(doc, t, status)[i].status =
                     IF doc[i].turn = t THEN status ELSE doc[i].status
<1>1. \A i \in DOMAIN doc : doc[i] \in Entry
  BY ElementOfSeq, LenProperties
<1> QED
  BY <1>1 DEF WithStatus, Entry

\* An operation that rewrites the status of turn t keeps the order.
LEMMA WithStatusOrdered ==
    ASSUME NEW doc \in Seq(Entry), NEW t, NEW status \in Statuses, NEW D, Ordered(doc, D)
    PROVE  Ordered(WithStatus(doc, t, status), D)
BY WithStatusTurns DEF Ordered

\* The entry of a turn that is new is added in order.
LEMMA AppendOrdered ==
    ASSUME NEW doc \in Seq(Entry), NEW n \in Nat, Ordered(doc, 1..n), Without(doc, n),
           NEW e \in Entry, e.turn = n, n # 0
    PROVE  Ordered(Append(doc, e), 1..n)
<1> DEFINE new == Append(doc, e)
<1>1. Len(doc) \in Nat /\ DOMAIN doc = 1..Len(doc)
  BY LenProperties
<1>2. /\ DOMAIN new = 1..(Len(doc) + 1)
      /\ \A i \in 1..Len(doc) : new[i] = doc[i]
      /\ new[Len(doc) + 1] = e
  BY <1>1, AppendProperties, LenProperties
<1>3. \A i \in 1..Len(doc) : new[i].turn \in 1..n /\ new[i].turn < n
  <2> TAKE i \in 1..Len(doc)
  <2>1. doc[i].turn \in 1..n /\ doc[i].turn # n
    BY <1>1 DEF Ordered, Without
  <2> QED
    BY <2>1, <1>2
<1>4. \A i \in DOMAIN new : new[i].turn \in 1..n
  <2> TAKE i \in DOMAIN new
  <2>1. CASE i \in 1..Len(doc)
    BY <2>1, <1>3
  <2>2. CASE i = Len(doc) + 1
    BY <2>2, <1>2
  <2> QED
    BY <2>1, <2>2, <1>1, <1>2
<1>5. ASSUME NEW i \in DOMAIN new, NEW j \in DOMAIN new, i < j PROVE new[i].turn < new[j].turn
  <2>1. i \in 1..Len(doc)
    BY <1>5, <1>1, <1>2
  <2>2. CASE j \in 1..Len(doc)
    BY <2>1, <2>2, <1>1, <1>2, <1>5 DEF Ordered
  <2>3. CASE j = Len(doc) + 1
    BY <2>1, <2>3, <1>2, <1>3
  <2> QED
    BY <2>2, <2>3, <1>1, <1>2
<1> QED
  BY <1>4, <1>5 DEF Ordered

\* The empty document says nothing.
LEMMA EmptyOrdered ==
    ASSUME NEW D, NEW t
    PROVE  Ordered(<<>>, D) /\ Without(<<>>, t)
BY DEF Ordered, Without

-----------------------------------------------------------------------------
\* How a document comes about that was not there before the step.
Entered(d) ==
    \E p \in Processes :
        BeginSession(p) /\ d = Append(snap[p], [turn |-> turn[p], status |-> RUNNING])
Rewritten(d) ==
    \E p \in Processes :
        \/ FinalizeSession(p) /\ d = WithStatus(snap[p], turn[p], decided[p])
        \/ RollbackSession(p) /\ d = WithStatus(snap[p], turn[p], ROLLED_BACK)
DocFrom(d) == d \in Docs \/ d = <<>> \/ Entered(d) \/ Rewritten(d)

\* Every document after a step is one from before it, or empty, or has one
\* entry more, or one status rewritten.
LEMMA DocsStep == TypeInv /\ [LedgerNext]_ledgerVars => \A d \in Docs' : DocFrom(d)
<1> SUFFICES ASSUME TypeInv, [LedgerNext]_ledgerVars
             PROVE  DocFrom(session') /\ \A q \in Processes : DocFrom(snap'[q])
  BY DEF Docs
<1> DEFINE Goal == DocFrom(session') /\ \A q \in Processes : DocFrom(snap'[q])
<1> USE DEF TypeInv
<1>a. DocFrom(session) /\ (\A q \in Processes : DocFrom(snap[q])) /\ DocFrom(<<>>)
  BY DEF DocFrom, Docs
<1>b. SUFFICES Goal
  OBVIOUS
<1>1. ASSUME NEW p \in Processes, OpenRead(p) PROVE Goal
  BY <1>1, <1>a DEF OpenRead, LedgerGoto, disk
<1>2. ASSUME NEW p \in Processes, OpenWrite(p) PROVE Goal
  BY <1>2, <1>a DEF OpenWrite, ForgetDocument, LedgerGoto, disk
<1>3. ASSUME NEW p \in Processes, BeginLock(p) PROVE Goal
  BY <1>3, <1>a DEF BeginLock, LedgerGoto, disk
<1>4. ASSUME NEW p \in Processes, BeginMkdir(p) PROVE Goal
  BY <1>4, <1>a DEF BeginMkdir, LedgerGoto, disk
<1>5. ASSUME NEW p \in Processes, BeginState(p) PROVE Goal
  BY <1>5, <1>a DEF BeginState, LedgerGoto, disk
<1>6. ASSUME NEW p \in Processes, BeginSession(p) PROVE Goal
  <2>1. session' = session \/ Entered(session')
    BY <1>6 DEF BeginSession, Entered
  <2>2. \A q \in Processes : snap'[q] = snap[q] \/ snap'[q] = <<>>
    BY <1>6 DEF BeginSession, ForgetDocument
  <2> QED
    BY <2>1, <2>2, <1>a DEF DocFrom
<1>7. ASSUME NEW p \in Processes, FinalizeReport(p) PROVE Goal
  BY <1>7, <1>a DEF FinalizeReport, LedgerGoto, disk
<1>8. ASSUME NEW p \in Processes, FinalizeState(p) PROVE Goal
  BY <1>8, <1>a DEF FinalizeState, LedgerGoto, UpdateState, disk
<1>9. ASSUME NEW p \in Processes, FinalizeLock(p) PROVE Goal
  BY <1>9, <1>a DEF FinalizeLock, LedgerGoto, disk
<1>10. ASSUME NEW p \in Processes, FinalizeSession(p) PROVE Goal
  <2>1. session' = session \/ Rewritten(session')
    BY <1>10 DEF FinalizeSession, Rewritten
  <2>2. \A q \in Processes : snap'[q] = snap[q] \/ snap'[q] = <<>>
    BY <1>10 DEF FinalizeSession, ForgetDocument
  <2> QED
    BY <2>1, <2>2, <1>a DEF DocFrom
<1>11. ASSUME NEW p \in Processes, FinalizeRelease(p) PROVE Goal
  BY <1>11, <1>a DEF FinalizeRelease, LedgerGoto, disk
<1>12. ASSUME NEW p \in Processes, ResumeSummary(p) PROVE Goal
  BY <1>12, <1>a DEF ResumeSummary, Adopt, LedgerGoto, disk
<1>13. ASSUME NEW p \in Processes, RefreshReport(p) PROVE Goal
  BY <1>13, <1>a DEF RefreshReport, Adopt, LedgerGoto, disk
<1>14. ASSUME NEW p \in Processes, RollbackRelease(p) PROVE Goal
  BY <1>14, <1>a DEF RollbackRelease, LedgerGoto, disk
<1>15. ASSUME NEW p \in Processes, RollbackState(p) PROVE Goal
  BY <1>15, <1>a DEF RollbackState, LedgerGoto, UpdateState, disk
<1>16. ASSUME NEW p \in Processes, RollbackReport(p) PROVE Goal
  BY <1>16, <1>a DEF RollbackReport, LedgerGoto, disk
<1>17. ASSUME NEW p \in Processes, RollbackRead(p) PROVE Goal
  BY <1>17, <1>a DEF RollbackRead, LedgerGoto, disk
<1>18. ASSUME NEW p \in Processes, RollbackSession(p) PROVE Goal
  <2>1. session' = session \/ Rewritten(session')
    BY <1>18 DEF RollbackSession, Rewritten
  <2>2. \A q \in Processes : snap'[q] = snap[q] \/ snap'[q] = <<>>
    BY <1>18 DEF RollbackSession, ForgetDocument
  <2> QED
    BY <2>1, <2>2, <1>a DEF DocFrom
<1>19. ASSUME NEW p \in Processes, LedgerCrash(p) PROVE Goal
  BY <1>19, <1>a DEF LedgerCrash, ForgetDocument, LedgerGoto, Alive, disk
<1>20. CASE UNCHANGED ledgerVars
  BY <1>20, <1>a DEF ledgerVars
<1> QED
  BY <1>1, <1>2, <1>3, <1>4, <1>5, <1>6, <1>7, <1>8, <1>9, <1>10, <1>11, <1>12, <1>13, <1>14, <1>15, <1>16, <1>17, <1>18, <1>19, <1>20 DEF LedgerNext, Beginning, Finalizing, RollingBack

-----------------------------------------------------------------------------
\* A process that is beginning a turn has just taken its number or keeps it.
LEMMA BeginningStep ==
    TypeInv /\ [LedgerNext]_ledgerVars =>
        \A q \in Processes : ledgerPc'[q] \in Beginnings =>
            \/ BeginLock(q)
            \/ ledgerPc[q] \in Beginnings /\ turn'[q] = turn[q]
<1> SUFFICES ASSUME TypeInv, [LedgerNext]_ledgerVars, NEW q \in Processes, ledgerPc'[q] \in Beginnings
             PROVE  BeginLock(q) \/ (ledgerPc[q] \in Beginnings /\ turn'[q] = turn[q])
  OBVIOUS
<1> DEFINE Goal == BeginLock(q) \/ (ledgerPc[q] \in Beginnings /\ turn'[q] = turn[q])
<1> USE DEF TypeInv, LedgerPcValues, Beginnings
<1>b. SUFFICES Goal
  OBVIOUS
<1>1. ASSUME NEW p \in Processes, OpenRead(p) PROVE Goal
  BY <1>1 DEF OpenRead, LedgerGoto, disk
<1>2. ASSUME NEW p \in Processes, OpenWrite(p) PROVE Goal
  BY <1>2 DEF OpenWrite, ForgetDocument, LedgerGoto, disk
<1>3. ASSUME NEW p \in Processes, BeginLock(p) PROVE Goal
  BY <1>3 DEF BeginLock, LedgerGoto
<1>4. ASSUME NEW p \in Processes, BeginMkdir(p) PROVE Goal
  BY <1>4 DEF BeginMkdir, LedgerGoto, disk
<1>5. ASSUME NEW p \in Processes, BeginState(p) PROVE Goal
  BY <1>5 DEF BeginState, LedgerGoto, disk
<1>6. ASSUME NEW p \in Processes, BeginSession(p) PROVE Goal
  BY <1>6 DEF BeginSession, ForgetDocument, LedgerGoto, disk
<1>7. ASSUME NEW p \in Processes, FinalizeReport(p) PROVE Goal
  BY <1>7 DEF FinalizeReport, LedgerGoto, disk
<1>8. ASSUME NEW p \in Processes, FinalizeState(p) PROVE Goal
  BY <1>8 DEF FinalizeState, LedgerGoto, UpdateState, disk
<1>9. ASSUME NEW p \in Processes, FinalizeLock(p) PROVE Goal
  BY <1>9 DEF FinalizeLock, LedgerGoto, disk
<1>10. ASSUME NEW p \in Processes, FinalizeSession(p) PROVE Goal
  BY <1>10 DEF FinalizeSession, ForgetDocument, LedgerGoto, disk
<1>11. ASSUME NEW p \in Processes, FinalizeRelease(p) PROVE Goal
  BY <1>11 DEF FinalizeRelease, LedgerGoto, disk
<1>12. ASSUME NEW p \in Processes, ResumeSummary(p) PROVE Goal
  BY <1>12 DEF ResumeSummary, Adopt, LedgerGoto, disk
<1>13. ASSUME NEW p \in Processes, RefreshReport(p) PROVE Goal
  BY <1>13 DEF RefreshReport, Adopt, LedgerGoto, disk
<1>14. ASSUME NEW p \in Processes, RollbackRelease(p) PROVE Goal
  BY <1>14 DEF RollbackRelease, LedgerGoto, disk
<1>15. ASSUME NEW p \in Processes, RollbackState(p) PROVE Goal
  BY <1>15 DEF RollbackState, LedgerGoto, UpdateState, disk
<1>16. ASSUME NEW p \in Processes, RollbackReport(p) PROVE Goal
  BY <1>16 DEF RollbackReport, LedgerGoto, disk
<1>17. ASSUME NEW p \in Processes, RollbackRead(p) PROVE Goal
  BY <1>17 DEF RollbackRead, LedgerGoto, disk
<1>18. ASSUME NEW p \in Processes, RollbackSession(p) PROVE Goal
  BY <1>18 DEF RollbackSession, ForgetDocument, LedgerGoto, disk
<1>19. ASSUME NEW p \in Processes, LedgerCrash(p) PROVE Goal
  BY <1>19 DEF LedgerCrash, ForgetDocument, LedgerGoto, Alive, disk
<1>20. CASE UNCHANGED ledgerVars
  BY <1>20 DEF ledgerVars
<1> QED
  BY <1>1, <1>2, <1>3, <1>4, <1>5, <1>6, <1>7, <1>8, <1>9, <1>10, <1>11, <1>12, <1>13, <1>14, <1>15, <1>16, <1>17, <1>18, <1>19, <1>20 DEF LedgerNext, Beginning, Finalizing, RollingBack

\* Directories are never removed.
LEMMA DirsKept == TypeInv /\ [LedgerNext]_ledgerVars => dirs \subseteq dirs'
<1> SUFFICES ASSUME TypeInv, [LedgerNext]_ledgerVars PROVE dirs \subseteq dirs'
  OBVIOUS
<1> DEFINE Goal == dirs \subseteq dirs'
<1>b. SUFFICES Goal
  OBVIOUS
<1>1. ASSUME NEW p \in Processes, OpenRead(p) PROVE Goal
  BY <1>1 DEF OpenRead, LedgerGoto, disk
<1>2. ASSUME NEW p \in Processes, OpenWrite(p) PROVE Goal
  BY <1>2 DEF OpenWrite, ForgetDocument, LedgerGoto, disk
<1>3. ASSUME NEW p \in Processes, BeginLock(p) PROVE Goal
  BY <1>3 DEF BeginLock, LedgerGoto, disk
<1>4. ASSUME NEW p \in Processes, BeginMkdir(p) PROVE Goal
  BY <1>4 DEF BeginMkdir, LedgerGoto, disk
<1>5. ASSUME NEW p \in Processes, BeginState(p) PROVE Goal
  BY <1>5 DEF BeginState, LedgerGoto, disk
<1>6. ASSUME NEW p \in Processes, BeginSession(p) PROVE Goal
  BY <1>6 DEF BeginSession, ForgetDocument, LedgerGoto, disk
<1>7. ASSUME NEW p \in Processes, FinalizeReport(p) PROVE Goal
  BY <1>7 DEF FinalizeReport, LedgerGoto, disk
<1>8. ASSUME NEW p \in Processes, FinalizeState(p) PROVE Goal
  BY <1>8 DEF FinalizeState, LedgerGoto, UpdateState, disk
<1>9. ASSUME NEW p \in Processes, FinalizeLock(p) PROVE Goal
  BY <1>9 DEF FinalizeLock, LedgerGoto, disk
<1>10. ASSUME NEW p \in Processes, FinalizeSession(p) PROVE Goal
  BY <1>10 DEF FinalizeSession, ForgetDocument, LedgerGoto, disk
<1>11. ASSUME NEW p \in Processes, FinalizeRelease(p) PROVE Goal
  BY <1>11 DEF FinalizeRelease, LedgerGoto, disk
<1>12. ASSUME NEW p \in Processes, ResumeSummary(p) PROVE Goal
  BY <1>12 DEF ResumeSummary, Adopt, LedgerGoto, disk
<1>13. ASSUME NEW p \in Processes, RefreshReport(p) PROVE Goal
  BY <1>13 DEF RefreshReport, Adopt, LedgerGoto, disk
<1>14. ASSUME NEW p \in Processes, RollbackRelease(p) PROVE Goal
  BY <1>14 DEF RollbackRelease, LedgerGoto, disk
<1>15. ASSUME NEW p \in Processes, RollbackState(p) PROVE Goal
  BY <1>15 DEF RollbackState, LedgerGoto, UpdateState, disk
<1>16. ASSUME NEW p \in Processes, RollbackReport(p) PROVE Goal
  BY <1>16 DEF RollbackReport, LedgerGoto, disk
<1>17. ASSUME NEW p \in Processes, RollbackRead(p) PROVE Goal
  BY <1>17 DEF RollbackRead, LedgerGoto, disk
<1>18. ASSUME NEW p \in Processes, RollbackSession(p) PROVE Goal
  BY <1>18 DEF RollbackSession, ForgetDocument, LedgerGoto, disk
<1>19. ASSUME NEW p \in Processes, LedgerCrash(p) PROVE Goal
  BY <1>19 DEF LedgerCrash, ForgetDocument, LedgerGoto, Alive, disk
<1>20. CASE UNCHANGED ledgerVars
  BY <1>20 DEF ledgerVars
<1> QED
  BY <1>1, <1>2, <1>3, <1>4, <1>5, <1>6, <1>7, <1>8, <1>9, <1>10, <1>11, <1>12, <1>13, <1>14, <1>15, <1>16, <1>17, <1>18, <1>19, <1>20 DEF LedgerNext, Beginning, Finalizing, RollingBack

\* Documents stay in order: only the holder of the lock adds an entry, and
\* the turn it adds is in no document.
LEMMA OrderStep ==
    TypeInv /\ HolderInv /\ NumberInv /\ OrderInv /\ [LedgerNext]_ledgerVars => OrderInv'
<1> SUFFICES ASSUME TypeInv, HolderInv, OrderInv, [LedgerNext]_ledgerVars,
                    NEW n \in Nat, dirs = 1..n, n <= MaxLedgerTurns,
                    DocumentsInv(n), BeginningInv(n)
             PROVE  OrderInv'
  BY DEF NumberInv
<1>1. dirs \subseteq dirs' /\ \A d \in Docs' : DocFrom(d)
  BY DirsKept, DocsStep
<1>2. session \in Seq(Entry) /\ \A p \in Processes : snap[p] \in Docs /\ snap[p] \in Seq(Entry)
  BY DEF TypeInv, Docs
<1>3. \A d \in Docs : d \in Seq(Entry)
  BY DEF Docs, TypeInv
<1>4. ASSUME NEW d, Entered(d) PROVE Ordered(d, dirs)
  <2> PICK p \in Processes : BeginSession(p) /\ d = Append(snap[p], [turn |-> turn[p], status |-> RUNNING])
    BY <1>4 DEF Entered
  <2>1. ledgerPc[p] = "listing" /\ turn[p] = n /\ Len(snap[p]) < n
    BY DEF BeginSession, LedgerGoto, BeginningInv
  <2>2. Without(snap[p], n) /\ Ordered(snap[p], 1..n)
    BY <2>1, <1>2 DEF OrderInv, Beginnings
  <2>3. n # 0
    BY <2>1, <1>2, LenProperties
  <2>4. n \in Turns
    BY <2>3, LedgerAssumption DEF Turns
  <2> DEFINE e == [turn |-> turn[p], status |-> RUNNING]
  <2>5. e \in Entry /\ e.turn = n
    BY <2>1, <2>4 DEF Entry, Statuses
  <2> HIDE DEF e
  <2>6. Ordered(Append(snap[p], e), 1..n)
    BY <1>2, <2>2, <2>3, <2>5, AppendOrdered
  <2> QED
    BY <2>6 DEF e
<1>5. ASSUME NEW d, Rewritten(d)
      PROVE  /\ Ordered(d, dirs)
             /\ \E c \in Docs : \A t : Without(c, t) => Without(d, t)
  <2>1. PICK p \in Processes : \E s \in Statuses : d = WithStatus(snap[p], turn[p], s)
    BY <1>5 DEF Rewritten, TypeInv, Statuses
  <2>2. PICK s \in Statuses : d = WithStatus(snap[p], turn[p], s)
    BY <2>1
  <2>3. Ordered(d, dirs)
    BY <2>2, <1>2, WithStatusOrdered DEF OrderInv
  <2>4. \A t : Without(snap[p], t) => Without(d, t)
    BY <2>2, <1>2, WithStatusTurns DEF Without
  <2> QED
    BY <2>3, <2>4, <1>2
<1>6. \A d \in Docs' : Ordered(d, dirs)
  <2> TAKE d \in Docs'
  <2> QED
    BY <1>1, <1>4, <1>5, EmptyOrdered DEF DocFrom, OrderInv
<1>7. ASSUME NEW p \in Processes, ledgerPc'[p] \in Beginnings, NEW d \in Docs' PROVE Without(d, turn'[p])
  <2>1. CASE BeginLock(p)
    <3>1. NextTurn(session) = n + 1
      BY NextTurnAfterLast, <1>2 DEF DocumentsInv
    <3>2. turn'[p] = n + 1
      BY <2>1, <3>1 DEF BeginLock, TypeInv
    <3>3. turn'[p] \notin dirs
      BY <3>2
    <3> QED
      BY <1>6, <3>3 DEF Ordered, Without
  <2>2. CASE ledgerPc[p] \in Beginnings /\ turn'[p] = turn[p]
    <3>1. \A c \in Docs : Without(c, turn[p])
      BY <2>2 DEF OrderInv
    <3>2. ~Entered(d)
      <4> SUFFICES ASSUME NEW q \in Processes, BeginSession(q) PROVE FALSE
        BY DEF Entered
      <4>1. lock = q /\ lock = p
        BY <2>2 DEF BeginSession, LedgerGoto, HolderInv, Locked, Beginnings
      <4>2. ledgerPc'[p] = "running"
        BY <4>1 DEF BeginSession, LedgerGoto, TypeInv
      <4> QED
        BY <4>2, <1>7 DEF Beginnings
    <3> QED
      BY <1>1, <1>5, <2>2, <3>1, <3>2, EmptyOrdered DEF DocFrom
  <2> QED
    BY <2>1, <2>2, <1>7, BeginningStep
<1>8. \A d \in Docs' : Ordered(d, dirs')
  BY <1>1, <1>6 DEF Ordered
<1> QED
  BY <1>7, <1>8 DEF OrderInv

-----------------------------------------------------------------------------
\* The newest turn has a directory, if any turn has one.
LEMMA LatestDir == NumberInv => Latest \in dirs \cup {0} /\ (dirs # {} => Latest \in dirs)
<1> SUFFICES ASSUME NEW n \in Nat, dirs = 1..n
             PROVE  Latest \in dirs \cup {0} /\ (dirs # {} => Latest \in dirs)
  BY DEF NumberInv
<1>1. CASE n = 0
  BY <1>1 DEF Latest, Maximum
<1>2. CASE n # 0
  <2>1. n \in dirs /\ \A m \in dirs : m \in Nat /\ m <= n
    BY <1>2
  <2> QED
    BY <2>1 DEF Latest, Maximum
<1> QED
  BY <1>1, <1>2

\* A process that starts a turn is alone with it; the only other way to a
\* turn is to adopt the newest, which is then shared.
LEMMA TurnStep ==
    TypeInv /\ HolderInv /\ NumberInv /\ TurnInv /\ [LedgerNext]_ledgerVars => TurnInv'
<1> SUFFICES ASSUME TypeInv, HolderInv, NumberInv, TurnInv, [LedgerNext]_ledgerVars,
                    NEW n \in Nat, dirs = 1..n, n <= MaxLedgerTurns,
                    DocumentsInv(n), BeginningInv(n)
             PROVE  TurnInv'
  BY DEF NumberInv
<1> USE DEF TypeInv, TurnInv, AtTurn, Alive, LedgerPcValues
<1>1. ASSUME NEW p \in Processes, OpenRead(p) PROVE TurnInv'
  BY <1>1 DEF OpenRead, LedgerGoto, disk
<1>2. ASSUME NEW p \in Processes, OpenWrite(p) PROVE TurnInv'
  BY <1>2 DEF OpenWrite, ForgetDocument, LedgerGoto, disk
<1>3. ASSUME NEW p \in Processes, BeginLock(p) PROVE TurnInv'
  <2>0. NextTurn(session) = n + 1
    BY NextTurnAfterLast DEF DocumentsInv
  <2>1. turn' = [turn EXCEPT ![p] = n + 1] /\ n + 1 \notin dirs
    BY <1>3, <2>0 DEF BeginLock
  <2>2. \A q \in Processes : ledgerPc[q] # "numbering"
    BY <1>3, LedgerAssumption DEF BeginLock, HolderInv, Locked
  <2>3. ledgerPc' = [ledgerPc EXCEPT ![p] = "numbering"] /\ dirs' = dirs /\ shared' = shared
    BY <1>3 DEF BeginLock, LedgerGoto, disk
  <2> QED
    BY <2>1, <2>2, <2>3
<1>4. ASSUME NEW p \in Processes, BeginMkdir(p) PROVE TurnInv'
  BY <1>4 DEF BeginMkdir, LedgerGoto, disk
<1>5. ASSUME NEW p \in Processes, BeginState(p) PROVE TurnInv'
  BY <1>5 DEF BeginState, LedgerGoto, disk, BeginningInv
<1>6. ASSUME NEW p \in Processes, BeginSession(p) PROVE TurnInv'
  <2>1. turn[p] = n /\ Len(snap[p]) < n /\ Len(snap[p]) \in Nat
    BY <1>6, LenProperties DEF BeginSession, LedgerGoto, BeginningInv
  <2>2. turn[p] # 0
    BY <2>1
  <2> QED
    BY <1>6, <2>2 DEF BeginSession, LedgerGoto
<1>7. ASSUME NEW p \in Processes, FinalizeReport(p) PROVE TurnInv'
  BY <1>7 DEF FinalizeReport, LedgerGoto, disk
<1>8. ASSUME NEW p \in Processes, FinalizeState(p) PROVE TurnInv'
  BY <1>8 DEF FinalizeState, LedgerGoto, UpdateState, disk
<1>9. ASSUME NEW p \in Processes, FinalizeLock(p) PROVE TurnInv'
  BY <1>9 DEF FinalizeLock, LedgerGoto, disk
<1>10. ASSUME NEW p \in Processes, FinalizeSession(p) PROVE TurnInv'
  BY <1>10 DEF FinalizeSession, ForgetDocument, LedgerGoto, disk
<1>11. ASSUME NEW p \in Processes, FinalizeRelease(p) PROVE TurnInv'
  BY <1>11 DEF FinalizeRelease, LedgerGoto, disk
<1>12. ASSUME NEW p \in Processes, ResumeSummary(p) PROVE TurnInv'
  <2>1. Latest \in dirs \cup {0} /\ (dirs # {} => Latest \in dirs)
    BY LatestDir
  <2>2. turn' = [turn EXCEPT ![p] = Latest] /\ dirs' = dirs /\ ledgerPc[p] = "ready"
    BY <1>12 DEF ResumeSummary, Adopt, LedgerGoto, disk
  <2>3. shared \subseteq shared' /\ ((\E q \in Processes \ {p} : Alive(q) /\ turn[q] = Latest) => Latest \in shared')
    BY <1>12 DEF ResumeSummary, Adopt
  <2>4. ledgerPc' = ledgerPc
    BY <1>12 DEF ResumeSummary
  <2> QED
    BY <2>1, <2>2, <2>3, <2>4
<1>13. ASSUME NEW p \in Processes, RefreshReport(p) PROVE TurnInv'
  <2>1. Latest \in dirs \cup {0} /\ (dirs # {} => Latest \in dirs)
    BY LatestDir
  <2>2. turn' = [turn EXCEPT ![p] = Latest] /\ dirs' = dirs /\ ledgerPc[p] = "ready"
    BY <1>13 DEF RefreshReport, Adopt, LedgerGoto, disk
  <2>3. shared \subseteq shared' /\ ((\E q \in Processes \ {p} : Alive(q) /\ turn[q] = Latest) => Latest \in shared')
    BY <1>13 DEF RefreshReport, Adopt
  <2>4. ledgerPc' = [ledgerPc EXCEPT ![p] = "running"] /\ turn[p] # 0
    BY <1>13 DEF RefreshReport, LedgerGoto
  <2>5. turn[p] \in dirs /\ Latest \in dirs
    BY <2>1, <2>2, <2>4
  <2>6. Latest # 0
    BY <2>5
  <2> QED
    BY <2>1, <2>2, <2>3, <2>4, <2>6
<1>14. ASSUME NEW p \in Processes, RollbackRelease(p) PROVE TurnInv'
  BY <1>14 DEF RollbackRelease, LedgerGoto, disk
<1>15. ASSUME NEW p \in Processes, RollbackState(p) PROVE TurnInv'
  BY <1>15 DEF RollbackState, LedgerGoto, UpdateState, disk
<1>16. ASSUME NEW p \in Processes, RollbackReport(p) PROVE TurnInv'
  BY <1>16 DEF RollbackReport, LedgerGoto, disk
<1>17. ASSUME NEW p \in Processes, RollbackRead(p) PROVE TurnInv'
  BY <1>17 DEF RollbackRead, LedgerGoto, disk
<1>18. ASSUME NEW p \in Processes, RollbackSession(p) PROVE TurnInv'
  BY <1>18 DEF RollbackSession, ForgetDocument, LedgerGoto, disk
<1>19. ASSUME NEW p \in Processes, LedgerCrash(p) PROVE TurnInv'
  BY <1>19 DEF LedgerCrash, ForgetDocument, LedgerGoto, Alive, disk
<1>20. CASE UNCHANGED ledgerVars
  BY <1>20 DEF ledgerVars
<1> QED
  BY <1>1, <1>2, <1>3, <1>4, <1>5, <1>6, <1>7, <1>8, <1>9, <1>10, <1>11, <1>12, <1>13, <1>14, <1>15, <1>16, <1>17, <1>18, <1>19, <1>20 DEF LedgerNext, Beginning, Finalizing, RollingBack

-----------------------------------------------------------------------------
\* Every step keeps the types of the files of the turns.
LEMMA FilesStep ==
    TypeInv /\ FilesInv /\ [LedgerNext]_ledgerVars => FilesInv' /\ failedWrites <= failedWrites' /\ shared \subseteq shared'
<1> SUFFICES ASSUME TypeInv, FilesInv, [LedgerNext]_ledgerVars
             PROVE  FilesInv' /\ failedWrites <= failedWrites' /\ shared \subseteq shared'
  OBVIOUS
<1> DEFINE Goal == FilesInv' /\ failedWrites <= failedWrites' /\ shared \subseteq shared'
<1>b. SUFFICES Goal
  OBVIOUS
<1> USE LedgerAssumption DEF TypeInv, FilesInv, Writes, Statuses
<1>c. ASSUME NEW p \in Processes, NEW status \in Statuses, UpdateState(p, status)
      PROVE  /\ state' \in [Turns -> Statuses \cup {Unwritten}]
             /\ degraded' \in [Processes -> BOOLEAN]
             /\ failedWrites' \in Nat /\ failedWrites <= failedWrites'
  <2>1. CASE degraded[p]
    BY <1>c, <2>1 DEF UpdateState
  <2>2. CASE ~degraded[p]
    <3>1. PICK ok \in BOOLEAN :
             /\ Writes(ok)
             /\ state' = IF ok THEN [state EXCEPT ![turn[p]] = status] ELSE state
             /\ degraded' = [degraded EXCEPT ![p] = ~ok]
      BY <1>c, <2>2 DEF UpdateState
    <3>2. state' \in [Turns -> Statuses \cup {Unwritten}]
      BY <3>1
    <3>3. degraded' \in [Processes -> BOOLEAN]
      BY <3>1
    <3> QED
      BY <3>1, <3>2, <3>3
  <2> QED
    BY <2>1, <2>2
<1>1. ASSUME NEW p \in Processes, OpenRead(p) PROVE Goal
  BY <1>1 DEF OpenRead, LedgerGoto, disk
<1>2. ASSUME NEW p \in Processes, OpenWrite(p) PROVE Goal
  BY <1>2 DEF OpenWrite, ForgetDocument, LedgerGoto, disk
<1>3. ASSUME NEW p \in Processes, BeginLock(p) PROVE Goal
  BY <1>3 DEF BeginLock, LedgerGoto, disk
<1>4. ASSUME NEW p \in Processes, BeginMkdir(p) PROVE Goal
  BY <1>4 DEF BeginMkdir, LedgerGoto, disk
<1>5. ASSUME NEW p \in Processes, BeginState(p) PROVE Goal
  <2>1. PICK ok \in BOOLEAN : Writes(ok) /\ state' = IF ok THEN [state EXCEPT ![turn[p]] = RUNNING] ELSE state
    BY <1>5 DEF BeginState
  <2>2. state' \in [Turns -> Statuses \cup {Unwritten}]
    BY <2>1
  <2> QED
    BY <1>5, <2>1, <2>2 DEF BeginState
<1>6. ASSUME NEW p \in Processes, BeginSession(p) PROVE Goal
  BY <1>6 DEF BeginSession, ForgetDocument, LedgerGoto, disk
<1>7. ASSUME NEW p \in Processes, FinalizeReport(p) PROVE Goal
  <2>1. PICK status \in Outcomes, ok \in BOOLEAN :
           Writes(ok) /\ report' = IF ok THEN [report EXCEPT ![turn[p]] = status] ELSE report
    BY <1>7 DEF FinalizeReport
  <2>2. report' \in [Turns -> Statuses \cup {Unwritten}]
    BY <2>1
  <2> QED
    BY <1>7, <2>1, <2>2 DEF FinalizeReport
<1>8. ASSUME NEW p \in Processes, FinalizeState(p) PROVE Goal
  <2>1. decided[p] \in Statuses /\ UpdateState(p, decided[p])
    BY <1>8 DEF FinalizeState
  <2> QED
    BY <1>8, <2>1, <1>c DEF FinalizeState
<1>9. ASSUME NEW p \in Processes, FinalizeLock(p) PROVE Goal
  BY <1>9 DEF FinalizeLock, LedgerGoto, disk
<1>10. ASSUME NEW p \in Processes, FinalizeSession(p) PROVE Goal
  BY <1>10 DEF FinalizeSession, ForgetDocument, LedgerGoto, disk
<1>11. ASSUME NEW p \in Processes, FinalizeRelease(p) PROVE Goal
  BY <1>11 DEF FinalizeRelease, LedgerGoto, disk
<1>12. ASSUME NEW p \in Processes, ResumeSummary(p) PROVE Goal
  BY <1>12 DEF ResumeSummary, Adopt, LedgerGoto, disk
<1>13. ASSUME NEW p \in Processes, RefreshReport(p) PROVE Goal
  BY <1>13 DEF RefreshReport, Adopt, LedgerGoto, disk
<1>14. ASSUME NEW p \in Processes, RollbackRelease(p) PROVE Goal
  BY <1>14 DEF RollbackRelease, LedgerGoto, disk
<1>15. ASSUME NEW p \in Processes, RollbackState(p) PROVE Goal
  <2>1. UpdateState(p, ROLLED_BACK)
    BY <1>15 DEF RollbackState
  <2> QED
    BY <1>15, <2>1, <1>c DEF RollbackState
<1>16. ASSUME NEW p \in Processes, RollbackReport(p) PROVE Goal
  <2>1. PICK ok \in BOOLEAN :
           /\ Writes(ok)
           /\ report' = IF ok /\ report[turn[p]] # Unwritten
                        THEN [report EXCEPT ![turn[p]] = ROLLED_BACK] ELSE report
    BY <1>16 DEF RollbackReport
  <2>2. report' \in [Turns -> Statuses \cup {Unwritten}]
    BY <2>1
  <2> QED
    BY <1>16, <2>1, <2>2 DEF RollbackReport
<1>17. ASSUME NEW p \in Processes, RollbackRead(p) PROVE Goal
  BY <1>17 DEF RollbackRead, LedgerGoto, disk
<1>18. ASSUME NEW p \in Processes, RollbackSession(p) PROVE Goal
  BY <1>18 DEF RollbackSession, ForgetDocument, LedgerGoto, disk
<1>19. ASSUME NEW p \in Processes, LedgerCrash(p) PROVE Goal
  BY <1>19 DEF LedgerCrash, ForgetDocument, LedgerGoto, Alive, disk
<1>20. CASE UNCHANGED ledgerVars
  BY <1>20 DEF ledgerVars
<1> QED
  BY <1>1, <1>2, <1>3, <1>4, <1>5, <1>6, <1>7, <1>8, <1>9, <1>10, <1>11, <1>12, <1>13, <1>14, <1>15, <1>16, <1>17, <1>18, <1>19, <1>20 DEF LedgerNext, Beginning, Finalizing, RollingBack

-----------------------------------------------------------------------------
\* A process is about to write a closed status because it has just written
\* the file before it, or because it already was.
LEMMA AfterStep ==
    TypeInv /\ [LedgerNext]_ledgerVars =>
        \A q \in Processes :
            /\ ledgerPc'[q] \in AfterReport =>
                  \/ FinalizeReport(q)
                  \/ ledgerPc[q] \in AfterReport /\ turn'[q] = turn[q] /\ decided'[q] = decided[q]
            /\ ledgerPc'[q] \in AfterState =>
                  \/ FinalizeState(q) \/ RollbackState(q)
                  \/ ledgerPc[q] \in AfterState /\ turn'[q] = turn[q]
<1> SUFFICES ASSUME TypeInv, [LedgerNext]_ledgerVars, NEW q \in Processes
             PROVE  /\ ledgerPc'[q] \in AfterReport =>
                          \/ FinalizeReport(q)
                          \/ ledgerPc[q] \in AfterReport /\ turn'[q] = turn[q] /\ decided'[q] = decided[q]
                    /\ ledgerPc'[q] \in AfterState =>
                          \/ FinalizeState(q) \/ RollbackState(q)
                          \/ ledgerPc[q] \in AfterState /\ turn'[q] = turn[q]
  OBVIOUS
<1> DEFINE Goal == /\ ledgerPc'[q] \in AfterReport =>
                          \/ FinalizeReport(q)
                          \/ ledgerPc[q] \in AfterReport /\ turn'[q] = turn[q] /\ decided'[q] = decided[q]
                   /\ ledgerPc'[q] \in AfterState =>
                          \/ FinalizeState(q) \/ RollbackState(q)
                          \/ ledgerPc[q] \in AfterState /\ turn'[q] = turn[q]
<1>b. SUFFICES Goal
  OBVIOUS
<1> USE DEF TypeInv, LedgerPcValues, AfterReport, AfterState
<1>1. ASSUME NEW p \in Processes, OpenRead(p) PROVE Goal
  BY <1>1 DEF OpenRead, LedgerGoto, disk
<1>2. ASSUME NEW p \in Processes, OpenWrite(p) PROVE Goal
  BY <1>2 DEF OpenWrite, ForgetDocument, LedgerGoto, disk
<1>3. ASSUME NEW p \in Processes, BeginLock(p) PROVE Goal
  BY <1>3 DEF BeginLock, LedgerGoto, disk
<1>4. ASSUME NEW p \in Processes, BeginMkdir(p) PROVE Goal
  BY <1>4 DEF BeginMkdir, LedgerGoto, disk
<1>5. ASSUME NEW p \in Processes, BeginState(p) PROVE Goal
  BY <1>5 DEF BeginState, LedgerGoto, disk
<1>6. ASSUME NEW p \in Processes, BeginSession(p) PROVE Goal
  BY <1>6 DEF BeginSession, ForgetDocument, LedgerGoto, disk
<1>7. ASSUME NEW p \in Processes, FinalizeReport(p) PROVE Goal
  BY <1>7 DEF FinalizeReport, LedgerGoto
<1>8. ASSUME NEW p \in Processes, FinalizeState(p) PROVE Goal
  BY <1>8 DEF FinalizeState, LedgerGoto
<1>9. ASSUME NEW p \in Processes, FinalizeLock(p) PROVE Goal
  BY <1>9 DEF FinalizeLock, LedgerGoto, disk
<1>10. ASSUME NEW p \in Processes, FinalizeSession(p) PROVE Goal
  BY <1>10 DEF FinalizeSession, ForgetDocument, LedgerGoto, disk
<1>11. ASSUME NEW p \in Processes, FinalizeRelease(p) PROVE Goal
  BY <1>11 DEF FinalizeRelease, LedgerGoto, disk
<1>12. ASSUME NEW p \in Processes, ResumeSummary(p) PROVE Goal
  BY <1>12 DEF ResumeSummary, Adopt, LedgerGoto, disk
<1>13. ASSUME NEW p \in Processes, RefreshReport(p) PROVE Goal
  BY <1>13 DEF RefreshReport, Adopt, LedgerGoto, disk
<1>14. ASSUME NEW p \in Processes, RollbackRelease(p) PROVE Goal
  BY <1>14 DEF RollbackRelease, LedgerGoto, disk
<1>15. ASSUME NEW p \in Processes, RollbackState(p) PROVE Goal
  BY <1>15 DEF RollbackState, LedgerGoto
<1>16. ASSUME NEW p \in Processes, RollbackReport(p) PROVE Goal
  BY <1>16 DEF RollbackReport, LedgerGoto, disk
<1>17. ASSUME NEW p \in Processes, RollbackRead(p) PROVE Goal
  BY <1>17 DEF RollbackRead, LedgerGoto, disk
<1>18. ASSUME NEW p \in Processes, RollbackSession(p) PROVE Goal
  BY <1>18 DEF RollbackSession, ForgetDocument, LedgerGoto, disk
<1>19. ASSUME NEW p \in Processes, LedgerCrash(p) PROVE Goal
  BY <1>19 DEF LedgerCrash, ForgetDocument, LedgerGoto, Alive, disk
<1>20. CASE UNCHANGED ledgerVars
  BY <1>20 DEF ledgerVars
<1> QED
  BY <1>1, <1>2, <1>3, <1>4, <1>5, <1>6, <1>7, <1>8, <1>9, <1>10, <1>11, <1>12, <1>13, <1>14, <1>15, <1>16, <1>17, <1>18, <1>19, <1>20 DEF LedgerNext, Beginning, Finalizing, RollingBack

\* What a write of state.json leaves, when no write has failed.
LEMMA UpdateStateWrites ==
    ASSUME FilesInv, NEW p \in Processes, ~degraded[p], failedWrites = 0, failedWrites' = 0,
           NEW status \in Statuses, UpdateState(p, status)
    PROVE  /\ state' = [state EXCEPT ![turn[p]] = status]
           /\ degraded' = [degraded EXCEPT ![p] = FALSE]
<1>1. PICK ok \in BOOLEAN :
         /\ Writes(ok)
         /\ state' = IF ok THEN [state EXCEPT ![turn[p]] = status] ELSE state
         /\ degraded' = [degraded EXCEPT ![p] = ~ok]
  BY DEF UpdateState
<1>2. ok
  BY <1>1 DEF Writes
<1> QED
  BY <1>1, <1>2

\* As long as no write fails, no process is degraded, a closed state stays
\* closed until a turn begins, and a report stays.
FilesKept ==
    /\ \A q \in Processes : ~degraded'[q]
    /\ \A t \in Turns : /\ Reported(t) => Reported(t)'
                        /\ StateClosed(t) =>
                              \/ StateClosed(t)'
                              \/ \E q \in Processes : BeginState(q) /\ t = turn[q]

LEMMA KeptStep ==
    TypeInv /\ FilesInv /\ FilesFirst /\ failedWrites = 0 /\ failedWrites' = 0 /\ [LedgerNext]_ledgerVars => FilesKept
<1> SUFFICES ASSUME TypeInv, FilesInv, FilesFirst, failedWrites = 0, failedWrites' = 0, [LedgerNext]_ledgerVars
             PROVE  FilesKept
  OBVIOUS
<1>a. /\ \A q \in Processes : degraded[q] = FALSE
      /\ \A q \in Processes : ledgerPc[q] \in AfterReport => decided[q] \in Outcomes
  BY DEF FilesFirst, FilesInv
<1>b. shared \subseteq shared'
  BY FilesStep
<1> USE <1>a DEF TypeInv, FilesInv, FilesKept, Reported, StateClosed
<1>c. ASSUME NEW p \in Processes, NEW status \in Statuses \ {RUNNING}, UpdateState(p, status), report' = report
      PROVE  FilesKept
  <2>1. /\ state' = [state EXCEPT ![turn[p]] = status]
        /\ degraded' = [degraded EXCEPT ![p] = FALSE]
    BY <1>c, UpdateStateWrites
  <2>2. status # Unwritten
    BY LedgerAssumption DEF Statuses, RUNNING, ROLLED_BACK, Unwritten
  <2>3. \A t \in Turns : state[t] \notin {Unwritten, RUNNING} => state'[t] \notin {Unwritten, RUNNING}
    BY <2>1, <2>2
  <2> QED
    BY <2>1, <2>3, <1>b, <1>c
<1>1. ASSUME NEW p \in Processes, OpenRead(p) PROVE FilesKept
  BY <1>1, <1>b DEF OpenRead, LedgerGoto, disk
<1>2. ASSUME NEW p \in Processes, OpenWrite(p) PROVE FilesKept
  <2>1. PICK ok \in BOOLEAN : Writes(ok) /\ degraded' = [degraded EXCEPT ![p] = ~ok]
    BY <1>2 DEF OpenWrite
  <2>2. ok
    BY <2>1 DEF Writes
  <2> QED
    BY <1>2, <1>b, <2>1, <2>2 DEF OpenWrite
<1>3. ASSUME NEW p \in Processes, BeginLock(p) PROVE FilesKept
  BY <1>3, <1>b DEF BeginLock, LedgerGoto, disk
<1>4. ASSUME NEW p \in Processes, BeginMkdir(p) PROVE FilesKept
  BY <1>4, <1>b DEF BeginMkdir, LedgerGoto, disk
<1>5. ASSUME NEW p \in Processes, BeginState(p) PROVE FilesKept
  <2>1. PICK ok \in BOOLEAN : state' = IF ok THEN [state EXCEPT ![turn[p]] = RUNNING] ELSE state
    BY <1>5 DEF BeginState
  <2>2. \A t \in Turns : t # turn[p] => state'[t] = state[t]
    BY <2>1
  <2>3. degraded' = degraded /\ report' = report
    BY <1>5 DEF BeginState
  <2> QED
    BY <1>5, <1>b, <2>2, <2>3
<1>6. ASSUME NEW p \in Processes, BeginSession(p) PROVE FilesKept
  BY <1>6, <1>b DEF BeginSession, ForgetDocument, LedgerGoto, disk
<1>7. ASSUME NEW p \in Processes, FinalizeReport(p) PROVE FilesKept
  <2>1. PICK status \in Outcomes, ok \in BOOLEAN :
           report' = IF ok THEN [report EXCEPT ![turn[p]] = status] ELSE report
    BY <1>7 DEF FinalizeReport
  <2>2. \A t \in Turns : report[t] # Unwritten => report'[t] # Unwritten
    BY <2>1, LedgerAssumption
  <2>3. degraded' = degraded /\ state' = state
    BY <1>7 DEF FinalizeReport
  <2> QED
    BY <1>b, <2>2, <2>3
<1>8. ASSUME NEW p \in Processes, FinalizeState(p) PROVE FilesKept
  <2>1. decided[p] \in Outcomes /\ UpdateState(p, decided[p]) /\ report' = report
    BY <1>8 DEF FinalizeState, LedgerGoto, AfterReport
  <2>2. decided[p] \in Statuses \ {RUNNING}
    BY <2>1, LedgerAssumption DEF Statuses
  <2> QED
    BY <2>1, <2>2, <1>c
<1>9. ASSUME NEW p \in Processes, FinalizeLock(p) PROVE FilesKept
  BY <1>9, <1>b DEF FinalizeLock, LedgerGoto, disk
<1>10. ASSUME NEW p \in Processes, FinalizeSession(p) PROVE FilesKept
  BY <1>10, <1>b DEF FinalizeSession, ForgetDocument, LedgerGoto, disk
<1>11. ASSUME NEW p \in Processes, FinalizeRelease(p) PROVE FilesKept
  BY <1>11, <1>b DEF FinalizeRelease, LedgerGoto, disk
<1>12. ASSUME NEW p \in Processes, ResumeSummary(p) PROVE FilesKept
  BY <1>12, <1>b DEF ResumeSummary, Adopt, LedgerGoto, disk
<1>13. ASSUME NEW p \in Processes, RefreshReport(p) PROVE FilesKept
  BY <1>13, <1>b DEF RefreshReport, Adopt, LedgerGoto, disk
<1>14. ASSUME NEW p \in Processes, RollbackRelease(p) PROVE FilesKept
  BY <1>14, <1>b DEF RollbackRelease, LedgerGoto, disk
<1>15. ASSUME NEW p \in Processes, RollbackState(p) PROVE FilesKept
  <2>1. UpdateState(p, ROLLED_BACK) /\ report' = report
    BY <1>15 DEF RollbackState
  <2>2. ROLLED_BACK \in Statuses \ {RUNNING}
    BY DEF Statuses, ROLLED_BACK, RUNNING
  <2> QED
    BY <2>1, <2>2, <1>c
<1>16. ASSUME NEW p \in Processes, RollbackReport(p) PROVE FilesKept
  <2>1. PICK ok \in BOOLEAN :
           report' = IF ok /\ report[turn[p]] # Unwritten
                     THEN [report EXCEPT ![turn[p]] = ROLLED_BACK] ELSE report
    BY <1>16 DEF RollbackReport
  <2>2. \A t \in Turns : report[t] # Unwritten => report'[t] # Unwritten
    BY <2>1 DEF ROLLED_BACK, Unwritten
  <2>3. degraded' = degraded /\ state' = state
    BY <1>16 DEF RollbackReport
  <2> QED
    BY <1>b, <2>2, <2>3
<1>17. ASSUME NEW p \in Processes, RollbackRead(p) PROVE FilesKept
  BY <1>17, <1>b DEF RollbackRead, LedgerGoto, disk
<1>18. ASSUME NEW p \in Processes, RollbackSession(p) PROVE FilesKept
  BY <1>18, <1>b DEF RollbackSession, ForgetDocument, LedgerGoto, disk
<1>19. ASSUME NEW p \in Processes, LedgerCrash(p) PROVE FilesKept
  BY <1>19, <1>b DEF LedgerCrash, ForgetDocument, LedgerGoto, Alive, disk
<1>20. CASE UNCHANGED ledgerVars
  BY <1>20, <1>b DEF ledgerVars
<1> QED
  BY <1>1, <1>2, <1>3, <1>4, <1>5, <1>6, <1>7, <1>8, <1>9, <1>10, <1>11, <1>12, <1>13, <1>14, <1>15, <1>16, <1>17, <1>18, <1>19, <1>20 DEF LedgerNext, Beginning, Finalizing, RollingBack

-----------------------------------------------------------------------------
\* An operation closes a turn in a document only after its files are closed.
LEMMA NewDocsClosed ==
    TypeInv /\ FilesFirst /\ [LedgerNext]_ledgerVars => \A d \in Docs' : ClosedDoc(d)
<1> SUFFICES ASSUME TypeInv, FilesFirst, [LedgerNext]_ledgerVars, NEW d \in Docs' PROVE ClosedDoc(d)
  OBVIOUS
<1>1. \A p \in Processes : snap[p] \in Seq(Entry) /\ ClosedDoc(snap[p])
  BY DEF TypeInv, FilesFirst, Docs
<1>2. CASE d \in Docs
  BY <1>2 DEF FilesFirst
<1>3. CASE d = <<>>
  BY <1>3 DEF ClosedDoc
<1>4. CASE Entered(d)
  <2> PICK p \in Processes : d = Append(snap[p], [turn |-> turn[p], status |-> RUNNING])
    BY <1>4 DEF Entered
  <2> DEFINE e == [turn |-> turn[p], status |-> RUNNING]
  <2>1. e.status = RUNNING
    OBVIOUS
  <2> HIDE DEF e
  <2>2. Len(snap[p]) \in Nat /\ DOMAIN snap[p] = 1..Len(snap[p])
    BY <1>1, LenProperties
  <2>3. /\ DOMAIN Append(snap[p], e) = 1..(Len(snap[p]) + 1)
        /\ \A i \in 1..Len(snap[p]) : Append(snap[p], e)[i] = snap[p][i]
        /\ Append(snap[p], e)[Len(snap[p]) + 1] = e
    BY <1>1, <2>2
  <2>4. ClosedDoc(Append(snap[p], e))
    BY <1>1, <2>1, <2>2, <2>3 DEF ClosedDoc
  <2> QED
    BY <2>4 DEF e
<1>5. CASE Rewritten(d)
  <2>1. PICK p \in Processes :
           \/ FinalizeSession(p) /\ d = WithStatus(snap[p], turn[p], decided[p])
           \/ RollbackSession(p) /\ d = WithStatus(snap[p], turn[p], ROLLED_BACK)
    BY <1>5 DEF Rewritten
  <2>2. \E s \in Statuses :
           /\ d = WithStatus(snap[p], turn[p], s)
           /\ StateClosed(turn[p])
           /\ s \in Outcomes => Reported(turn[p])
    <3>1. CASE FinalizeSession(p) /\ d = WithStatus(snap[p], turn[p], decided[p])
      BY <3>1 DEF FinalizeSession, LedgerGoto, FilesFirst, AfterReport, AfterState, TypeInv
    <3>2. CASE RollbackSession(p) /\ d = WithStatus(snap[p], turn[p], ROLLED_BACK)
      <4>1. ROLLED_BACK \in Statuses /\ ROLLED_BACK \notin Outcomes
        BY LedgerAssumption DEF Statuses
      <4> QED
        BY <3>2, <4>1 DEF RollbackSession, LedgerGoto, FilesFirst, AfterState
    <3> QED
      BY <2>1, <3>1, <3>2
  <2>3. PICK s \in Statuses :
           /\ d = WithStatus(snap[p], turn[p], s)
           /\ StateClosed(turn[p])
           /\ s \in Outcomes => Reported(turn[p])
    BY <2>2
  <2> QED
    BY <2>3, <1>1, WithStatusTurns DEF ClosedDoc
<1> QED
  BY <1>2, <1>3, <1>4, <1>5, DocsStep DEF DocFrom

\* As long as no write fails, documents stay behind the files of the turns.
LEMMA ClosedStep == DocsInv /\ TypeInv' /\ OrderInv' /\ [LedgerNext]_ledgerVars => ClosedInv'
<1> SUFFICES ASSUME DocsInv, TypeInv', OrderInv', [LedgerNext]_ledgerVars, failedWrites' = 0
             PROVE  FilesFirst'
  BY DEF ClosedInv
<1>1. TypeInv /\ FilesInv /\ OrderInv /\ TurnInv /\ ClosedInv
  BY DEF DocsInv, Inv
<1>2. failedWrites = 0 /\ FilesFirst
  BY <1>1, FilesStep DEF FilesInv, ClosedInv
<1>3. FilesKept
  BY <1>1, <1>2, KeptStep
<1>4. \A q \in Processes : ~degraded'[q]
  BY <1>3 DEF FilesKept
<1>5. ASSUME NEW d \in Docs' PROVE ClosedDoc(d)'
  <2>1. ClosedDoc(d)
    BY <1>1, <1>2, NewDocsClosed
  <2>2. \A i \in DOMAIN d : d[i].turn \in Turns
    BY DEF OrderInv, Ordered, TypeInv
  <2>3. ASSUME NEW q \in Processes, BeginState(q) PROVE Without(d, turn[q])
    <3>1. Docs' = Docs /\ ledgerPc[q] \in Beginnings
      BY <2>3 DEF BeginState, LedgerGoto, Beginnings, Docs
    <3> QED
      BY <3>1, <1>1 DEF OrderInv
  <2>4. \A i \in DOMAIN d : StateClosed(d[i].turn) => StateClosed(d[i].turn)'
    BY <1>3, <2>2, <2>3 DEF FilesKept, Without
  <2>5. \A i \in DOMAIN d : Reported(d[i].turn) => Reported(d[i].turn)'
    BY <1>3, <2>2 DEF FilesKept
  <2> QED
    BY <2>1, <2>4, <2>5 DEF ClosedDoc
<1>6. \A q \in Processes : ledgerPc[q] \in AtTurn => turn[q] \in Turns
  BY <1>1 DEF TurnInv, TypeInv, AtTurn
<1>7. ASSUME NEW q \in Processes, ledgerPc'[q] \in AfterReport
      PROVE  decided'[q] \in Outcomes /\ Reported(turn[q])' 
  <2>1. CASE FinalizeReport(q)
    <3>1. PICK status \in Outcomes, ok \in BOOLEAN :
             /\ Writes(ok)
             /\ decided' = [decided EXCEPT ![q] = status]
             /\ report' = IF ok THEN [report EXCEPT ![turn[q]] = status] ELSE report
      BY <2>1 DEF FinalizeReport
    <3>2. ok
      BY <3>1, <1>2 DEF Writes
    <3>3. turn'[q] = turn[q] /\ turn[q] \in Turns
      BY <2>1, <1>6 DEF FinalizeReport, LedgerGoto, AtTurn
    <3> QED
      BY <1>1, <3>1, <3>2, <3>3, LedgerAssumption DEF Reported, FilesInv, TypeInv
  <2>2. CASE ledgerPc[q] \in AfterReport /\ turn'[q] = turn[q] /\ decided'[q] = decided[q]
    <3>1. turn[q] \in Turns /\ decided[q] \in Outcomes /\ Reported(turn[q])
      BY <2>2, <1>2, <1>6 DEF FilesFirst, AfterReport, AtTurn
    <3> QED
      BY <2>2, <3>1, <1>3 DEF FilesKept, Reported
  <2> QED
    BY <1>1, <1>7, <2>1, <2>2, AfterStep
<1>8. ASSUME NEW q \in Processes, ledgerPc'[q] \in AfterState PROVE StateClosed(turn[q])'
  <2>1. ASSUME NEW s \in Statuses \ {RUNNING}, UpdateState(q, s), turn'[q] = turn[q], turn[q] \in Turns
        PROVE  StateClosed(turn[q])'
    <3>1. state' = [state EXCEPT ![turn[q]] = s]
      BY <2>1, <1>1, <1>2, UpdateStateWrites DEF FilesFirst
    <3>2. s # Unwritten
      BY LedgerAssumption DEF Statuses, RUNNING, ROLLED_BACK, Unwritten
    <3> QED
      BY <2>1, <3>1, <3>2, <1>1 DEF StateClosed, FilesInv
  <2>2. CASE FinalizeState(q)
    <3>1. decided[q] \in Outcomes /\ UpdateState(q, decided[q]) /\ turn'[q] = turn[q]
      BY <2>2, <1>2 DEF FinalizeState, LedgerGoto, FilesFirst, AfterReport
    <3>2. decided[q] \in Statuses \ {RUNNING} /\ turn[q] \in Turns
      BY <2>2, <3>1, <1>6, LedgerAssumption DEF Statuses, FinalizeState, LedgerGoto, AtTurn
    <3> QED
      BY <3>1, <3>2, <2>1
  <2>3. CASE RollbackState(q)
    <3>1. UpdateState(q, ROLLED_BACK) /\ turn'[q] = turn[q] /\ turn[q] \in Turns
      BY <2>3, <1>6 DEF RollbackState, LedgerGoto, AtTurn
    <3>2. ROLLED_BACK \in Statuses \ {RUNNING}
      BY DEF Statuses, ROLLED_BACK, RUNNING
    <3> QED
      BY <3>1, <3>2, <2>1
  <2>4. CASE ledgerPc[q] \in AfterState /\ turn'[q] = turn[q]
    <3>1. StateClosed(turn[q]) /\ ledgerPc[q] \in AtTurn /\ turn[q] \in Turns
      BY <2>4, <1>2, <1>6 DEF FilesFirst, AfterState, AtTurn
    <3>2. ASSUME NEW r \in Processes, BeginState(r), turn[q] = turn[r] PROVE StateClosed(turn[q])'
      <4>1. ledgerPc[r] = "starting" /\ shared' = shared
        BY <3>2 DEF BeginState, LedgerGoto
      <4>2. r # q /\ Alive(r) /\ Alive(q) /\ turn[q] # 0
        BY <2>4, <3>1, <4>1, <1>1 DEF AfterState, Alive, TurnInv
      <4>3. turn[q] \in shared
        BY <4>2, <3>2, <1>1 DEF TurnInv
      <4> QED
        BY <2>4, <4>1, <4>3 DEF StateClosed
    <3> QED
      BY <2>4, <3>1, <3>2, <1>3 DEF FilesKept, StateClosed
  <2> QED
    BY <1>1, <1>8, <2>2, <2>3, <2>4, AfterStep
<1> QED
  BY <1>4, <1>5, <1>7, <1>8 DEF FilesFirst

\* The empty session satisfies the invariant of its documents.
LEMMA InitDocs == LedgerInit => DocsInv
<1> SUFFICES ASSUME LedgerInit PROVE DocsInv
  OBVIOUS
<1>1. Docs \subseteq {<<>>}
  BY DEF LedgerInit, Docs
<1>2. OrderInv
  BY <1>1, EmptyOrdered DEF LedgerInit, OrderInv, Beginnings
<1>3. TurnInv
  BY DEF LedgerInit, TurnInv, AtTurn
<1>4. FilesInv
  BY DEF LedgerInit, FilesInv
<1>5. \A d \in Docs : ClosedDoc(d)
  BY <1>1 DEF ClosedDoc
<1>6. ClosedInv
  BY <1>5 DEF LedgerInit, ClosedInv, FilesFirst, AfterReport, AfterState
<1> QED
  BY <1>2, <1>3, <1>4, <1>6, InitInv DEF DocsInv

\* Every reachable state of the ledger satisfies it.
THEOREM DocsInvHolds == LedgerSpec => []DocsInv
<1>1. DocsInv /\ [LedgerNext]_ledgerVars => DocsInv'
  <2> SUFFICES ASSUME DocsInv, [LedgerNext]_ledgerVars PROVE DocsInv'
    OBVIOUS
  <2>1. Inv'
    BY TypeStep, HolderStep, NumberStep, BeginningIsATurn DEF Inv, DocsInv
  <2>2. FilesInv' /\ OrderInv' /\ TurnInv'
    BY FilesStep, OrderStep, TurnStep DEF Inv, DocsInv
  <2>3. ClosedInv'
    BY <2>1, <2>2, ClosedStep DEF Inv
  <2> QED
    BY <2>1, <2>2, <2>3 DEF DocsInv
<1> QED
  BY <1>1, InitDocs, PTL DEF LedgerSpec

\* What the files of a session promise together.  Every session.json ever
\* written lists existing turns in order and without repetition, although
\* two operations write back an old copy of it; and a turn that it calls
\* finished or rolled back is closed in state.json and has its report,
\* wherever a process was killed, unless a write failed or two live
\* processes had the turn.
THEOREM SessionSoundHolds == LedgerSpec => []SessionSound
<1>1. DocsInv => FreshTurn
  BY DEF DocsInv, Inv, NumberInv, BeginningInv, FreshTurn
<1>2. DocsInv => SessionOrdered
  BY DEF DocsInv, OrderInv, Docs, Ordered, SessionOrdered
<1>3. DocsInv => ClosedOnDisk
  BY DEF DocsInv, ClosedInv, FilesFirst, ClosedDoc, StateClosed, Reported, Docs, ClosedOnDisk
<1> QED
  BY <1>1, <1>2, <1>3, DocsInvHolds, PTL DEF SessionSound

(***************************************************************************)
(* EngineeringMemory: the records of a session keep what was saved.        *)
(***************************************************************************)

ItemSets == SUBSET (Brains \X Nat)
MemoryTypes ==
    /\ key \in {"none", "empty"} \cup Brains /\ held \in [Brains -> {"none"} \cup Brains]
    /\ brainPc \in [Brains -> {"off", "keying", "made", "idle", "creating"}]
    /\ memoryFile \in [seq : Nat, items : ItemSets] /\ seen \in [Brains -> Nat]
    /\ mine \in [Brains -> [seq : Nat, items : ItemSets, ahead : BOOLEAN]]
    /\ horizon \in [seq : Nat, phase : Phases]
    /\ own \in [Brains -> [seq : Nat, phase : Phases, ahead : BOOLEAN]]
    /\ itemsMade \in Nat

\* One process makes the key, and the others find it.
KeyMadeOnce ==
    /\ \A p \in Brains : held[p] # "none" => held[p] = key
    /\ \A p \in Brains : brainPc[p] = "made" => key = "empty"
    /\ \A p, q \in Brains : brainPc[p] = "made" /\ brainPc[q] = "made" => p = q

\* A copy is no newer than its file, and holds what a file of its sequence does, unless a write of
\* the copy failed.
CopyFollows(copy, file) ==
    ~copy.ahead =>
        /\ copy.seq <= file.seq
        /\ copy.seq = file.seq => file.items \subseteq copy.items
StateFollows(known, file) ==
    ~known.ahead =>
        /\ known.seq <= file.seq
        /\ known.seq = file.seq => known.phase = file.phase
CopiesFollow ==
    /\ memoryFile.seq = 0 => memoryFile.items = {}
    /\ \A p \in Brains : CopyFollows(mine[p], memoryFile)
StatesFollow ==
    /\ horizon.seq = 0 => horizon.phase = "RESEARCH"
    /\ \A p \in Brains : StateFollows(own[p], horizon)

MemoryInv == MemoryTypes /\ KeyMadeOnce /\ CopiesFollow /\ StatesFollow

\* What a save does to the copies and to the file: refused or failed, or written.
LEMMA SaveCases ==
    ASSUME MemoryInv, NEW p \in Brains, NEW deep \in BOOLEAN, SaveCopy(p, deep)
    PROVE  /\ mine' \in [Brains -> [seq : Nat, items : ItemSets, ahead : BOOLEAN]]
           /\ \A q \in Brains \ {p} : mine'[q] = mine[q]
           /\ \/ /\ memoryFile' = memoryFile
                 /\ ~mine'[p].ahead =>
                        /\ ~mine[p].ahead /\ mine'[p].seq = mine[p].seq
                        /\ mine[p].items \subseteq mine'[p].items
              \/ /\ memoryFile.seq <= mine[p].seq
                 /\ memoryFile' \in [seq : Nat, items : ItemSets]
                 /\ memoryFile'.seq = mine[p].seq + 1 /\ mine'[p].seq = memoryFile'.seq
                 /\ mine[p].items \subseteq memoryFile'.items /\ mine'[p].items = memoryFile'.items
<1> DEFINE more == mine[p].items \cup {<<p, itemsMade + 1>>}
           copy == [mine[p] EXCEPT !.items = @ \cup {<<p, itemsMade + 1>>}]
           next == [copy EXCEPT !.seq = @ + 1]
           late == [next EXCEPT !.ahead = TRUE]
<1>1. mine[p] \in [seq : Nat, items : ItemSets, ahead : BOOLEAN] /\ itemsMade \in Nat
      /\ mine \in [Brains -> [seq : Nat, items : ItemSets, ahead : BOOLEAN]]
      /\ memoryFile.seq \in Nat
  BY DEF MemoryInv, MemoryTypes
<1>2. more \in ItemSets
  BY <1>1 DEF ItemSets
<1>3. /\ copy \in [seq : Nat, items : ItemSets, ahead : BOOLEAN]
      /\ copy.seq = mine[p].seq /\ copy.items = more /\ copy.ahead = mine[p].ahead
  <2> HIDE DEF more
  <2>1. copy = [mine[p] EXCEPT !.items = more]
    BY DEF more
  <2> QED BY <1>1, <1>2, <2>1
<1>4. /\ next \in [seq : Nat, items : ItemSets, ahead : BOOLEAN]
      /\ next.seq = mine[p].seq + 1 /\ next.items = more
  <2> HIDE DEF more, copy
  <2> QED BY <1>1, <1>2, <1>3
<1>5. late \in [seq : Nat, items : ItemSets, ahead : BOOLEAN] /\ late.ahead
  <2> HIDE DEF more, copy, next
  <2> QED BY <1>1, <1>2, <1>4
<1>6. mine[p].items \subseteq more
  OBVIOUS
<1>7. \/ Stale(copy.seq) /\ memoryFile' = memoryFile
         /\ mine' = IF deep THEN mine ELSE [mine EXCEPT ![p] = copy]
      \/ ~Stale(copy.seq) /\ memoryFile' = [seq |-> next.seq, items |-> next.items]
         /\ mine' = [mine EXCEPT ![p] = CopyOf(memoryFile')]
      \/ memoryFile' = memoryFile
         /\ mine' = IF deep THEN mine ELSE [mine EXCEPT ![p] = late]
  BY Zenon DEF SaveCopy
<1> HIDE DEF more, copy, next, late
<1>8. CASE memoryFile' = memoryFile /\ mine' = mine
  BY <1>1, <1>8
<1>9. CASE memoryFile' = memoryFile /\ mine' = [mine EXCEPT ![p] = copy]
  BY <1>1, <1>3, <1>6, <1>9
<1>10. CASE memoryFile' = memoryFile /\ mine' = [mine EXCEPT ![p] = late]
  BY <1>1, <1>5, <1>10
<1>11. CASE /\ ~Stale(copy.seq) /\ memoryFile' = [seq |-> next.seq, items |-> next.items]
            /\ mine' = [mine EXCEPT ![p] = CopyOf(memoryFile')]
  <2>1. memoryFile' \in [seq : Nat, items : ItemSets] /\ memoryFile.seq <= mine[p].seq
        /\ memoryFile'.seq = mine[p].seq + 1 /\ memoryFile'.items = more
    BY <1>1, <1>2, <1>3, <1>4, <1>11 DEF Stale
  <2>2. CopyOf(memoryFile') \in [seq : Nat, items : ItemSets, ahead : BOOLEAN]
        /\ CopyOf(memoryFile').seq = memoryFile'.seq
        /\ CopyOf(memoryFile').items = memoryFile'.items
    BY <2>1 DEF CopyOf
  <2> HIDE DEF more
  <2>3. mine'[p] = CopyOf(memoryFile') /\ \A q \in Brains \ {p} : mine'[q] = mine[q]
    BY <1>1, <1>11
  <2>4. mine' \in [Brains -> [seq : Nat, items : ItemSets, ahead : BOOLEAN]]
    BY <1>1, <2>2, <1>11
  <2> QED BY <2>1, <2>2, <2>3, <2>4, <1>6
<1> QED BY <1>7, <1>8, <1>9, <1>10, <1>11

LEMMA SaveStep ==
    ASSUME MemoryInv, NEW p \in Brains, NEW deep \in BOOLEAN, SaveCopy(p, deep)
    PROVE  /\ MemoryInv'
           /\ ~mine[p].ahead /\ memoryFile' # memoryFile => memoryFile.items \subseteq memoryFile'.items
<1>1. /\ mine' \in [Brains -> [seq : Nat, items : ItemSets, ahead : BOOLEAN]]
      /\ \A q \in Brains \ {p} : mine'[q] = mine[q]
      /\ \/ /\ memoryFile' = memoryFile
            /\ ~mine'[p].ahead =>
                   /\ ~mine[p].ahead /\ mine'[p].seq = mine[p].seq
                   /\ mine[p].items \subseteq mine'[p].items
         \/ /\ memoryFile.seq <= mine[p].seq
            /\ memoryFile' \in [seq : Nat, items : ItemSets]
            /\ memoryFile'.seq = mine[p].seq + 1 /\ mine'[p].seq = memoryFile'.seq
            /\ mine[p].items \subseteq memoryFile'.items /\ mine'[p].items = memoryFile'.items
  BY SaveCases
<1>2. /\ key' = key /\ held' = held /\ brainPc' = brainPc /\ seen' = seen /\ horizon' = horizon
      /\ own' = own /\ itemsMade' = itemsMade + 1
  BY Zenon DEF SaveCopy, memoryKeys
<1>3. /\ memoryFile.seq \in Nat /\ itemsMade \in Nat
      /\ \A q \in Brains : mine[q].seq \in Nat /\ mine'[q].seq \in Nat
  BY <1>1 DEF MemoryInv, MemoryTypes
<1>4. MemoryTypes'
  BY <1>1, <1>2 DEF MemoryInv, MemoryTypes
<1>5. KeyMadeOnce' /\ StatesFollow'
  BY <1>2 DEF MemoryInv, KeyMadeOnce, StatesFollow, StateFollows
<1>6. ASSUME NEW q \in Brains PROVE CopyFollows(mine[q], memoryFile)'
  <2>1. CopyFollows(mine[q], memoryFile) /\ CopyFollows(mine[p], memoryFile)
    BY DEF MemoryInv, CopiesFollow
  <2>2. CASE q = p
    BY <1>1, <1>3, <2>1, <2>2 DEF CopyFollows
  <2>3. CASE q # p
    BY <1>1, <1>3, <2>1, <2>3 DEF CopyFollows
  <2> QED BY <2>2, <2>3
<1>7. memoryFile'.seq = 0 => memoryFile'.items = {}
  BY <1>1, <1>3 DEF MemoryInv, CopiesFollow
<1>8. ~mine[p].ahead /\ memoryFile' # memoryFile => memoryFile.items \subseteq memoryFile'.items
  BY <1>1, <1>3 DEF MemoryInv, CopiesFollow, CopyFollows
<1> QED BY <1>4, <1>5, <1>6, <1>7, <1>8 DEF MemoryInv, CopiesFollow

LEMMA CreateStep ==
    ASSUME MemoryInv, NEW p \in Brains, CreateMemory(p)
    PROVE  MemoryInv' /\ \A q \in Brains \ {p} : mine'[q] = mine[q] /\ own'[q] = own[q]
<1> DEFINE record == IF horizon.seq = 0 THEN [seq |-> 1, phase |-> "RESEARCH"] ELSE horizon
           file == [seq |-> seen[p] + 1, items |-> {<<p, itemsMade>>}]
<1>1. /\ key' = key /\ held' = held /\ seen' = seen /\ itemsMade' = itemsMade
      /\ brainPc' = [brainPc EXCEPT ![p] = "idle"]
  BY Zenon DEF CreateMemory, BrainGoes, memoryKeys
<1>2. MemoryTypes
  BY DEF MemoryInv
<1>3. KeyMadeOnce'
  BY <1>1, <1>2 DEF MemoryInv, KeyMadeOnce, MemoryTypes
<1>4. CASE UNCHANGED <<memoryFile, mine, horizon, own>>
  <2>1. MemoryTypes'
    BY <1>1, <1>2, <1>4 DEF MemoryTypes
  <2> QED BY <1>3, <1>4, <2>1 DEF MemoryInv, CopiesFollow, CopyFollows, StatesFollow, StateFollows
<1>5. CASE /\ ~Stale(seen[p]) /\ memoryFile' = file
           /\ mine' = [mine EXCEPT ![p] = CopyOf(memoryFile')]
           /\ horizon' = record /\ own' = [own EXCEPT ![p] = StateOf(record)]
  <2>1. /\ file \in [seq : Nat, items : ItemSets] /\ file.seq > memoryFile.seq /\ file.seq > 0
        /\ memoryFile.seq \in Nat
    BY <1>2, <1>5 DEF MemoryTypes, Stale, ItemSets
  <2>2. /\ CopyOf(file) \in [seq : Nat, items : ItemSets, ahead : BOOLEAN]
        /\ CopyOf(file).seq = file.seq /\ CopyOf(file).items = file.items
    BY <2>1 DEF CopyOf
  <2>3. /\ record \in [seq : Nat, phase : Phases] /\ record.seq > 0
        /\ horizon.seq \in Nat /\ horizon.seq <= record.seq
        /\ horizon.seq = record.seq => record = horizon
    BY <1>2 DEF MemoryTypes, Phases, Stops
  <2>4. /\ StateOf(record) \in [seq : Nat, phase : Phases, ahead : BOOLEAN]
        /\ StateOf(record).seq = record.seq /\ StateOf(record).phase = record.phase
    BY <2>3 DEF StateOf
  <2> HIDE DEF file, record
  <2>5. /\ mine'[p] = CopyOf(file) /\ own'[p] = StateOf(record)
        /\ \A q \in Brains \ {p} : mine'[q] = mine[q] /\ own'[q] = own[q]
    BY <1>2, <1>5 DEF MemoryTypes
  <2>6. MemoryTypes'
    BY <1>1, <1>2, <1>5, <2>1, <2>2, <2>3, <2>4 DEF MemoryTypes
  <2>7. \A q \in Brains : mine[q].seq \in Nat /\ own[q].seq \in Nat
    BY <1>2 DEF MemoryTypes
  <2>8. ASSUME NEW q \in Brains PROVE CopyFollows(mine[q], memoryFile)'
    <3>1. CASE q = p
      BY <1>5, <2>1, <2>2, <2>5, <3>1 DEF CopyFollows
    <3>2. CASE q # p
      BY <1>5, <2>1, <2>5, <2>7, <3>2 DEF MemoryInv, CopiesFollow, CopyFollows
    <3> QED BY <3>1, <3>2
  <2>9. ASSUME NEW q \in Brains PROVE StateFollows(own[q], horizon)'
    <3>1. CASE q = p
      BY <1>5, <2>3, <2>4, <2>5, <3>1 DEF StateFollows
    <3>2. CASE q # p
      BY <1>5, <2>3, <2>5, <2>7, <3>2 DEF MemoryInv, StatesFollow, StateFollows
    <3> QED BY <3>1, <3>2
  <2>10. CopiesFollow' /\ StatesFollow'
    BY <1>5, <2>1, <2>3, <2>8, <2>9 DEF CopiesFollow, StatesFollow
  <2> QED BY <1>3, <2>5, <2>6, <2>10 DEF MemoryInv
<1> QED BY <1>4, <1>5, Zenon DEF CreateMemory, OpenHorizon

\* A transition leaves the phase, or moves it from where the file has it.
LEMMA AdvanceStep ==
    ASSUME MemoryInv, NEW p \in Brains, Advance(p)
    PROVE  /\ MemoryInv' /\ \A q \in Brains \ {p} : own'[q] = own[q]
           /\ ~own[p].ahead /\ horizon' # horizon => horizon'.phase \in Allowed[horizon.phase]
<1>1. PICK move \in Moves : Transition(p, move[2])
  BY Zenon DEF Advance
<1> DEFINE to == move[2]
           base == NewestState(p)
           next == [base EXCEPT !.seq = @ + 1, !.phase = to]
           late == [next EXCEPT !.ahead = TRUE]
           file == [seq |-> next.seq, phase |-> to]
<1>2. /\ key' = key /\ held' = held /\ seen' = seen /\ itemsMade' = itemsMade
      /\ brainPc' = brainPc /\ memoryFile' = memoryFile /\ mine' = mine
  BY Zenon DEF Advance, memoryKeys
<1>3. MemoryTypes
  BY DEF MemoryInv
<1>4. to \in Phases
  BY DEF Moves, Phases, Stops
<1>5. /\ horizon.seq \in Nat /\ \A q \in Brains : own[q].seq \in Nat
      /\ own \in [Brains -> [seq : Nat, phase : Phases, ahead : BOOLEAN]]
      /\ horizon \in [seq : Nat, phase : Phases]
  BY <1>3 DEF MemoryTypes
<1>6. StateFollows(own[p], horizon)
  BY DEF MemoryInv, StatesFollow
<1>7. /\ base \in [seq : Nat, phase : Phases, ahead : BOOLEAN] /\ base.seq >= horizon.seq
      /\ StateFollows(base, horizon)
      /\ ~own[p].ahead => base.phase = horizon.phase
  <2>1. CASE horizon.seq > own[p].seq
    BY <1>5, <2>1 DEF NewestState, StateOf, StateFollows
  <2>2. CASE ~(horizon.seq > own[p].seq)
    BY <1>5, <1>6, <2>2 DEF NewestState, StateFollows
  <2> QED BY <2>1, <2>2
<1>8. \/ own' = [own EXCEPT ![p] = base] /\ horizon' = horizon
      \/ to \in Allowed[base.phase] /\ horizon' = file /\ own' = [own EXCEPT ![p] = StateOf(horizon')]
      \/ horizon' = horizon /\ own' = [own EXCEPT ![p] = late]
  BY <1>1, Zenon DEF Transition
<1> HIDE DEF base, to
<1>9. next \in [seq : Nat, phase : Phases, ahead : BOOLEAN] /\ next.seq = base.seq + 1
  <2> DEFINE raised == [base EXCEPT !.seq = base.seq + 1]
  <2>1. raised \in [seq : Nat, phase : Phases, ahead : BOOLEAN] /\ raised.seq = base.seq + 1
    BY <1>7
  <2>2. next = [raised EXCEPT !.phase = to]
    BY <1>7
  <2> HIDE DEF raised
  <2> QED BY <1>4, <2>1, <2>2
<1>10. late \in [seq : Nat, phase : Phases, ahead : BOOLEAN] /\ late.ahead
  <2> HIDE DEF next
  <2> QED BY <1>9
<1> HIDE DEF next, late
<1>11. /\ file \in [seq : Nat, phase : Phases] /\ file.seq = base.seq + 1 /\ file.phase = to
       /\ StateOf(file) \in [seq : Nat, phase : Phases, ahead : BOOLEAN]
       /\ StateOf(file).seq = file.seq /\ StateOf(file).phase = file.phase
  BY <1>4, <1>9 DEF StateOf
<1> HIDE DEF file
<1>12. CopiesFollow' /\ KeyMadeOnce'
  BY <1>2 DEF MemoryInv, CopiesFollow, CopyFollows, KeyMadeOnce
<1>13. \A q \in Brains : StateFollows(own[q], horizon)
  BY DEF MemoryInv, StatesFollow
<1>14. CASE own' = [own EXCEPT ![p] = base] /\ horizon' = horizon
  <2>1. MemoryTypes' /\ own'[p] = base /\ \A q \in Brains \ {p} : own'[q] = own[q]
    BY <1>2, <1>3, <1>5, <1>7, <1>14 DEF MemoryTypes
  <2>2. \A q \in Brains : StateFollows(own'[q], horizon')
    BY <1>7, <1>13, <1>14, <2>1
  <2> QED BY <1>12, <1>14, <2>1, <2>2 DEF MemoryInv, StatesFollow
<1>15. CASE horizon' = horizon /\ own' = [own EXCEPT ![p] = late]
  <2>1. MemoryTypes' /\ own'[p] = late /\ \A q \in Brains \ {p} : own'[q] = own[q]
    BY <1>2, <1>3, <1>5, <1>10, <1>15 DEF MemoryTypes
  <2>2. \A q \in Brains : StateFollows(own'[q], horizon')
    BY <1>10, <1>13, <1>15, <2>1 DEF StateFollows
  <2> QED BY <1>12, <1>15, <2>1, <2>2 DEF MemoryInv, StatesFollow
<1>16. CASE /\ to \in Allowed[base.phase] /\ horizon' = file
            /\ own' = [own EXCEPT ![p] = StateOf(horizon')]
  <2>1. MemoryTypes' /\ own'[p] = StateOf(file) /\ \A q \in Brains \ {p} : own'[q] = own[q]
    BY <1>2, <1>3, <1>5, <1>11, <1>16 DEF MemoryTypes
  <2>2. base.seq \in Nat /\ horizon'.seq > horizon.seq
    BY <1>5, <1>7, <1>11, <1>16
  <2>3. ASSUME NEW q \in Brains PROVE StateFollows(own'[q], horizon')
    <3>1. CASE q = p
      BY <1>11, <1>16, <2>1, <3>1, <2>2 DEF StateFollows
    <3>2. CASE q # p
      BY <1>13, <1>5, <2>1, <2>2, <3>2, <1>16, <1>11 DEF StateFollows
    <3> QED BY <3>1, <3>2
  <2>4. ~own[p].ahead => horizon'.phase \in Allowed[horizon.phase]
    BY <1>7, <1>11, <1>16
  <2>5. StatesFollow'
    BY <1>5, <2>2, <2>3, <1>16, <1>11 DEF StatesFollow
  <2> QED BY <1>12, <2>1, <2>4, <2>5 DEF MemoryInv
<1> QED BY <1>8, <1>14, <1>15, <1>16

LEMMA KeySteps ==
    ASSUME MemoryInv, NEW p \in Brains,
           FindNoKey(p) \/ CreateKey(p) \/ WriteKey(p) \/ LoadKey(p) \/ PrepareMemory(p)
    PROVE  MemoryInv' /\ UNCHANGED <<memoryFile, mine, horizon, own>>
<1> USE DEF MemoryInv, MemoryTypes, KeyMadeOnce, BrainGoes
<1>1. UNCHANGED <<memoryFile, mine, horizon, own>>
  BY Zenon DEF FindNoKey, CreateKey, WriteKey, LoadKey, PrepareMemory
<1>2. CopiesFollow' /\ StatesFollow'
  BY <1>1 DEF CopiesFollow, CopyFollows, StatesFollow, StateFollows
<1>3. CASE FindNoKey(p)
  BY <1>2, <1>3, MemoryAssumption DEF FindNoKey, memoryKeys, memoryBounds
<1>4. CASE CreateKey(p)
  BY <1>2, <1>4, MemoryAssumption DEF CreateKey, memoryBounds
<1>5. CASE WriteKey(p)
  <2>1. \A q \in Brains : held[q] = "none"
    BY <1>5, MemoryAssumption DEF WriteKey
  <2> QED BY <1>2, <1>5, <2>1, MemoryAssumption DEF WriteKey, memoryBounds
<1>6. CASE LoadKey(p)
  <2>1. /\ brainPc[p] \in {"off", "keying"} /\ key # "none"
        /\ UNCHANGED <<key, memoryFile, seen, mine, horizon, own, itemsMade>>
    BY <1>6 DEF LoadKey, memoryBounds
  <2>2. CASE key = "empty" /\ held' = held /\ brainPc' = [brainPc EXCEPT ![p] = "off"]
    BY <1>2, <2>1, <2>2
  <2>3. CASE key # "empty" /\ held' = [held EXCEPT ![p] = key] /\ brainPc' = [brainPc EXCEPT ![p] = "idle"]
    <3>1. key \in Brains
      BY <2>1, <2>3
    <3>2. MemoryTypes'
      BY <2>1, <2>3, <3>1
    <3>3. KeyMadeOnce'
      BY <2>1, <2>3
    <3> QED BY <1>1, <1>2, <3>2, <3>3
  <2> QED BY <1>6, <2>2, <2>3 DEF LoadKey
<1>7. CASE PrepareMemory(p)
  BY <1>2, <1>7, MemoryAssumption DEF PrepareMemory, memoryKeys
<1> QED BY <1>1, <1>3, <1>4, <1>5, <1>6, <1>7

LEMMA KillBrainStep ==
    ASSUME MemoryInv, NEW p \in Brains, KillBrain(p)
    PROVE  MemoryInv' /\ UNCHANGED <<memoryFile, horizon>>
<1> USE DEF MemoryInv
<1>1. /\ brainPc' = [brainPc EXCEPT ![p] = "off"] /\ held' = [held EXCEPT ![p] = "none"]
      /\ mine' = [mine EXCEPT ![p] = NoCopy] /\ own' = [own EXCEPT ![p] = NoState]
      /\ UNCHANGED <<key, memoryFile, seen, horizon, itemsMade>>
  BY Zenon DEF KillBrain, BrainGoes
<1>2. /\ NoCopy \in [seq : Nat, items : ItemSets, ahead : BOOLEAN]
      /\ NoState \in [seq : Nat, phase : Phases, ahead : BOOLEAN]
  BY DEF NoCopy, NoState, ItemSets, Phases, Stops
<1>3. MemoryTypes'
  BY <1>1, <1>2 DEF MemoryTypes
<1>4. KeyMadeOnce'
  BY <1>1 DEF KeyMadeOnce, MemoryTypes
<1>5. CopyFollows(NoCopy, memoryFile) /\ StateFollows(NoState, horizon)
  BY DEF CopyFollows, StateFollows, NoCopy, NoState, MemoryTypes, CopiesFollow, StatesFollow
<1>6. CopiesFollow'
  <2>1. ASSUME NEW q \in Brains PROVE CopyFollows(mine'[q], memoryFile)
    BY <1>1, <1>5 DEF CopiesFollow, MemoryTypes
  <2> QED BY <1>1, <2>1 DEF CopiesFollow
<1>7. StatesFollow'
  <2>1. ASSUME NEW q \in Brains PROVE StateFollows(own'[q], horizon)
    BY <1>1, <1>5 DEF StatesFollow, MemoryTypes
  <2> QED BY <1>1, <2>1 DEF StatesFollow
<1> QED BY <1>1, <1>3, <1>4, <1>6, <1>7

LEMMA MemoryInvInit == MemoryInit => MemoryInv
<1> SUFFICES ASSUME MemoryInit PROVE MemoryInv
  OBVIOUS
<1> USE DEF MemoryInit
<1>1. MemoryTypes
  BY DEF MemoryTypes, NoMemory, NoCopy, NoPhase, NoState, ItemSets, Phases, Stops
<1>2. KeyMadeOnce
  BY DEF KeyMadeOnce
<1>3. CopiesFollow
  BY DEF CopiesFollow, CopyFollows, NoMemory, NoCopy
<1>4. StatesFollow
  BY DEF StatesFollow, StateFollows, NoPhase, NoState
<1> QED BY <1>1, <1>2, <1>3, <1>4 DEF MemoryInv

\* What a step may do to a copy of the memory, and to the phase.
KeepsNewer ==
    \A p \in Brains :
        brainPc[p] = "idle" /\ ~mine[p].ahead /\ mine'[p] # mine[p] /\ memoryFile' # memoryFile
            => memoryFile.items \subseteq memoryFile'.items
MovesLegally ==
    \A p \in Brains :
        brainPc[p] = "idle" /\ ~own[p].ahead /\ own'[p] # own[p] /\ horizon' # horizon
            => horizon'.phase \in Allowed[horizon.phase]

LEMMA MemoryStep ==
    MemoryInv /\ [MemoryNext]_memoryVars => MemoryInv' /\ KeepsNewer /\ MovesLegally
<1> SUFFICES ASSUME MemoryInv, [MemoryNext]_memoryVars
             PROVE  MemoryInv' /\ KeepsNewer /\ MovesLegally
  OBVIOUS
<1>1. ASSUME NEW p \in Brains,
             FindNoKey(p) \/ CreateKey(p) \/ WriteKey(p) \/ LoadKey(p) \/ PrepareMemory(p)
      PROVE  MemoryInv' /\ KeepsNewer /\ MovesLegally
  BY <1>1, KeySteps DEF KeepsNewer, MovesLegally
<1>2. ASSUME NEW p \in Brains, CreateMemory(p) PROVE MemoryInv' /\ KeepsNewer /\ MovesLegally
  <2>1. MemoryInv' /\ \A q \in Brains \ {p} : mine'[q] = mine[q] /\ own'[q] = own[q]
    BY <1>2, CreateStep
  <2>2. brainPc[p] # "idle"
    BY <1>2 DEF CreateMemory
  <2> QED BY <2>1, <2>2 DEF KeepsNewer, MovesLegally
<1>3. ASSUME NEW p \in Brains, NEW deep \in BOOLEAN, SaveCopy(p, deep)
      PROVE  MemoryInv' /\ KeepsNewer /\ MovesLegally
  <2>1. /\ MemoryInv'
        /\ ~mine[p].ahead /\ memoryFile' # memoryFile => memoryFile.items \subseteq memoryFile'.items
    BY <1>3, SaveStep
  <2>2. horizon' = horizon /\ \A q \in Brains \ {p} : mine'[q] = mine[q]
    BY <1>3, SaveCases DEF SaveCopy
  <2> QED BY <2>1, <2>2 DEF KeepsNewer, MovesLegally
<1>4. ASSUME NEW p \in Brains, Advance(p) PROVE MemoryInv' /\ KeepsNewer /\ MovesLegally
  <2>1. /\ MemoryInv' /\ \A q \in Brains \ {p} : own'[q] = own[q]
        /\ ~own[p].ahead /\ horizon' # horizon => horizon'.phase \in Allowed[horizon.phase]
    BY <1>4, AdvanceStep
  <2>2. memoryFile' = memoryFile
    BY <1>4 DEF Advance
  <2> QED BY <2>1, <2>2 DEF KeepsNewer, MovesLegally
<1>5. ASSUME NEW p \in Brains, KillBrain(p) PROVE MemoryInv' /\ KeepsNewer /\ MovesLegally
  BY <1>5, KillBrainStep DEF KeepsNewer, MovesLegally
<1>6. CASE UNCHANGED memoryVars
  BY <1>6 DEF memoryVars, MemoryInv, MemoryTypes, KeyMadeOnce, CopiesFollow, CopyFollows,
              StatesFollow, StateFollows, KeepsNewer, MovesLegally
<1> QED BY <1>1, <1>2, <1>3, <1>4, <1>5, <1>6, Zenon
        DEF MemoryNext, RecordChanges, RecordDecision, RecordFailure

\* For any processes, saves and transitions, whatever fails or is killed: the processes of a
\* session sign with one key, what was saved stays in the memory, and the phase moves along the
\* allowed transitions, unless the writer's own write failed before.
THEOREM MemoryKeptHolds == MemorySpec => MemoryKept
<1>1. MemoryInv => OneKey
  BY DEF MemoryInv, KeyMadeOnce, OneKey
<1>2. MemorySpec => []MemoryInv
  BY MemoryInvInit, MemoryStep, PTL DEF MemorySpec
<1>3. MemorySpec => [][KeepsNewer]_memoryVars
  BY <1>2, MemoryStep, PTL DEF MemorySpec
<1>4. MemorySpec => [][MovesLegally]_memoryVars
  BY <1>2, MemoryStep, PTL DEF MemorySpec
<1> QED BY <1>1, <1>2, <1>3, <1>4, PTL DEF MemoryKept, NewerKept, PhasesLegal, KeepsNewer, MovesLegally
===============================================================================
