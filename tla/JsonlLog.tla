------------------------------ MODULE JsonlLog ------------------------------
(***************************************************************************)
(* The crash-tolerant JSONL files of a run (events, model calls, tool      *)
(* calls): RunLedger._append_jsonl of nexus/run_state.py on top of         *)
(* exclusive_file_lock, read_jsonl_prefix and recover_jsonl_suffix of      *)
(* nexus/storage.py.                                                       *)
(*                                                                         *)
(* Several Noryx processes append to one file.  A process may be killed    *)
(* at any point; killed inside os.write it leaves a tear, one of:          *)
(*   "none"     no byte of the record reached the file;                    *)
(*   "partial"  a prefix that is not a JSON object;                        *)
(*   "char"     a prefix cut inside a multi-byte UTF-8 character (the      *)
(*              encoder runs with ensure_ascii=False);                     *)
(*   "body"     the whole object, without its newline;                     *)
(*   "full"     the whole line.                                            *)
(* The text of a record is abstracted to its identifier and a unique       *)
(* number; what matters of the bytes is whether a line parses, decodes     *)
(* and is terminated.                                                      *)
(***************************************************************************)
EXTENDS Naturals, Sequences, FiniteSets

CONSTANTS
    Procs,        \* the processes that append
    MaxCrashes,   \* bound: kills; a killed process is started again
    MaxRecords,   \* bound: appends started
    Tears,        \* the tears a kill inside os.write can leave
    ShortTears    \* the tears os.write itself can leave (it returns a short
                  \* count on a full disk, which the code does not look at)

TearKinds == {"none", "partial", "char", "body", "full"}

NoProc == "no process"

ASSUME LogAssumption ==
    /\ NoProc \notin Procs
    /\ MaxRecords \in Nat /\ MaxCrashes \in Nat
    /\ Tears \subseteq TearKinds
    /\ ShortTears \subseteq TearKinds

VARIABLES
    file,      \* the lines of the file
    backups,   \* numbers of the records held by the *.corrupt-*.bak copies
    lock,      \* holder of exclusive_file_lock, or NoProc
    logPc,        \* where each process is
    seen,      \* the records each process read before its append
    cur,       \* the record each process is appending
    degraded,  \* RunLedger._degraded of each process
    acked,     \* records whose append returned an identifier
    started,   \* number of appends started
    crashes,   \* number of kills
    torn       \* history: numbers of the records whose write left bytes that
               \* the next reader cannot tell from a record, or was cut short

logVars == <<file, backups, lock, logPc, seen, cur, degraded, acked, started, crashes, torn>>

NoRec == [id |-> 0, uid |-> 0]

Record == [id : Nat, uid : Nat]
Line == [recs : Seq(Record), good : BOOLEAN, nl : BOOLEAN, dec : BOOLEAN]

-----------------------------------------------------------------------------
(* What the bytes of a file mean.                                          *)

\* The bytes that a write of record r leaves, by tear.
Piece(r, tear) ==
    [recs |-> IF tear \in {"body", "full"} THEN <<r>> ELSE <<>>,
     good |-> tear \in {"body", "full"},
     nl   |-> tear = "full",
     dec  |-> tear # "char"]

\* O_APPEND: the bytes continue the last line when it has no newline.  Two
\* objects on one line, or an object after a torn prefix, do not parse.
AppendBytes(f, r, tear) ==
    IF tear = "none" THEN f
    ELSE IF f # <<>> /\ ~f[Len(f)].nl
         THEN [f EXCEPT ![Len(f)] =
                 [recs |-> @.recs \o Piece(r, tear).recs,
                  good |-> FALSE,
                  nl   |-> Piece(r, tear).nl,
                  dec  |-> @.dec /\ Piece(r, tear).dec]]
         ELSE Append(f, Piece(r, tear))

\* Number of lines before the first one that does not parse.
ValidLines(f) ==
    CHOOSE n \in 0..Len(f) :
        /\ \A i \in 1..n : f[i].good
        /\ n < Len(f) => ~f[n + 1].good

\* The records read_jsonl_prefix returns, and whether it reports corruption.
Readable(f) == [i \in 1..ValidLines(f) |-> f[i].recs[1]]
Corrupt(f) == ValidLines(f) < Len(f)

\* The file is read as UTF-8 text: an undecodable byte raises
\* UnicodeDecodeError, which no handler of read_jsonl_prefix catches.
Undecodable(f) == \E i \in DOMAIN f : ~f[i].dec

\* Numbers of the records whose whole object is somewhere in the file.
UidsIn(f) ==
    UNION {{f[i].recs[j].uid : j \in DOMAIN f[i].recs} : i \in DOMAIN f}

\* What recover_jsonl_suffix writes: the valid records, one per line.
Rewritten(records) ==
    [i \in DOMAIN records |-> Piece(records[i], "full")]

-----------------------------------------------------------------------------
LogInit ==
    /\ file = <<>>
    /\ backups = {}
    /\ lock = NoProc
    /\ logPc = [p \in Procs |-> "idle"]
    /\ seen = [p \in Procs |-> <<>>]
    /\ cur = [p \in Procs |-> NoRec]
    /\ degraded = [p \in Procs |-> FALSE]
    /\ acked = {}
    /\ started = 0
    /\ crashes = 0
    /\ torn = {}

\* _append_jsonl is over for p, and with it the locals it kept.
Over(p) ==
    /\ logPc' = [logPc EXCEPT ![p] = "idle"]
    /\ seen' = [seen EXCEPT ![p] = <<>>]
    /\ cur' = [cur EXCEPT ![p] = NoRec]

\* A degraded ledger drops the record and returns "<prefix>-DEGRADED".
Drop(p) ==
    /\ logPc[p] = "idle"
    /\ degraded[p]
    /\ started < MaxRecords
    /\ started' = started + 1
    /\ UNCHANGED <<file, backups, lock, logPc, seen, cur, degraded, acked, crashes, torn>>

\* _append_jsonl is called: the process waits for the lock of the file.
Start(p) ==
    /\ logPc[p] = "idle"
    /\ ~degraded[p]
    /\ started < MaxRecords
    /\ started' = started + 1
    /\ cur' = [cur EXCEPT ![p] = [id |-> 0, uid |-> started + 1]]
    /\ logPc' = [logPc EXCEPT ![p] = "waiting"]
    /\ UNCHANGED <<file, backups, lock, seen, degraded, acked, crashes, torn>>

\* exclusive_file_lock: a thread lock, then flock on a separate lock file.
Acquire(p) ==
    /\ logPc[p] = "waiting"
    /\ lock = NoProc
    /\ lock' = p
    /\ logPc' = [logPc EXCEPT ![p] = "locked"]
    /\ UNCHANGED <<file, backups, seen, cur, degraded, acked, started, crashes, torn>>

\* The new record takes the number after the records read.
NewRecord(p, records) == [cur[p] EXCEPT !.id = Len(records) + 1]

ReadPrefix(p) ==
    /\ logPc[p] = "locked"
    /\ ~Undecodable(file)
    /\ seen' = [seen EXCEPT ![p] = Readable(file)]
    /\ cur' = [cur EXCEPT ![p] = NewRecord(p, Readable(file))]
    /\ logPc' = [logPc EXCEPT ![p] = IF Corrupt(file) THEN "corrupt" ELSE "write"]
    /\ UNCHANGED <<file, backups, lock, degraded, acked, started, crashes, torn>>

\* The decode error leaves the with block: the lock is released and the
\* caller of append_event sees the exception.
ReadRaises(p) ==
    /\ logPc[p] = "locked"
    /\ Undecodable(file)
    /\ lock' = NoProc
    /\ Over(p)
    /\ UNCHANGED <<file, backups, degraded, acked, started, crashes, torn>>

\* Faulty variant: the corrupt file is not copied before it is truncated.
QuarantineNothing(p) ==
    /\ logPc[p] = "corrupt"
    /\ logPc' = [logPc EXCEPT ![p] = "quarantined"]
    /\ UNCHANGED <<file, backups, lock, seen, cur, degraded, acked, started, crashes, torn>>

\* recover_jsonl_suffix, first half: shutil.copy2 to a quarantine file.
Quarantine(p) ==
    /\ logPc[p] = "corrupt"
    /\ backups' = backups \cup UidsIn(file)
    /\ logPc' = [logPc EXCEPT ![p] = "quarantined"]
    /\ UNCHANGED <<file, lock, seen, cur, degraded, acked, started, crashes, torn>>

\* Faulty variant: the last record of the valid prefix is dropped.
RestorePrefixShort(p) ==
    /\ logPc[p] = "quarantined"
    /\ file' = Rewritten(SubSeq(seen[p], 1, Len(seen[p]) - 1))
    /\ logPc' = [logPc EXCEPT ![p] = "write"]
    /\ UNCHANGED <<backups, lock, seen, cur, degraded, acked, started, crashes, torn>>

\* recover_jsonl_suffix, second half: os.replace by the valid prefix.
RestorePrefix(p) ==
    /\ logPc[p] = "quarantined"
    /\ file' = Rewritten(seen[p])
    /\ logPc' = [logPc EXCEPT ![p] = "write"]
    /\ UNCHANGED <<backups, lock, seen, cur, degraded, acked, started, crashes, torn>>

\* os.write and fsync: everything, or a short count nobody looks at.
WriteLine(p) ==
    /\ logPc[p] = "write"
    /\ \E tear \in {"full"} \cup ShortTears :
          /\ file' = AppendBytes(file, cur[p], tear)
          /\ torn' = IF tear = "full" THEN torn ELSE torn \cup {cur[p].uid}
    /\ logPc' = [logPc EXCEPT ![p] = "written"]
    /\ UNCHANGED <<backups, lock, seen, cur, degraded, acked, started, crashes>>

\* os.open, os.write or fsync raises OSError: the ledger is degraded from
\* here on; fsync may raise after the bytes are in the file.
WriteFails(p) ==
    /\ logPc[p] = "write"
    /\ \E tear \in {"none", "full"} :
          file' = AppendBytes(file, cur[p], tear)
    /\ degraded' = [degraded EXCEPT ![p] = TRUE]
    /\ lock' = NoProc
    /\ Over(p)
    /\ UNCHANGED <<backups, acked, started, crashes, torn>>

\* The lock is released and the record identifier is returned.
Return(p) ==
    /\ logPc[p] = "written"
    /\ acked' = acked \cup {cur[p]}
    /\ lock' = NoProc
    /\ Over(p)
    /\ UNCHANGED <<file, backups, degraded, started, crashes, torn>>

\* What a kill inside os.write leaves.
Tear(p, tear) ==
    /\ file' = AppendBytes(file, cur[p], tear)
    /\ torn' = IF tear \in {"body", "char"} THEN torn \cup {cur[p].uid} ELSE torn

\* A kill, and the start of a new process with a new RunLedger.
Killed(p) ==
    /\ crashes < MaxCrashes
    /\ crashes' = crashes + 1
    /\ \/ logPc[p] = "write" /\ \E tear \in Tears : Tear(p, tear)
       \/ logPc[p] # "write" /\ UNCHANGED <<file, torn>>
    /\ Over(p)
    /\ degraded' = [degraded EXCEPT ![p] = FALSE]
    /\ UNCHANGED <<backups, acked, started>>

\* Faulty variant: the lock survives its holder (a lock file whose mere
\* existence is the lock).
CrashKeepingLock(p) == Killed(p) /\ UNCHANGED lock

\* The process is killed; the kernel drops its flock.  Killed inside
\* os.write it leaves a tear.
Crash(p) == Killed(p) /\ lock' = IF lock = p THEN NoProc ELSE lock

\* A step the process takes by itself once its append has started.
Progress(p) ==
    \/ Acquire(p) \/ ReadPrefix(p) \/ ReadRaises(p) \/ Quarantine(p)
    \/ RestorePrefix(p) \/ WriteLine(p) \/ WriteFails(p) \/ Return(p)

LogNext == \E p \in Procs : Drop(p) \/ Start(p) \/ Progress(p) \/ Crash(p)

\* A process that started an append keeps running; flock wakes every waiter
\* when the lock is free again and again, and appends are finitely many.
Fairness == \A p \in Procs : WF_logVars(Progress(p)) /\ SF_logVars(Acquire(p))

LogSpec == LogInit /\ [][LogNext]_logVars
FairSpec == LogSpec /\ Fairness

-----------------------------------------------------------------------------
PcValues == {"idle", "waiting", "locked", "corrupt", "quarantined", "write",
             "written"}

\* Type invariant of the log files of nexus/run_state.py.
LogTypeOK ==
    /\ file \in Seq(Line)
    /\ backups \subseteq 1..MaxRecords
    /\ lock \in Procs \cup {NoProc}
    /\ logPc \in [Procs -> PcValues]
    /\ seen \in [Procs -> Seq(Record)]
    /\ cur \in [Procs -> Record]
    /\ degraded \in [Procs -> BOOLEAN]
    /\ acked \subseteq Record
    /\ started \in 0..MaxRecords
    /\ crashes \in 0..MaxCrashes
    /\ torn \subseteq 1..MaxRecords

\* Whatever the interleaving of appends, kills and recoveries, the readable
\* records are numbered 1, 2, 3, ... with neither a gap nor a repetition:
\* _append_jsonl derives the identifier from what it read under the lock.
PrefixNumbered ==
    \A i \in DOMAIN Readable(file) : Readable(file)[i].id = i

\* Nothing acknowledged is destroyed: a record whose append returned is in
\* the file or in a quarantined copy of it (recover_jsonl_suffix copies the
\* file before it truncates it), unless its own os.write was cut short.
EvidencePreserved ==
    \A r \in acked : r.uid \in UidsIn(file) \cup backups \cup torn

Readers(r) == \E i \in DOMAIN Readable(file) : Readable(file)[i] = r

\* storage.py, read_jsonl_prefix: "A process killed halfway through the
\* final write must not erase all prior evidence."  While the file decodes,
\* a torn write costs a reader at most one acknowledged record besides
\* itself (the one joined to its line), however many appends, kills and
\* recoveries follow; without torn writes nothing acknowledged is missing.
LossBounded ==
    Undecodable(file) \/
    Cardinality({r \in acked : ~Readers(r) /\ r.uid \notin torn}) <= Cardinality(torn)

\* Every append returns or its process dies: a killed holder never leaves
\* the file locked, and recovery terminates.
AppendReturns ==
    \A p \in Procs : logPc[p] = "waiting" ~> logPc[p] = "idle"

\* The promise of the file: an append-only log until a write is torn
\* (module AppendOnlyLog).
Promise == INSTANCE AppendOnlyLog
    WITH log <- Readable(file), damaged <- torn # {}, Value <- 1..MaxRecords
ImplementsAppendOnlyLog == Promise!Spec
=============================================================================
