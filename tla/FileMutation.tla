---------------------------- MODULE FileMutation ----------------------------
(***************************************************************************)
(* Writes of one workspace file: MutationController.write_file             *)
(* (nexus/mutation.py) and its callers tool_write_file, tool_edit_file and *)
(* tool_patch_file (nexus/tools/tools_impl.py).  Writers are threads of    *)
(* several Noryx processes; other programs write the file as well.         *)
(*                                                                         *)
(* The file system keeps inodes: the path names one of them, os.replace    *)
(* makes it name a new one, and an advisory lock belongs to the inode that *)
(* was opened, not to the path.  A content is a version number, which its  *)
(* hash tells apart from every other; Empty is the file O_CREAT makes.     *)
(* Diffs, events and the undo history are left out.                        *)
(***************************************************************************)
EXTENDS Naturals, Sequences, FiniteSets

CONSTANTS
    Writers,      \* threads that write
    Procs,        \* Noryx processes
    ProcOf,       \* the process of each writer
    MaxWrites,    \* bound: versions written
    MaxForeign,   \* bound: writes by other programs
    MaxFailures,  \* bound: temporary files that cannot be written
    MaxCrashes    \* bound: processes killed

Absent == 0             \* the path names nothing
Empty == 0              \* version of a file just created
AnyContent == MaxWrites + 2   \* expected_hash is None
NoHash == MaxWrites + 3       \* hash "" of a missing file
Free == "free"          \* nobody holds the lock
Other == "other"        \* a program that is not Noryx

ASSUME MutationAssumption ==
    /\ ProcOf \in [Writers -> Procs]
    /\ {Free, Other} \cap Writers = {}
    /\ {MaxWrites, MaxForeign, MaxFailures, MaxCrashes} \subseteq Nat

Versions == 1..(MaxWrites + 1)

VARIABLES
    path,        \* inode the path names, or Absent
    content,     \* version held by each inode; inodes are numbered as made
    flock,       \* inode whose advisory lock each writer holds, or Absent
    threadLock,  \* writer holding _FILE_LOCKS of each process, or Free
    pc,          \* where each writer is
    expected,    \* expected_hash of each writer
    fd,          \* inode each writer opened for locking, or Absent
    hashNow,     \* the hash each writer read under the locks
    version,     \* the version each writer is about to write
    versions,    \* versions made so far
    author,      \* who made each version
    foreign, failures, crashes

files == <<path, content, foreign>>
locks == <<flock, threadLock>>
texts == <<versions, author>>
vars == <<files, locks, pc, expected, fd, hashNow, version, texts, failures, crashes>>

Init ==
    /\ path \in {Absent, 1}
    /\ content = <<1>>
    /\ flock = [w \in Writers |-> Absent]
    /\ threadLock = [q \in Procs |-> Free]
    /\ pc = [w \in Writers |-> "idle"]
    /\ expected = [w \in Writers |-> AnyContent]
    /\ fd = [w \in Writers |-> Absent]
    /\ hashNow = [w \in Writers |-> NoHash]
    /\ version = [w \in Writers |-> Empty]
    /\ versions = 1
    /\ author = [v \in Versions |-> Other]
    /\ foreign = 0 /\ failures = 0 /\ crashes = 0

\* Faulty variant: a missing file has hash None.
HashOfMissing == IF path = Absent THEN AnyContent ELSE content[path]

\* _hash of the path.
Hash == IF path = Absent THEN NoHash ELSE content[path]

Goto(w, from, to) == pc[w] = from /\ pc' = [pc EXCEPT ![w] = to]

\* A caller computes the new text: from nothing (tool_write_file), or from
\* the file it has just read, whose hash it will expect.
Call(w) ==
    /\ Goto(w, "idle", "called")
    /\ versions <= MaxWrites
    /\ versions' = versions + 1
    /\ version' = [version EXCEPT ![w] = versions + 1]
    /\ author' = [author EXCEPT ![versions + 1] = w]
    /\ \E hash \in {AnyContent, Hash} : expected' = [expected EXCEPT ![w] = hash]
    /\ UNCHANGED <<files, locks, fd, hashNow, failures, crashes>>

\* Faulty variant: no lock between the threads of a process.
TakeThreadLockNot(w) ==
    /\ Goto(w, "called", "opening")
    /\ UNCHANGED <<files, locks, expected, fd, hashNow, version, texts, failures, crashes>>

TakeThreadLock(w) ==
    /\ threadLock[ProcOf[w]] = Free
    /\ Goto(w, "called", "opening")
    /\ threadLock' = [threadLock EXCEPT ![ProcOf[w]] = w]
    /\ UNCHANGED <<files, flock, expected, fd, hashNow, version, texts, failures, crashes>>

\* os.open with O_CREAT: a missing file is created empty.
Open(w) ==
    /\ Goto(w, "opening", "locking")
    /\ \/ path # Absent /\ UNCHANGED <<path, content>>
       \/ path = Absent /\ path' = Len(content) + 1 /\ content' = Append(content, Empty)
    /\ fd' = [fd EXCEPT ![w] = path']
    /\ UNCHANGED <<foreign, locks, expected, hashNow, version, texts, failures, crashes>>

\* lock_file_descriptor: waits for the lock of the inode that was opened.
Lock(w) ==
    /\ Goto(w, "locking", "hashing")
    /\ \A v \in Writers : flock[v] # fd[w]
    /\ flock' = [flock EXCEPT ![w] = fd[w]]
    /\ UNCHANGED <<files, threadLock, expected, fd, hashNow, version, texts, failures, crashes>>

\* Faulty variant: the caller's hash is not compared.
ReadHashUnchecked(w) ==
    /\ Goto(w, "hashing", "writing")
    /\ hashNow' = [hashNow EXCEPT ![w] = Hash]
    /\ UNCHANGED <<files, locks, expected, fd, version, texts, failures, crashes>>

\* The first hash is compared with the caller's.
ReadHash(w) ==
    /\ pc[w] = "hashing"
    /\ hashNow' = [hashNow EXCEPT ![w] = Hash]
    /\ pc' = [pc EXCEPT ![w] = IF expected[w] \in {AnyContent, Hash} THEN "writing" ELSE "refused"]
    /\ UNCHANGED <<files, locks, expected, fd, version, texts, failures, crashes>>

\* The temporary file is written, or cannot be.
WriteTemp(w) ==
    /\ pc[w] = "writing"
    /\ \/ pc' = [pc EXCEPT ![w] = "checking"] /\ failures' = failures
       \/ /\ failures < MaxFailures
          /\ failures' = failures + 1
          /\ pc' = [pc EXCEPT ![w] = "refused"]
    /\ UNCHANGED <<files, locks, expected, fd, hashNow, version, texts, crashes>>

\* The second hash.
CheckAgain(w) ==
    /\ pc[w] = "checking"
    /\ pc' = [pc EXCEPT ![w] = IF Hash = hashNow[w] THEN "replacing" ELSE "refused"]
    /\ UNCHANGED <<files, locks, expected, fd, hashNow, version, texts, failures, crashes>>

\* os.replace: the path names a new inode.
Replace(w) ==
    /\ Goto(w, "replacing", "written")
    /\ path' = Len(content) + 1
    /\ content' = Append(content, version[w])
    /\ UNCHANGED <<foreign, locks, expected, fd, hashNow, version, texts, failures, crashes>>

\* The locals of a writer go with its call.
Forget(w) ==
    /\ fd' = [fd EXCEPT ![w] = Absent]
    /\ expected' = [expected EXCEPT ![w] = AnyContent]
    /\ hashNow' = [hashNow EXCEPT ![w] = NoHash]
    /\ version' = [version EXCEPT ![w] = Empty]

\* finally: unlock and close, then leave the thread lock.
Return(w) ==
    /\ pc[w] \in {"refused", "written"}
    /\ pc' = [pc EXCEPT ![w] = "idle"]
    /\ flock' = [flock EXCEPT ![w] = Absent]
    /\ threadLock' = [threadLock EXCEPT ![ProcOf[w]] = Free]
    /\ Forget(w)
    /\ UNCHANGED <<files, texts, failures, crashes>>

\* Another program writes the file in place or deletes it.
ForeignWrite ==
    /\ foreign < MaxForeign /\ path # Absent /\ versions <= MaxWrites
    /\ foreign' = foreign + 1
    /\ versions' = versions + 1
    /\ \/ content' = [content EXCEPT ![path] = versions + 1] /\ path' = path
       \/ path' = Absent /\ content' = content
    /\ UNCHANGED <<locks, pc, expected, fd, hashNow, version, author, failures, crashes>>

\* A process is killed; the operating system drops its advisory locks.
Crash(q) ==
    /\ crashes < MaxCrashes
    /\ \E w \in Writers : ProcOf[w] = q /\ pc[w] \notin {"idle", "dead"}
    /\ crashes' = crashes + 1
    /\ pc' = [w \in Writers |-> IF ProcOf[w] = q THEN "dead" ELSE pc[w]]
    /\ flock' = [w \in Writers |-> IF ProcOf[w] = q THEN Absent ELSE flock[w]]
    /\ UNCHANGED <<files, threadLock, expected, fd, hashNow, version, texts, failures>>

Step(w) ==
    \/ TakeThreadLock(w) \/ Open(w) \/ Lock(w) \/ ReadHash(w) \/ WriteTemp(w)
    \/ CheckAgain(w) \/ Replace(w) \/ Return(w)

Next ==
    \/ \E w \in Writers : Call(w) \/ Step(w)
    \/ ForeignWrite
    \/ \E q \in Procs : Crash(q)

Spec == Init /\ [][Next]_vars

\* A thread that can go on does.  Nothing is assumed of the order in which a
\* lock is granted: with a bounded number of calls a waiter is passed over
\* only so often.
Fairness == \A w \in Writers : WF_vars(Step(w))
FairSpec == Spec /\ Fairness

-----------------------------------------------------------------------------
Hashes == Versions \cup {Empty, NoHash}
PcValues == {"idle", "called", "opening", "locking", "hashing", "writing",
             "checking", "replacing", "refused", "written", "dead"}
InCritical(w) == pc[w] \in {"hashing", "writing", "checking", "replacing"}

\* Type invariant of the file, its locks and its writers.
TypeOK ==
    /\ content \in Seq(Versions \cup {Empty})
    /\ path \in 0..Len(content)
    /\ flock \in [Writers -> 0..Len(content)]
    /\ threadLock \in [Procs -> Writers \cup {Free}]
    /\ pc \in [Writers -> PcValues]
    /\ expected \in [Writers -> Hashes \cup {AnyContent}]
    /\ fd \in [Writers -> 0..Len(content)]
    /\ hashNow \in [Writers -> Hashes]
    /\ version \in [Writers -> Versions \cup {Empty}]
    /\ versions \in Versions
    /\ author \in [Versions -> Writers \cup {Other}]

\* Between the comparison of the hashes and os.replace one writer of a
\* process works on the file at a time.
OneThreadWrites ==
    \A v, w \in Writers :
        v # w /\ ProcOf[v] = ProcOf[w] => ~(InCritical(v) /\ InCritical(w))

\* No thread replaces what another thread of its process wrote unless it has
\* seen it: the content is the one it compared twice, and an edit replaces
\* the content it was computed from.
WrittenHere(w) ==
    /\ path # Absent /\ content[path] # Empty
    /\ \E v \in Writers : author[content[path]] = v /\ ProcOf[v] = ProcOf[w]
NoLostUpdate ==
    [][\A w \in Writers :
          pc[w] = "replacing" /\ pc'[w] = "written" /\ WrittenHere(w) =>
              /\ Hash = hashNow[w]
              /\ expected[w] \in {AnyContent, Hash}]_vars

\* Every write returns unless its process is killed: a refused write, a
\* failed one and a killed process leave no lock behind that others wait for.
WriteReturns ==
    \A w \in Writers : pc[w] = "called" ~> pc[w] \in {"idle", "dead"}

\* mutation.py:22: "ensures that any concurrent Noryx instance (which also
\* takes the lock) is safely serialised."
InstancesSerialised ==
    \A v, w \in Writers : v # w => ~(InCritical(v) /\ InCritical(w))
=============================================================================
