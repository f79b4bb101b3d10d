----------------------------- MODULE FilesProofs -----------------------------
(***************************************************************************)
(* What holds of FileMutation for every set of writers and processes: one  *)
(* thread writes at a time and no update is lost.  The strengthening of the*)
(* first says who owns the lock of a process: the writer that is between   *)
(* TakeThreadLock and Return.  That of the second says whose every version *)
(* is, and what a writer between its two hashes and os.replace still knows *)
(* about the file.                                                         *)
(*                                                                         *)
(* Of IsolatedWorkspace for any files, turns, edits of the user and        *)
(* faults: what the agent wrote is not lost when its session closes, an    *)
(* apply that fails leaves the source as the user has it, and a text of    *)
(* the user's is replaced only by work that comes from it.                 *)
(*                                                                         *)
(* And of UndoHistory for any files, versions and bounds: the history      *)
(* explains the workspace.  The strengthening says what a call under way   *)
(* has still to record, and that no later call takes the number of a       *)
(* snapshot that a record names.                                           *)
(*                                                                         *)
(* And of StagedChange for any files, plans and bounds: what a resume      *)
(* skips was completed, a change reported as completed passed its gates,   *)
(* and a patch that failed is rolled back.  The strengthening says what is *)
(* behind the stage at work, and that a patch writes a file once.          *)
(***************************************************************************)
EXTENDS FileMutation, IsolatedWorkspace, UndoHistory, StagedChange, WellFoundedInduction,
        FiniteSetTheorems, TLAPS

Inside == {"opening", "locking", "hashing", "writing", "checking",
           "replacing", "refused", "written"}

\* The thread lock belongs to the writer at work.
Owned ==
    /\ pc \in [Writers -> PcValues]
    /\ threadLock \in [Procs -> Writers \cup {Free}]
    /\ \A w \in Writers : pc[w] \in Inside => threadLock[ProcOf[w]] = w


\* Nobody works at the start.
LEMMA OwnedInit == Init => Owned
  BY MutationAssumption DEF Init, Owned, PcValues, Inside

\* Every step of a writer, of another program and every kill keeps the owner.
LEMMA OwnedStep == Owned /\ [Next]_vars => Owned'
<1> SUFFICES ASSUME Owned, [Next]_vars PROVE Owned'
  OBVIOUS
<1> USE MutationAssumption
<1>1. ASSUME NEW w \in Writers, Call(w) PROVE Owned'
  BY <1>1 DEF Call, Goto, Owned, PcValues, Inside, files, locks
<1>2. ASSUME NEW w \in Writers, TakeThreadLock(w) PROVE Owned'
  <2>1. /\ pc' \in [Writers -> PcValues]
        /\ threadLock' \in [Procs -> Writers \cup {Free}]
    BY <1>2 DEF TakeThreadLock, Goto, Owned, PcValues
  <2>2. ASSUME NEW v \in Writers, pc'[v] \in Inside
        PROVE threadLock'[ProcOf[v]] = v
    <3>1. CASE v = w
      BY <3>1, <1>2 DEF TakeThreadLock, Owned
    <3>2. CASE v # w
      <4>1. pc[v] \in Inside
        BY <3>2, <2>2, <1>2 DEF TakeThreadLock, Goto, Owned
      <4>2. threadLock[ProcOf[v]] = v
        BY <4>1 DEF Owned
      <4>3. ProcOf[v] # ProcOf[w]
        BY <4>2, <1>2 DEF TakeThreadLock
      <4> QED BY <4>2, <4>3, <1>2 DEF TakeThreadLock, Owned
    <3> QED BY <3>1, <3>2
  <2> QED BY <2>1, <2>2 DEF Owned
<1>3. ASSUME NEW w \in Writers,
             Open(w) \/ Lock(w) \/ ReadHash(w) \/ WriteTemp(w) \/ CheckAgain(w) \/ Replace(w)
      PROVE Owned'
  <2>1. threadLock' = threadLock
    BY <1>3 DEF Open, Lock, ReadHash, WriteTemp, CheckAgain, Replace, locks
  <2>2. pc[w] \in Inside
    BY <1>3 DEF Open, Lock, ReadHash, WriteTemp, CheckAgain, Replace, Goto, Inside
  <2>3. PICK to \in Inside : pc' = [pc EXCEPT ![w] = to]
    <3>1. CASE Open(w) BY <3>1 DEF Open, Goto, Inside
    <3>2. CASE Lock(w) BY <3>2 DEF Lock, Goto, Inside
    <3>3. CASE ReadHash(w)
      <4>1. CASE expected[w] \in {AnyContent, Hash}
        BY <3>3, <4>1 DEF ReadHash, Inside
      <4>2. CASE expected[w] \notin {AnyContent, Hash}
        BY <3>3, <4>2 DEF ReadHash, Inside
      <4> QED BY <4>1, <4>2
    <3>4. CASE WriteTemp(w) BY <3>4 DEF WriteTemp, Inside
    <3>5. CASE CheckAgain(w)
      <4>1. CASE Hash = hashNow[w]
        BY <3>5, <4>1 DEF CheckAgain, Inside
      <4>2. CASE Hash # hashNow[w]
        BY <3>5, <4>2 DEF CheckAgain, Inside
      <4> QED BY <4>1, <4>2
    <3>6. CASE Replace(w) BY <3>6 DEF Replace, Goto, Inside
    <3> QED BY <1>3, <3>1, <3>2, <3>3, <3>4, <3>5, <3>6
  <2> QED BY <2>1, <2>2, <2>3 DEF Owned, Inside, PcValues
<1>4. ASSUME NEW w \in Writers, Return(w) PROVE Owned'
  <2>1. /\ pc' = [pc EXCEPT ![w] = "idle"]
        /\ threadLock' = [threadLock EXCEPT ![ProcOf[w]] = Free]
        /\ pc[w] \in Inside
    BY <1>4 DEF Return, Inside
  <2>2. /\ pc' \in [Writers -> PcValues]
        /\ threadLock' \in [Procs -> Writers \cup {Free}]
    BY <2>1 DEF Owned, PcValues
  <2>3. ASSUME NEW v \in Writers, pc'[v] \in Inside
        PROVE threadLock'[ProcOf[v]] = v
    <3>1. v # w /\ pc[v] \in Inside
      BY <2>1, <2>3 DEF Owned, Inside
    <3>2. threadLock[ProcOf[v]] = v /\ threadLock[ProcOf[w]] = w
      BY <3>1, <2>1 DEF Owned
    <3> QED BY <3>1, <3>2, <2>1 DEF Owned
  <2> QED BY <2>2, <2>3 DEF Owned
<1>5. CASE ForeignWrite
  BY <1>5 DEF ForeignWrite, Owned, locks
<1>6. ASSUME NEW q \in Procs, Crash(q) PROVE Owned'
  BY <1>6 DEF Crash, Owned, PcValues, Inside
<1>7. CASE UNCHANGED vars
  BY <1>7 DEF vars, locks, Owned
<1> QED
  BY <1>1, <1>2, <1>3, <1>4, <1>5, <1>6, <1>7 DEF Next, Step

\* Between the comparison of the hashes and os.replace at most one writer of
\* each process works on the file, for any number of writers and processes
\* and with any kills and foreign writes.
THEOREM OneThreadWritesHolds == Spec => []OneThreadWrites
<1>1. Owned => OneThreadWrites
  BY MutationAssumption DEF Owned, OneThreadWrites, InCritical, Inside
<1> QED
  BY OwnedInit, OwnedStep, <1>1, PTL DEF Spec

-----------------------------------------------------------------------------
\* The file and the versions have their types.
Typed ==
    /\ content \in Seq(Versions \cup {Empty})
    /\ path \in 0..Len(content)
    /\ versions \in Versions
    /\ version \in [Writers -> Versions \cup {Empty}]
    /\ author \in [Versions -> Writers \cup {Other}]
    /\ expected \in [Writers -> Versions \cup {Empty, NoHash, AnyContent}]
    /\ hashNow \in [Writers -> Versions \cup {Empty, NoHash}]

\* Versions are made in order: no file holds one that is not made yet, and
\* one that is not made yet has no author.
Made ==
    /\ \A i \in 1..Len(content) : content[i] <= versions
    /\ \A w \in Writers : version[w] <= versions
    /\ \A u \in Versions : u > versions => author[u] = Other

\* A writer at work is about to write a version of its own.
Authored ==
    \A w \in Writers : pc[w] \in Inside \cup {"called"} =>
        version[w] \in Versions /\ author[version[w]] = w

\* The hash a writer read is the one it was told to expect.
Compared ==
    \A w \in Writers : pc[w] \in {"writing", "checking", "replacing"} =>
        expected[w] \in {AnyContent, hashNow[w]}

\* After its second hash a writer knows the file, or another process or
\* program has written it since.
Seen ==
    \A w \in Writers : pc[w] = "replacing" /\ WrittenHere(w) => Hash = hashNow[w]

UpdateInv == Owned /\ Typed /\ Made /\ Authored /\ Compared /\ Seen

\* A file just made or replaced is the last inode, the others stay.
LEMMA Appended ==
    ASSUME NEW S, NEW seq \in Seq(S), NEW e \in S
    PROVE  /\ Append(seq, e) \in Seq(S)
           /\ Len(Append(seq, e)) = Len(seq) + 1
           /\ Append(seq, e)[Len(seq) + 1] = e
           /\ \A i \in 1..Len(seq) : Append(seq, e)[i] = seq[i]
OBVIOUS

\* A write in place changes one content.
LEMMA ReplacedContent ==
    ASSUME NEW S, NEW seq \in Seq(S), NEW i, NEW e \in S
    PROVE  /\ [seq EXCEPT ![i] = e] \in Seq(S)
           /\ Len([seq EXCEPT ![i] = e]) = Len(seq)
           /\ \A j \in 1..Len(seq) : [seq EXCEPT ![i] = e][j] = IF j = i THEN e ELSE seq[j]
<1>1. seq \in [1..Len(seq) -> S] /\ Len(seq) \in Nat
  OBVIOUS
<1>2. [seq EXCEPT ![i] = e] \in [1..Len(seq) -> S]
  BY <1>1
<1>3. \A f, n : n \in Nat /\ f \in [1..n -> S] => f \in Seq(S) /\ Len(f) = n
  OBVIOUS
<1> QED
  BY <1>1, <1>2, <1>3

\* The hash of the path is that of a version, of an empty file or of none.
LEMMA HashType == Typed => Hash \in Versions \cup {Empty, NoHash}
<1> SUFFICES ASSUME Typed PROVE Hash \in Versions \cup {Empty, NoHash}
  OBVIOUS
<1>1. path # Absent => path \in 1..Len(content)
  BY DEF Typed, Absent
<1>2. \A i \in 1..Len(content) : content[i] \in Versions \cup {Empty}
  BY DEF Typed
<1> QED
  BY <1>1, <1>2 DEF Hash

\* The first version is there before anyone works.
LEMMA UpdateInit == Init => UpdateInv
<1> SUFFICES ASSUME Init PROVE UpdateInv
  OBVIOUS
<1> USE MutationAssumption
<1>1. Owned
  BY OwnedInit
<1>2. Typed
  <2>1. <<1>> \in Seq(Versions \cup {Empty}) /\ Len(<<1>>) = 1 /\ 1 \in Versions
    BY DEF Versions
  <2> QED
    BY <2>1 DEF Init, Typed, Absent
<1>3. Made
  BY DEF Init, Made, Versions, Empty
<1>4. Authored /\ Compared /\ Seen
  BY DEF Init, Authored, Compared, Seen, Inside
<1> QED
  BY <1>1, <1>2, <1>3, <1>4 DEF UpdateInv

\* What a writer does to the file: nothing, unless it creates or replaces it.
LEMMA StepFiles ==
    ASSUME NEW w \in Writers,
           \/ TakeThreadLock(w) \/ Lock(w) \/ ReadHash(w) \/ WriteTemp(w)
           \/ CheckAgain(w) \/ Return(w)
    PROVE  UNCHANGED <<path, content, versions, author>>
BY DEF TakeThreadLock, Lock, ReadHash, WriteTemp, CheckAgain, Return, files, texts

\* What a writer remembers: only ReadHash and Return change it.
LEMMA StepLocals ==
    ASSUME NEW w \in Writers,
           \/ TakeThreadLock(w) \/ Open(w) \/ Lock(w) \/ WriteTemp(w)
           \/ CheckAgain(w) \/ Replace(w)
    PROVE  UNCHANGED <<versions, author, version, expected, hashNow>>
BY DEF TakeThreadLock, Open, Lock, WriteTemp, CheckAgain, Replace, texts

\* Every step keeps the types.
LEMMA TypedStep == Owned /\ Typed /\ Authored /\ [Next]_vars => Typed'
<1> SUFFICES ASSUME Owned, Typed, Authored, [Next]_vars PROVE Typed'
  OBVIOUS
<1> USE MutationAssumption
<1>h. Hash \in Versions \cup {Empty, NoHash}
  BY HashType
<1>1. ASSUME NEW w \in Writers, Call(w) PROVE Typed'
  BY <1>1, <1>h DEF Call, Typed, Versions, files
<1>2. ASSUME NEW w \in Writers, TakeThreadLock(w) \/ Lock(w) \/ WriteTemp(w) \/ CheckAgain(w)
      PROVE Typed'
  <2>1. UNCHANGED <<path, content, versions, author>>
    BY <1>2, StepFiles
  <2>2. UNCHANGED <<version, expected, hashNow>>
    BY <1>2, StepLocals
  <2> QED
    BY <2>1, <2>2 DEF Typed
<1>3. ASSUME NEW w \in Writers, Open(w) PROVE Typed'
  <2>1. UNCHANGED <<versions, author, version, expected, hashNow>>
    BY <1>3, StepLocals
  <2>2. content' \in Seq(Versions \cup {Empty}) /\ path' \in 0..Len(content')
    <3>1. CASE UNCHANGED <<path, content>>
      BY <3>1 DEF Typed
    <3>2. CASE path' = Len(content) + 1 /\ content' = Append(content, Empty)
      BY <3>2, Appended DEF Typed
    <3> QED
      BY <1>3, <3>1, <3>2 DEF Open
  <2> QED
    BY <2>1, <2>2 DEF Typed
<1>4. ASSUME NEW w \in Writers, Replace(w) PROVE Typed'
  <2>1. UNCHANGED <<versions, author, version, expected, hashNow>>
    BY <1>4, StepLocals
  <2>2. content' = Append(content, version[w]) /\ path' = Len(content) + 1
    BY <1>4 DEF Replace
  <2>3. content' \in Seq(Versions \cup {Empty}) /\ path' \in 0..Len(content')
    BY <2>2, Appended DEF Typed
  <2> QED
    BY <2>1, <2>3 DEF Typed
<1>5. ASSUME NEW w \in Writers, ReadHash(w) PROVE Typed'
  BY <1>5, <1>h DEF ReadHash, Typed, files, texts
<1>6. ASSUME NEW w \in Writers, Return(w) PROVE Typed'
  BY <1>6 DEF Return, Forget, Typed, files, texts
<1>7. CASE ForeignWrite
  <2>1. versions' = versions + 1 /\ versions' \in Versions
    BY <1>7 DEF ForeignWrite, Typed, Versions
  <2>2. UNCHANGED <<version, author, expected, hashNow>>
    BY <1>7 DEF ForeignWrite
  <2>3. content' \in Seq(Versions \cup {Empty}) /\ path' \in 0..Len(content')
    <3>1. CASE path' = Absent /\ content' = content
      BY <3>1 DEF Typed, Absent
    <3>2. CASE content' = [content EXCEPT ![path] = versions + 1] /\ path' = path
      <4>1. versions + 1 \in Versions \cup {Empty} /\ content \in Seq(Versions \cup {Empty})
        BY <2>1 DEF Typed
      <4>2. content' \in Seq(Versions \cup {Empty}) /\ Len(content') = Len(content)
        BY ONLY <3>2, <4>1, ReplacedContent
      <4> QED
        BY <3>2, <4>2 DEF Typed
    <3> QED
      BY <1>7, <3>1, <3>2 DEF ForeignWrite
  <2> QED
    BY <2>1, <2>2, <2>3 DEF Typed
<1>8. ASSUME NEW q \in Procs, Crash(q) PROVE Typed'
  BY <1>8 DEF Crash, Typed, files, texts
<1>9. CASE UNCHANGED vars
  BY <1>9 DEF vars, Typed, files, texts
<1> QED
  BY <1>1, <1>2, <1>3, <1>4, <1>5, <1>6, <1>7, <1>8, <1>9 DEF Next, Step

\* Every step makes versions in order.
LEMMA MadeStep == Typed /\ Typed' /\ Made /\ [Next]_vars => Made'
<1> SUFFICES ASSUME Typed, Typed', Made, [Next]_vars PROVE Made'
  OBVIOUS
<1> USE MutationAssumption
<1>1. ASSUME NEW w \in Writers, Call(w) PROVE Made'
  <2>1. content' = content /\ versions' = versions + 1
    BY <1>1 DEF Call, files
  <2>2. \A v \in Writers : version'[v] = IF v = w THEN versions + 1 ELSE version[v]
    BY <1>1 DEF Call, Typed
  <2>3. \A u \in Versions : u # versions + 1 => author'[u] = author[u]
    BY <1>1 DEF Call, Typed
  <2>4. /\ versions \in Nat
        /\ \A v \in Writers : version[v] \in Nat
        /\ \A i \in 1..Len(content) : content[i] \in Nat
    BY DEF Typed, Versions, Empty
  <2>5. \A i \in 1..Len(content) : content[i] <= versions + 1
    BY <2>4 DEF Made
  <2>6. \A v \in Writers : version'[v] <= versions + 1
    BY <2>2, <2>4 DEF Made
  <2>7. \A u \in Versions : u > versions + 1 => author'[u] = Other
    BY <2>3, <2>4 DEF Made, Versions
  <2> QED
    BY <2>1, <2>5, <2>6, <2>7 DEF Made
<1>2. ASSUME NEW w \in Writers,
             TakeThreadLock(w) \/ Lock(w) \/ ReadHash(w) \/ WriteTemp(w) \/ CheckAgain(w)
      PROVE Made'
  <2>1. UNCHANGED <<path, content, versions, author>>
    BY <1>2, StepFiles
  <2>2. version' = version
    BY <1>2, StepLocals DEF ReadHash
  <2> QED
    BY <2>1, <2>2 DEF Made
<1>3. ASSUME NEW w \in Writers, Open(w) \/ Replace(w) PROVE Made'
  <2>1. UNCHANGED <<versions, author, version>>
    BY <1>3, StepLocals
  <2>2. \/ content' = content
        \/ \E e \in Versions \cup {Empty} : e <= versions /\ content' = Append(content, e)
    BY <1>3 DEF Open, Replace, Made, Typed, Versions, Empty
  <2>3. \A i \in 1..Len(content') : content'[i] <= versions
    <3>1. CASE content' = content
      BY <3>1 DEF Made
    <3>2. ASSUME NEW e \in Versions \cup {Empty}, e <= versions, content' = Append(content, e)
          PROVE \A i \in 1..Len(content') : content'[i] <= versions
      <4>1. /\ Len(content') = Len(content) + 1
            /\ content'[Len(content) + 1] = e
            /\ \A i \in 1..Len(content) : content'[i] = content[i]
        BY <3>2, Appended DEF Typed
      <4>2. Len(content) \in Nat
        BY DEF Typed
      <4> QED
        BY <3>2, <4>1, <4>2 DEF Made
    <3> QED
      BY <2>2, <3>1, <3>2
  <2> QED
    BY <2>1, <2>3 DEF Made
<1>4. ASSUME NEW w \in Writers, Return(w) PROVE Made'
  <2>1. UNCHANGED <<path, content, versions, author>>
    BY <1>4, StepFiles
  <2>2. version' = [version EXCEPT ![w] = Empty]
    BY <1>4 DEF Return, Forget
  <2> QED
    BY <2>1, <2>2 DEF Made, Typed, Empty, Versions
<1>5. CASE ForeignWrite
  <2>1. versions' = versions + 1 /\ version' = version /\ author' = author
    BY <1>5 DEF ForeignWrite
  <2>2. \/ content' = content
        \/ content' = [content EXCEPT ![path] = versions + 1]
    BY <1>5 DEF ForeignWrite
  <2>3. versions \in Nat /\ Len(content) \in Nat
        /\ \A i \in 1..Len(content) : content[i] \in Nat /\ content[i] <= versions
    BY DEF Made, Typed, Versions, Empty
  <2>v. versions + 1 \in Versions
    BY <2>1 DEF Typed
  <2>4. Len(content') = Len(content)
        /\ \A i \in 1..Len(content) : content'[i] \in {content[i], versions + 1}
    BY <2>2, <2>v, ReplacedContent DEF Typed
  <2>5. \A i \in 1..Len(content') : content'[i] <= versions + 1
    BY <2>3, <2>4
  <2>6. \A w \in Writers : version[w] \in Nat /\ version[w] <= versions
    BY DEF Made, Typed, Versions, Empty
  <2>7. \A u \in Versions : u > versions + 1 => author[u] = Other
    BY <2>3 DEF Made, Versions
  <2> QED
    BY <2>1, <2>3, <2>5, <2>6, <2>7 DEF Made
<1>6. ASSUME NEW q \in Procs, Crash(q) PROVE Made'
  BY <1>6 DEF Crash, Made, files, texts
<1>7. CASE UNCHANGED vars
  BY <1>7 DEF vars, Made, files, texts
<1> QED
  BY <1>1, <1>2, <1>3, <1>4, <1>5, <1>6, <1>7 DEF Next, Step

\* A version belongs to the writer that was called for it.
LEMMA AuthoredStep ==
    Typed /\ Made /\ Authored /\ [Next]_vars /\ Owned => Authored'
<1> SUFFICES ASSUME Typed, Made, Authored, [Next]_vars, Owned PROVE Authored'
  OBVIOUS
<1> USE MutationAssumption
<1>p. pc \in [Writers -> PcValues]
  BY DEF Owned
<1>1. ASSUME NEW w \in Writers, Call(w) PROVE Authored'
  <2>1. versions + 1 \in Versions /\ versions \in Nat
    BY <1>1 DEF Call, Typed, Versions
  <2>2. version'[w] = versions + 1 /\ author'[versions + 1] = w
    BY <1>1, <2>1 DEF Call, Typed
  <2>3. ASSUME NEW v \in Writers, v # w, pc'[v] \in Inside \cup {"called"}
        PROVE version'[v] \in Versions /\ author'[version'[v]] = v
    <3>1. pc'[v] = pc[v] /\ version'[v] = version[v]
      BY <1>1, <2>3, <1>p DEF Call, Goto, Typed
    <3>2. version[v] \in Versions /\ author[version[v]] = v
      BY <2>3, <3>1 DEF Authored
    <3>3. version[v] # versions + 1
      BY <2>1, <3>2 DEF Made, Versions
    <3> QED
      BY <1>1, <3>1, <3>2, <3>3 DEF Call, Typed
  <2> QED
    BY <2>1, <2>2, <2>3 DEF Authored
<1>2. ASSUME NEW w \in Writers, Step(w), ~Return(w) PROVE Authored'
  <2>1. UNCHANGED <<author, version>>
    BY <1>2 DEF Step, TakeThreadLock, Open, Lock, ReadHash, WriteTemp, CheckAgain, Replace, texts
  <2>2. pc[w] \in Inside \cup {"called"}
    BY <1>2 DEF Step, TakeThreadLock, Open, Lock, ReadHash, WriteTemp, CheckAgain, Replace,
                Goto, Inside
  <2>3. \A v \in Writers : v # w => pc'[v] = pc[v]
    BY <1>2, <1>p DEF Step, TakeThreadLock, Open, Lock, ReadHash, WriteTemp, CheckAgain,
                      Replace, Goto
  <2> QED
    BY <2>1, <2>2, <2>3 DEF Authored
<1>3. ASSUME NEW w \in Writers, Return(w) PROVE Authored'
  <2>1. author' = author /\ pc'[w] = "idle"
    BY <1>3, <1>p DEF Return, texts
  <2>2. \A v \in Writers : v # w => pc'[v] = pc[v] /\ version'[v] = version[v]
    BY <1>3, <1>p DEF Return, Forget, Typed
  <2> QED
    BY <2>1, <2>2 DEF Authored, Inside
<1>4. CASE ForeignWrite
  BY <1>4 DEF ForeignWrite, Authored
<1>5. ASSUME NEW q \in Procs, Crash(q) PROVE Authored'
  BY <1>5 DEF Crash, Authored, texts, Inside
<1>6. CASE UNCHANGED vars
  BY <1>6 DEF vars, Authored, texts
<1> QED
  BY <1>1, <1>2, <1>3, <1>4, <1>5, <1>6 DEF Next, Step

\* Only ReadHash lets a writer on, and it compares the hashes.
LEMMA ComparedStep == Owned /\ Typed /\ Compared /\ [Next]_vars => Compared'
<1> SUFFICES ASSUME Owned, Typed, Compared, [Next]_vars PROVE Compared'
  OBVIOUS
<1> USE MutationAssumption
<1>p. pc \in [Writers -> PcValues]
  BY DEF Owned
<1>1. ASSUME NEW w \in Writers, Call(w) PROVE Compared'
  BY <1>1, <1>p DEF Call, Goto, Compared, Typed
<1>2. ASSUME NEW w \in Writers, TakeThreadLock(w) \/ Open(w) \/ Lock(w) \/ Replace(w)
      PROVE Compared'
  <2>1. UNCHANGED <<expected, hashNow>>
    BY <1>2, StepLocals
  <2> QED
    BY <1>2, <1>p, <2>1 DEF TakeThreadLock, Open, Lock, Replace, Goto, Compared
<1>3. ASSUME NEW w \in Writers, ReadHash(w) PROVE Compared'
  <2>1. hashNow'[w] = Hash /\ expected' = expected
    BY <1>3 DEF ReadHash, Typed
  <2>2. pc'[w] = IF expected[w] \in {AnyContent, Hash} THEN "writing" ELSE "refused"
    BY <1>3, <1>p DEF ReadHash
  <2>3. \A v \in Writers : v # w => pc'[v] = pc[v] /\ hashNow'[v] = hashNow[v]
    BY <1>3, <1>p DEF ReadHash, Typed
  <2> QED
    BY <2>1, <2>2, <2>3 DEF Compared
<1>4. ASSUME NEW w \in Writers, WriteTemp(w) \/ CheckAgain(w) PROVE Compared'
  <2>1. UNCHANGED <<expected, hashNow>>
    BY <1>4, StepLocals
  <2>2. pc[w] \in {"writing", "checking"} /\ \A v \in Writers : v # w => pc'[v] = pc[v]
    BY <1>4, <1>p DEF WriteTemp, CheckAgain
  <2> QED
    BY <2>1, <2>2 DEF Compared
<1>5. ASSUME NEW w \in Writers, Return(w) PROVE Compared'
  <2>1. pc'[w] = "idle"
    BY <1>5, <1>p DEF Return
  <2>2. \A v \in Writers : v # w => /\ pc'[v] = pc[v] /\ hashNow'[v] = hashNow[v]
                                    /\ expected'[v] = expected[v]
    BY <1>5, <1>p DEF Return, Forget, Typed
  <2> QED
    BY <2>1, <2>2 DEF Compared
<1>6. CASE ForeignWrite
  BY <1>6 DEF ForeignWrite, Compared
<1>7. ASSUME NEW q \in Procs, Crash(q) PROVE Compared'
  BY <1>7 DEF Crash, Compared
<1>8. CASE UNCHANGED vars
  BY <1>8 DEF vars, Compared
<1> QED
  BY <1>1, <1>2, <1>3, <1>4, <1>5, <1>6, <1>7, <1>8 DEF Next, Step

\* A thread that works beside another one of its process does not exist.
LEMMA Alone ==
    ASSUME Owned, NEW v \in Writers, NEW w \in Writers, pc[v] \in Inside, pc[w] \in Inside,
           ProcOf[v] = ProcOf[w]
    PROVE  v = w
BY DEF Owned

\* Between its second hash and os.replace a writer knows the file, whatever
\* the threads of its process do, or the file is no longer theirs.
LEMMA SeenStep == UpdateInv /\ [Next]_vars => Seen'
<1> SUFFICES ASSUME UpdateInv, [Next]_vars,
                    NEW w \in Writers, (pc[w] = "replacing")', WrittenHere(w)'
             PROVE  (Hash = hashNow[w])'
  BY DEF Seen
<1> USE MutationAssumption
<1>i. Owned /\ Typed /\ Made /\ Authored /\ Compared /\ Seen
  BY DEF UpdateInv
<1>p. pc \in [Writers -> PcValues]
  BY <1>i DEF Owned
<1>k. ASSUME pc[w] = "replacing", UNCHANGED <<path, content, author>>, hashNow'[w] = hashNow[w]
      PROVE  (Hash = hashNow[w])'
  BY <1>k, <1>i DEF Seen, WrittenHere, Hash
<1>f. content' \in Seq(Versions \cup {Empty}) /\ Len(content) \in Nat
  BY <1>i, TypedStep DEF Typed
<1>1. ASSUME NEW v \in Writers, Call(v) PROVE (Hash = hashNow[w])'
  <2>1. pc[w] = "replacing" /\ hashNow' = hashNow /\ UNCHANGED <<path, content>>
    BY <1>1, <1>p DEF Call, Goto, files
  <2>2. path # Absent /\ content[path] \in Versions /\ content[path] <= versions
    <3>1. path # Absent /\ path \in 1..Len(content) /\ content[path] # Empty
      BY <2>1, <1>i DEF WrittenHere, Typed, Absent
    <3>2. content[path] \in Versions \cup {Empty}
      BY <3>1, <1>i DEF Typed
    <3> QED
      BY <3>1, <3>2, <1>i DEF Typed, Made
  <2>3. author'[content[path]] = author[content[path]]
    BY <1>1, <2>2, <1>i DEF Call, Typed, Versions
  <2>4. WrittenHere(w)
    BY <2>1, <2>2, <2>3 DEF WrittenHere
  <2> QED
    BY <2>1, <2>4, <1>i DEF Seen, Hash
<1>2. ASSUME NEW v \in Writers, TakeThreadLock(v) \/ Lock(v) \/ WriteTemp(v)
      PROVE (Hash = hashNow[w])'
  <2>1. UNCHANGED <<path, content, author>> /\ hashNow' = hashNow
    BY <1>2, StepFiles, StepLocals
  <2>2. pc[w] = "replacing"
    BY <1>2, <1>p DEF TakeThreadLock, Lock, WriteTemp, Goto
  <2> QED
    BY <2>1, <2>2, <1>k
<1>3. ASSUME NEW v \in Writers, CheckAgain(v) PROVE (Hash = hashNow[w])'
  <2>1. UNCHANGED <<path, content, author>> /\ hashNow' = hashNow
    BY <1>3, StepFiles, StepLocals
  <2>2. CASE pc[w] = "replacing"
    BY <2>1, <2>2, <1>k
  <2>3. CASE pc[w] # "replacing"
    <3>1. v = w /\ Hash = hashNow[w]
      BY <1>3, <2>3, <1>p DEF CheckAgain
    <3> QED
      BY <2>1, <3>1 DEF Hash
  <2> QED
    BY <2>2, <2>3
<1>4. ASSUME NEW v \in Writers, Open(v) PROVE (Hash = hashNow[w])'
  <2>1. hashNow' = hashNow /\ author' = author
    BY <1>4, StepLocals
  <2>2. pc[w] = "replacing"
    BY <1>4, <1>p DEF Open, Goto
  <2>3. CASE UNCHANGED <<path, content>>
    BY <2>1, <2>2, <2>3, <1>k
  <2>4. CASE path' = Len(content) + 1 /\ content' = Append(content, Empty)
    BY <2>4, <1>i, Appended DEF WrittenHere, Typed
  <2> QED
    BY <1>4, <2>3, <2>4 DEF Open
<1>5. ASSUME NEW v \in Writers, ReadHash(v) PROVE (Hash = hashNow[w])'
  <2>1. UNCHANGED <<path, content, author>>
    BY <1>5, StepFiles
  <2>2. pc[w] = "replacing" /\ hashNow'[w] = hashNow[w]
    BY <1>5, <1>p, <1>i DEF ReadHash, Typed
  <2> QED
    BY <2>1, <2>2, <1>k
<1>6. ASSUME NEW v \in Writers, Replace(v) PROVE (Hash = hashNow[w])'
  <2>1. pc[w] = "replacing" /\ pc[v] = "replacing" /\ v # w
    BY <1>6, <1>p DEF Replace, Goto
  <2>2. ProcOf[v] # ProcOf[w]
    BY <2>1, <1>i, Alone DEF Inside
  <2>3. /\ path' = Len(content) + 1 /\ content' = Append(content, version[v])
        /\ author' = author
    BY <1>6, StepLocals DEF Replace
  <2>4. content'[path'] = version[v] /\ author[version[v]] = v
    BY <2>1, <2>3, <1>i, Appended DEF Typed, Authored, Inside
  <2> QED
    BY <2>2, <2>3, <2>4 DEF WrittenHere
<1>7. ASSUME NEW v \in Writers, Return(v) PROVE (Hash = hashNow[w])'
  <2>1. UNCHANGED <<path, content, author>>
    BY <1>7, StepFiles
  <2>2. pc[w] = "replacing" /\ hashNow'[w] = hashNow[w]
    BY <1>7, <1>p, <1>i DEF Return, Forget, Typed
  <2> QED
    BY <2>1, <2>2, <1>k
<1>8. CASE ForeignWrite
  <2>1. pc' = pc /\ hashNow' = hashNow /\ author' = author
    BY <1>8 DEF ForeignWrite
  <2>2. CASE path' = Absent
    BY <2>2 DEF WrittenHere
  <2>3. CASE content' = [content EXCEPT ![path] = versions + 1] /\ path' = path
    <3>1. path # Absent /\ versions \in Nat /\ versions + 1 \in Versions
      BY <1>8, <1>i DEF ForeignWrite, Typed, Versions
    <3>2. path \in 1..Len(content) /\ content \in Seq(Versions \cup {Empty})
          /\ versions + 1 \in Versions \cup {Empty}
      BY <3>1, <1>i DEF Typed, Absent
    <3>3. content'[path'] = versions + 1
      BY ONLY <2>3, <3>2, ReplacedContent
    <3>4. author[versions + 1] = Other
      BY <3>1, <1>i DEF Made
    <3> QED
      BY <2>1, <3>3, <3>4 DEF WrittenHere
  <2> QED
    BY <1>8, <2>2, <2>3 DEF ForeignWrite
<1>9. ASSUME NEW q \in Procs, Crash(q) PROVE (Hash = hashNow[w])'
  <2>1. UNCHANGED <<path, content, author>> /\ hashNow' = hashNow
    BY <1>9 DEF Crash, files, texts
  <2>2. pc[w] = "replacing"
    BY <1>9, <1>p DEF Crash
  <2> QED
    BY <2>1, <2>2, <1>k
<1>10. CASE UNCHANGED vars
  BY <1>10, <1>k DEF vars, files, texts
<1> QED
  BY <1>1, <1>2, <1>3, <1>4, <1>5, <1>6, <1>7, <1>8, <1>9, <1>10 DEF Next, Step

\* No thread of a process replaces what another one wrote without having
\* seen it, for any number of writers, processes and writes, with any kills
\* and writes of other programs.
THEOREM NoLostUpdateHolds == Spec => NoLostUpdate
<1>1. UpdateInv /\ [Next]_vars => UpdateInv'
  BY OwnedStep, TypedStep, MadeStep, AuthoredStep, ComparedStep, SeenStep DEF UpdateInv
<1>2. UpdateInv =>
        [\A w \in Writers :
          pc[w] = "replacing" /\ pc'[w] = "written" /\ WrittenHere(w) =>
              /\ Hash = hashNow[w]
              /\ expected[w] \in {AnyContent, Hash}]_vars
  BY DEF UpdateInv, Seen, Compared
<1> QED
  BY <1>1, <1>2, UpdateInit, PTL DEF Spec, NoLostUpdate

-----------------------------------------------------------------------------
-----------------------------------------------------------------------------
(* The inductive invariant. *)

\* The texts are the user's.
Users(t) == \A f \in Sources : t[f][1] = "user"

\* An apply by the finalizer, which the session is waiting for, has not been
\* recorded yet; the command line applies without a turn.
Phased ==
    /\ wsPhase \in {"none", "creating"} => turns = 0 /\ outcome = "none" /\ ~applied
    /\ wsPhase = "ready" => outcome # "pending"
    /\ wsPhase = "verified" => outcome = "pending"
    /\ wsPhase \in {"merge", "backup", "sync"} => outcome = "none" \/ (outcome = "pending" /\ ~applied)
    /\ wsPhase = "cli" => outcome = "none"
    /\ wsPhase = "merge" => backend # "copy"
    /\ wsPhase \in {"backup", "sync"} => backend = "copy"
    /\ applied => turns > 0
    /\ turns = 0 => outcome = "none"

\* The session is open: its agent has not been killed.
Live ==
    \/ wsPhase \in {"ready", "verified"}
    \/ wsPhase \in {"merge", "backup", "sync"} /\ outcome = "pending"

\* What the workspace comes from is the user's until an apply went through.
FromUser ==
    /\ wsPhase \in {"none", "creating"} => Users(source) /\ Users(head)
    /\ backend = "copy" \/ (Live /\ ~applied) => Users(origin)
    /\ wsPhase = "backup" => Users(source)
    /\ backup # NoBackup => Users(backup)
    /\ wsPhase = "sync" => backup \in [Sources -> Texts]

\* What was applied has arrived.
Arrived ==
    Live /\ applied /\ turns = 1 =>
        \A f \in Sources : workspace[f] = <<"agent", 1>> => source[f] = workspace[f] \/ f \in touched

\* Until the source is written, it is as the apply found it.
NotYet == wsPhase \in {"merge", "backup"} => \A f \in Sources \ touched : source[f] = atApply[f]

WsInv == WsTypeOK /\ Phased /\ FromUser /\ Arrived /\ NotYet /\ WorkKept /\ FailedApplyLeavesSource

-----------------------------------------------------------------------------
(* Types. *)

LEMMA Bounds == MaxTurns \in Nat /\ MaxUserEdits \in Nat /\ MaxWsFaults \in Nat
<1>1. \A n \in {MaxTurns, MaxUserEdits, MaxWsFaults} : n \in Nat
  BY WorkspaceAssumption
<1> QED
  BY <1>1

\* The files of the source, the workspace and what they are compared with.
LEMMA FilesFinite ==
    ASSUME WsTypeOK
    PROVE  /\ source \in [Sources -> Texts] /\ head \in [Sources -> Texts]
           /\ workspace \in [Sources -> Texts] /\ origin \in [Sources -> Texts]
           /\ atApply \in [Sources -> Texts]
BY DEF WsTypeOK

\* The counters.
LEMMA Counted ==
    ASSUME WsTypeOK
    PROVE  /\ turns \in 0..MaxTurns /\ userTexts \in 0..MaxUserEdits /\ wsFaults \in 0..MaxWsFaults
           /\ turns \in Nat /\ userTexts \in Nat /\ wsFaults \in Nat
           /\ turns < MaxTurns => turns + 1 \in 0..MaxTurns
           /\ userTexts < MaxUserEdits => userTexts + 1 \in 0..MaxUserEdits
           /\ wsFaults < MaxWsFaults => wsFaults + 1 \in 0..MaxWsFaults
           /\ wsFaults + 2 <= MaxWsFaults => wsFaults + 2 \in 0..MaxWsFaults
<1>1. turns \in 0..MaxTurns /\ userTexts \in 0..MaxUserEdits /\ wsFaults \in 0..MaxWsFaults
  BY Zenon DEF WsTypeOK
<1> QED
  BY <1>1, Bounds

\* The texts that the agent and the user write are texts.
LEMMA NewTexts ==
    ASSUME WsTypeOK
    PROVE  /\ turns < MaxTurns => AgentText \in Texts
           /\ userTexts < MaxUserEdits => <<"user", userTexts + 1>> \in Texts
<1>1. turns \in Nat /\ userTexts \in Nat /\ MaxTurns \in Nat /\ MaxUserEdits \in Nat
  BY Bounds, Counted
<1>2. turns < MaxTurns => turns + 1 \in (-1)..(MaxTurns + MaxUserEdits)
  BY <1>1
<1>3. userTexts < MaxUserEdits => userTexts + 1 \in (-1)..(MaxTurns + MaxUserEdits)
  BY <1>1
<1> QED
  BY <1>2, <1>3 DEF Texts, AgentText

LEMMA WsTypeInit ==
    WsInit => WsTypeOK
<1>1. SUFFICES ASSUME WsInit PROVE WsTypeOK
  OBVIOUS
<1>2. Original \in Texts /\ <<"user", -1>> \in Texts
  <2>1. MaxTurns + MaxUserEdits \in Nat
    BY Bounds
  <2>2. 0 \in (-1)..(MaxTurns + MaxUserEdits) /\ -1 \in (-1)..(MaxTurns + MaxUserEdits)
    BY <2>1
  <2> QED
    BY <2>2 DEF Original, Texts
<1>3. {source, head, workspace, origin, atApply} \subseteq [Sources -> Texts]
  BY <1>1, <1>2 DEF WsInit
<1>4. stateHash \subseteq Sources \X Texts \X Texts
  BY <1>1, <1>3 DEF WsInit, SourceState, Uncommitted
<1>5. turns \in 0..MaxTurns /\ userTexts \in 0..MaxUserEdits /\ wsFaults \in 0..MaxWsFaults
  BY <1>1, Bounds DEF WsInit
<1> QED
  BY <1>1, <1>3, <1>4, <1>5 DEF WsInit, WsTypeOK

LEMMA WsTypeStep ==
    ASSUME WsTypeOK, FromUser, [WsNext]_wsVars
    PROVE  WsTypeOK'
<1> USE FilesFinite, Counted
<1>0. SourceState \subseteq Sources \X Texts \X Texts
  BY DEF SourceState, Uncommitted
<1>1. CASE HashSource
  BY <1>0, <1>1 DEF HashSource, Go, WsTypeOK, wsCounters
<1>2. CASE Materialize
  BY <1>2 DEF Materialize, Go, WsTypeOK, wsCounters
<1>3. CASE CreateFails
  BY <1>3 DEF CreateFails, WsFault, WsTypeOK
<1>4. ASSUME NEW changed \in SUBSET Sources, NEW verified \in BOOLEAN, Turn(changed, verified)
      PROVE  WsTypeOK'
  <2>1. workspace' \in [Sources -> Texts]
    BY <1>4, NewTexts DEF Turn
  <2> QED
    BY <1>4, <2>1 DEF Turn, WsTypeOK
<1>5. CASE Skip
  BY <1>5 DEF Skip, Go, WsTypeOK, wsCounters
<1>6. CASE Apply
  BY <1>6 DEF Apply, Begun, WsTypeOK, wsCounters
<1>7. CASE Refuse
  BY <1>7 DEF Refuse, Ended, Begun, WsTypeOK, wsCounters
<1>8. CASE Merge
  <2>1. /\ source' \in [Sources -> Texts] /\ head' \in [Sources -> Texts]
        /\ origin' \in [Sources -> Texts]
    <3>1. CASE Fits
      <4>1. source' \in [Sources -> Texts]
        BY <1>8, <3>1 DEF Merge
      <4>2. CASE backend = "clean"
        BY <1>8, <3>1, <4>1, <4>2 DEF Merge
      <4>3. CASE backend # "clean"
        BY <1>8, <3>1, <4>1, <4>3 DEF Merge
      <4> QED
        BY <4>2, <4>3
    <3>2. CASE ~Fits
      BY <1>8, <3>2 DEF Merge
    <3> QED
      BY <3>1, <3>2
  <2>2. recovery' \subseteq Texts
    BY <1>8 DEF Merge, Delta, Changed, WsTypeOK
  <2>3. /\ wsPhase' \in {"ready", "cli"} /\ applied' \in BOOLEAN
        /\ outcome' \in {"none", "pending", "unverified", "VERIFIED", "FAILED", "ROLLBACK_FAILED"}
    BY <1>8 DEF Merge, Ended, WsTypeOK
  <2> QED
    BY <1>8, <2>1, <2>2, <2>3 DEF Merge, WsTypeOK, wsCounters
<1>9. CASE Backup
  BY <1>9 DEF Backup, Ended, WsFault, WsTypeOK
<1>10. CASE Sync
  BY <1>10 DEF Sync, Ended, WsTypeOK, wsCounters
<1>11. CASE SyncFails
  <2>1. source' = source \/ (source' = backup /\ wsPhase = "sync")
    BY <1>11 DEF SyncFails, Restored
  <2>2. source' \in [Sources -> Texts]
    BY <1>11, <2>1 DEF FromUser
  <2>3. /\ wsPhase' \in {"ready", "cli"} /\ applied' \in BOOLEAN
        /\ outcome' \in {"none", "pending", "unverified", "VERIFIED", "FAILED", "ROLLBACK_FAILED"}
    BY <1>11 DEF SyncFails, Ended, WsTypeOK
  <2>4. wsFaults' \in 0..MaxWsFaults
    BY <1>11 DEF SyncFails
  <2> QED
    BY <1>11, <2>2, <2>3, <2>4 DEF SyncFails, WsTypeOK
<1>12. CASE Close
  BY <1>12 DEF Close, Kept, Pending, Changed, WsTypeOK, wsCounters
<1>13. CASE KillAgent
  BY <1>13 DEF KillAgent, WsFault, WsTypeOK
<1>14. CASE ResolveWorktree \/ Discard
  BY <1>14 DEF ResolveWorktree, Discard, Go, WsTypeOK, wsCounters
<1>15. ASSUME NEW f \in Sources, UserEdits(f)
       PROVE  WsTypeOK'
  <2>1. source' \in [Sources -> Texts]
    BY <1>15, NewTexts DEF UserEdits
  <2> QED
    BY <1>15, <2>1 DEF UserEdits, WsTypeOK
<1>16. CASE UserCommits
  BY <1>16 DEF UserCommits, WsTypeOK, wsCounters
<1>17. CASE UNCHANGED wsVars
  BY <1>17 DEF wsVars, wsCounters, WsTypeOK
<1> QED
  BY <1>1, <1>2, <1>3, <1>4, <1>5, <1>6, <1>7, <1>8, <1>9, <1>10, <1>11, <1>12, <1>13, <1>14, <1>15,
     <1>16, <1>17 DEF WsNext

-----------------------------------------------------------------------------
(* The parts of the invariant, step by step. *)

\* An apply that ends returns to the session or to the command line.
LEMMA EndedPhased ==
    ASSUME WsTypeOK, Phased, NEW result \in {"VERIFIED", "FAILED", "ROLLBACK_FAILED"}, Ended(result),
           wsPhase \in {"merge", "backup", "sync"}, UNCHANGED <<backend, turns>>
    PROVE  Phased'
<1>1. CASE outcome = "pending"
  <2>1. turns \in Nat /\ turns # 0
    BY <1>1, Counted DEF Phased
  <2>2. wsPhase' = "ready" /\ outcome' = result
    BY <1>1 DEF Ended
  <2>3. turns' = turns
    OBVIOUS
  <2>4. turns > 0
    BY <2>1
  <2>5. outcome' # "pending"
    BY <2>2
  <2> QED
    BY <2>1, <2>2, <2>3, <2>4, <2>5 DEF Phased
<1>2. CASE outcome = "none"
  <2>1. wsPhase' = "cli" /\ outcome' = "none" /\ applied' = applied
    BY <1>2 DEF Ended, WsTypeOK
  <2> QED
    BY <2>1 DEF Phased
<1> QED
  BY <1>1, <1>2 DEF Phased

LEMMA PhasedStep ==
    ASSUME WsTypeOK, Phased, [WsNext]_wsVars
    PROVE  Phased'
<1> USE Counted DEF Phased
<1>0. backend \in {"clean", "dirty", "copy"} /\ applied \in BOOLEAN
  BY WorkspaceAssumption DEF WsTypeOK
<1>1. CASE HashSource \/ Materialize \/ CreateFails
  BY <1>1 DEF HashSource, Materialize, CreateFails, Go, WsFault, wsCounters
<1>2. ASSUME NEW changed \in SUBSET Sources, NEW verified \in BOOLEAN, Turn(changed, verified)
      PROVE  Phased'
  BY <1>2 DEF Turn
<1>3. CASE Skip
  BY <1>3 DEF Skip, Go, wsCounters
<1>4. CASE Apply
  BY <1>0, <1>4 DEF Apply, Begun, wsCounters
<1>5. CASE Refuse
  BY <1>5 DEF Refuse, Ended, wsCounters
<1>6. CASE Merge
  <2>1. wsPhase = "merge" /\ (Ended("VERIFIED") \/ Ended("FAILED")) /\ UNCHANGED <<backend, turns>>
    BY <1>6 DEF Merge, wsCounters
  <2> QED
    BY <2>1, EndedPhased
<1>7. CASE Backup
  <2>1. wsPhase = "backup" /\ UNCHANGED <<backend, turns>>
    BY <1>7 DEF Backup
  <2>2. Ended("FAILED") \/ (wsPhase' = "sync" /\ UNCHANGED <<applied, outcome>>)
    BY <1>7 DEF Backup
  <2>3. CASE Ended("FAILED")
    BY <2>1, <2>3, EndedPhased
  <2>4. CASE wsPhase' = "sync" /\ UNCHANGED <<applied, outcome>>
    BY <2>1, <2>4
  <2> QED
    BY <2>2, <2>3, <2>4
<1>8. CASE Sync
  <2>1. wsPhase = "sync" /\ UNCHANGED <<backend, turns>>
    BY <1>8 DEF Sync, wsCounters
  <2>2. Ended("VERIFIED") \/ UNCHANGED <<wsPhase, applied, outcome>>
    BY <1>8 DEF Sync
  <2>3. CASE Ended("VERIFIED")
    BY <2>1, <2>3, EndedPhased
  <2>4. CASE UNCHANGED <<wsPhase, applied, outcome>>
    BY <2>1, <2>4
  <2> QED
    BY <2>2, <2>3, <2>4
<1>9. CASE SyncFails
  <2>1. wsPhase = "sync" /\ (Ended("FAILED") \/ Ended("ROLLBACK_FAILED")) /\ UNCHANGED <<backend, turns>>
    BY <1>9 DEF SyncFails
  <2> QED
    BY <2>1, EndedPhased
<1>10. CASE Close \/ ResolveWorktree \/ Discard
  BY <1>10 DEF Close, ResolveWorktree, Discard, Go, wsCounters
<1>11. CASE KillAgent
  BY <1>11 DEF KillAgent
<1>12. ASSUME NEW f \in Sources, UserEdits(f)
       PROVE  Phased'
  BY <1>12 DEF UserEdits
<1>13. CASE UserCommits
  BY <1>13 DEF UserCommits, wsCounters
<1>14. CASE UNCHANGED wsVars
  BY <1>14 DEF wsVars, wsCounters
<1> QED
  BY <1>1, <1>2, <1>3, <1>4, <1>5, <1>6, <1>7, <1>8, <1>9, <1>10, <1>11, <1>12, <1>13, <1>14 DEF WsNext

LEMMA FromUserStep ==
    ASSUME WsTypeOK, Phased, FromUser, [WsNext]_wsVars
    PROVE  FromUser'
<1> USE FilesFinite DEF FromUser, Users, Live
<1>1. CASE HashSource
  BY <1>1 DEF HashSource, Go, Phased, wsCounters
<1>2. CASE Materialize
  BY <1>2 DEF Materialize, Go, Phased, wsCounters
<1>3. CASE CreateFails
  BY <1>3 DEF CreateFails
<1>4. ASSUME NEW changed \in SUBSET Sources, NEW verified \in BOOLEAN, Turn(changed, verified)
      PROVE  FromUser'
  BY <1>4 DEF Turn
<1>5. CASE Skip
  BY <1>5 DEF Skip, Go, wsCounters
<1>6. CASE Apply
  <2>1. backend = "copy" => \A f \in Sources : source[f] = origin[f]
    BY <1>6 DEF Apply, Unchanged, Changed
  <2> QED
    BY <1>6, <2>1 DEF Apply, Begun, wsCounters, Phased
<1>7. CASE Refuse
  BY <1>7 DEF Refuse, Ended, wsCounters, Phased
<1>8. CASE Merge
  <2>1. /\ wsPhase = "merge" /\ backend # "copy" /\ UNCHANGED <<backend, backup>>
        /\ wsPhase' \in {"ready", "cli"}
    BY <1>8 DEF Merge, Ended, Phased
  <2>2. CASE Fits
    <3>1. wsPhase' = "ready" => applied'
      BY <1>8, <2>2 DEF Merge, Ended, WsTypeOK
    <3> QED
      BY <2>1, <3>1
  <2>3. CASE ~Fits
    <3>1. UNCHANGED <<source, origin, head>> /\ (wsPhase' = "ready" => outcome = "pending")
      BY <1>8, <2>3 DEF Merge, Ended
    <3>2. wsPhase' = "ready" => ~applied
      BY <2>1, <3>1 DEF Phased
    <3> QED
      BY <2>1, <3>1, <3>2
  <2> QED
    BY <2>2, <2>3
<1>9. CASE Backup \/ Sync \/ SyncFails
  <2>1. /\ wsPhase \in {"backup", "sync"} /\ backend = "copy" /\ UNCHANGED <<backend, origin>>
        /\ wsPhase' \in {"sync", "ready", "cli"}
    BY <1>9 DEF Backup, Sync, SyncFails, Ended, Phased
  <2>2. backup' # NoBackup => Users(backup')
    BY <1>9, <2>1 DEF Backup, Sync, SyncFails
  <2>3. wsPhase' = "sync" => backup' \in [Sources -> Texts]
    BY <1>9, <2>1 DEF Backup, Sync, SyncFails, Ended, WsTypeOK
  <2> QED
    BY <2>1, <2>2, <2>3
<1>10. CASE Close \/ ResolveWorktree \/ Discard \/ KillAgent
  <2>1. wsPhase' \in {"closed", "cli", "dead"} /\ UNCHANGED <<backend, source, head, origin, backup>>
    BY <1>10 DEF Close, ResolveWorktree, Discard, KillAgent, Go
  <2> QED
    BY <2>1
<1>11. ASSUME NEW f \in Sources, UserEdits(f)
       PROVE  FromUser'
  <2>1. Users(source) => Users(source')
    BY <1>11 DEF UserEdits
  <2> QED
    BY <1>11, <2>1 DEF UserEdits
<1>12. CASE UserCommits
  BY <1>12 DEF UserCommits, wsCounters
<1>13. CASE UNCHANGED wsVars
  BY <1>13 DEF wsVars, wsCounters
<1> QED
  BY <1>1, <1>2, <1>3, <1>4, <1>5, <1>6, <1>7, <1>8, <1>9, <1>10, <1>11, <1>12, <1>13 DEF WsNext

LEMMA ArrivedStep ==
    ASSUME WsTypeOK, Phased, FromUser, Arrived, [WsNext]_wsVars
    PROVE  Arrived'
<1> USE FilesFinite, Counted DEF Arrived, Live
<1>1. CASE HashSource \/ Materialize \/ CreateFails
  BY <1>1 DEF HashSource, Materialize, CreateFails, Go, Phased
<1>2. ASSUME NEW changed \in SUBSET Sources, NEW verified \in BOOLEAN, Turn(changed, verified)
      PROVE  Arrived'
  <2>1. applied' => turns' # 1
    BY <1>2 DEF Turn, Phased
  <2> QED
    BY <2>1
\* A workspace without a difference is the source, or holds nothing of the agent's.
<1>3. CASE Skip
  <2>1. CASE applied
    BY <1>3, <2>1 DEF Skip, Go, wsCounters
  <2>2. CASE ~applied
    <3>1. Pending = {} /\ Users(origin)
      BY <1>3, <2>2 DEF Skip, Go, FromUser
    <3>2. ASSUME NEW f \in Sources, workspace[f] = <<"agent", 1>>
          PROVE  source[f] = workspace[f]
      <4>1. workspace[f] # origin[f]
        BY <3>1, <3>2 DEF Users
      <4> QED
        BY <3>1, <4>1 DEF Pending, Changed
    <3> QED
      BY <1>3, <3>2 DEF Skip
  <2> QED
    BY <2>1, <2>2
<1>4. CASE Apply \/ Refuse
  <2>1. Live' => ~applied'
    BY <1>4 DEF Apply, Refuse, Ended, Phased, WsTypeOK
  <2> QED
    BY <2>1
<1>5. CASE Merge
  <2>1. CASE Fits /\ outcome = "pending"
    <3>1. Users(origin) /\ UNCHANGED workspace
      BY <1>5, <2>1 DEF Merge, Phased, FromUser
    <3>2. source' = [f \in Sources |-> IF f \in Delta THEN workspace[f] ELSE source[f]]
      BY <1>5, <2>1 DEF Merge
    <3>3. ASSUME NEW f \in Sources, workspace[f] = <<"agent", 1>>
          PROVE  source'[f] = workspace[f]
      <4>1. f \in Delta
        BY <3>1, <3>3 DEF Users, Delta, Changed
      <4> QED
        BY <3>2, <4>1
    <3> QED
      BY <3>1, <3>3
  <2>2. CASE ~(Fits /\ outcome = "pending")
    <3>1. Live' => ~applied'
      BY <1>5, <2>2 DEF Merge, Ended, Phased, WsTypeOK
    <3> QED
      BY <3>1
  <2> QED
    BY <2>1, <2>2
<1>6. CASE Backup \/ SyncFails
  <2>1. Live' => ~applied'
    BY <1>6 DEF Backup, SyncFails, Ended, Phased, WsTypeOK
  <2> QED
    BY <2>1
<1>7. CASE Sync
  <2>1. CASE Changed(source, workspace) # {}
    <3>1. Live' => ~applied'
      BY <1>7, <2>1 DEF Sync, Phased, WsTypeOK
    <3> QED
      BY <3>1
  <2>2. CASE Changed(source, workspace) = {}
    <3>1. \A f \in Sources : source'[f] = workspace'[f]
      BY <1>7, <2>2 DEF Sync, Changed
    <3> QED
      BY <3>1
  <2> QED
    BY <2>1, <2>2
<1>8. CASE Close \/ ResolveWorktree \/ Discard \/ KillAgent
  BY <1>8 DEF Close, ResolveWorktree, Discard, KillAgent, Go
<1>9. ASSUME NEW f \in Sources, UserEdits(f)
      PROVE  Arrived'
  BY <1>9 DEF UserEdits
<1>10. CASE UserCommits
  BY <1>10 DEF UserCommits, wsCounters
<1>11. CASE UNCHANGED wsVars
  BY <1>11 DEF wsVars, wsCounters
<1> QED
  BY <1>1, <1>2, <1>3, <1>4, <1>5, <1>6, <1>7, <1>8, <1>9, <1>10, <1>11 DEF WsNext

LEMMA NotYetStep ==
    ASSUME WsTypeOK, Phased, NotYet, [WsNext]_wsVars
    PROVE  NotYet'
<1> USE FilesFinite DEF NotYet
<1>1. CASE HashSource \/ Materialize \/ CreateFails \/ Skip
  BY <1>1 DEF HashSource, Materialize, CreateFails, Skip, Go
<1>2. ASSUME NEW changed \in SUBSET Sources, NEW verified \in BOOLEAN, Turn(changed, verified)
      PROVE  NotYet'
  BY <1>2 DEF Turn
<1>3. CASE Apply
  BY <1>3 DEF Apply, Begun
<1>4. CASE Refuse \/ Merge \/ Backup \/ Sync \/ SyncFails
  <2>1. wsPhase' \in {"ready", "cli", "sync"}
    BY <1>4 DEF Refuse, Merge, Backup, Sync, SyncFails, Ended
  <2> QED
    BY <2>1
<1>5. CASE Close \/ ResolveWorktree \/ Discard \/ KillAgent
  BY <1>5 DEF Close, ResolveWorktree, Discard, KillAgent, Go
<1>6. ASSUME NEW f \in Sources, UserEdits(f)
      PROVE  NotYet'
  BY <1>6 DEF UserEdits
<1>7. CASE UserCommits \/ UNCHANGED wsVars
  BY <1>7 DEF UserCommits, wsVars
<1> QED
  BY <1>1, <1>2, <1>3, <1>4, <1>5, <1>6, <1>7 DEF WsNext

\* Where the outcome of a turn is FAILED, no apply is under way.
LEMMA FailedRests ==
    ASSUME Phased, outcome = "FAILED"
    PROVE  wsPhase \notin {"none", "creating", "verified", "merge", "backup", "sync", "cli"}
BY DEF Phased

LEMMA FailedApplyStep ==
    ASSUME WsTypeOK, Phased, FromUser, NotYet, FailedApplyLeavesSource, [WsNext]_wsVars
    PROVE  FailedApplyLeavesSource'
<1> USE FilesFinite DEF FailedApplyLeavesSource
<1>1. CASE HashSource \/ Materialize \/ CreateFails \/ Skip
  <2>1. outcome' # "FAILED"
    BY <1>1 DEF HashSource, Materialize, CreateFails, Skip, Go, Phased
  <2> QED
    BY <2>1
<1>2. ASSUME NEW changed \in SUBSET Sources, NEW verified \in BOOLEAN, Turn(changed, verified)
      PROVE  FailedApplyLeavesSource'
  BY <1>2 DEF Turn
<1>3. CASE Apply
  BY <1>3, FailedRests DEF Apply
<1>4. CASE Refuse
  BY <1>4 DEF Refuse, Begun
<1>5. CASE Merge
  <2>1. CASE Fits
    BY <1>5, <2>1, FailedRests DEF Merge, Ended
  <2>2. CASE ~Fits
    BY <1>5, <2>2 DEF Merge, NotYet
  <2> QED
    BY <2>1, <2>2
<1>6. CASE Backup
  BY <1>6 DEF Backup, NotYet
<1>7. CASE Sync
  BY <1>7, FailedRests DEF Sync, Ended
\* The sync that fails is taken back from the backup.
<1>8. CASE SyncFails
  <2>1. /\ wsPhase = "sync" /\ backup \in [Sources -> Texts] /\ UNCHANGED <<backup, touched>>
        /\ Users(backup) \/ backup = NoBackup
    BY <1>8 DEF SyncFails, FromUser
  <2>2. \A f \in Sources : f \in DOMAIN backup /\ backup[f][1] = "user"
    <3>1. DOMAIN backup = Sources
      BY <2>1
    <3>2. backup = NoBackup => Sources = {}
      BY <3>1 DEF NoBackup
    <3> QED
      BY <2>1, <3>1, <3>2 DEF Users
  <2>3. CASE source' = Restored
    BY <2>1, <2>2, <2>3 DEF Restored
  <2>4. CASE source' # Restored
    BY <1>8, <2>4, FailedRests DEF SyncFails, Ended
  <2> QED
    BY <2>3, <2>4
<1>9. CASE Close \/ ResolveWorktree \/ Discard \/ KillAgent
  <2>1. UNCHANGED <<source, atApply, touched, backup>> /\ (outcome' = outcome \/ outcome' = "none")
    BY <1>9 DEF Close, ResolveWorktree, Discard, KillAgent, Go
  <2> QED
    BY <2>1
<1>10. ASSUME NEW f \in Sources, UserEdits(f)
       PROVE  FailedApplyLeavesSource'
  BY <1>10 DEF UserEdits
<1>11. CASE UserCommits \/ UNCHANGED wsVars
  BY <1>11 DEF UserCommits, wsVars
<1> QED
  BY <1>1, <1>2, <1>3, <1>4, <1>5, <1>6, <1>7, <1>8, <1>9, <1>10, <1>11 DEF WsNext

LEMMA WorkKeptStep ==
    ASSUME WsTypeOK, Phased, FromUser, Arrived, WorkKept, [WsNext]_wsVars
    PROVE  WorkKept'
<1> USE FilesFinite, Counted DEF WorkKept
<1>1. CASE HashSource \/ Materialize \/ CreateFails \/ Skip
  <2>1. wsPhase' = "closed" => turns' = 0
    BY <1>1 DEF HashSource, Materialize, CreateFails, Skip, Go, Phased
  <2> QED
    BY <2>1
<1>2. ASSUME NEW changed \in SUBSET Sources, NEW verified \in BOOLEAN, Turn(changed, verified)
      PROVE  WorkKept'
  BY <1>2 DEF Turn
<1>3. CASE Apply \/ Refuse \/ Merge \/ Backup \/ Sync \/ SyncFails
  <2>1. wsPhase' \in {"backup", "merge", "sync", "ready", "cli"}
    BY <1>3 DEF Apply, Refuse, Merge, Backup, Sync, SyncFails, Ended
  <2> QED
    BY <2>1
\* What is not applied differs from what the workspace comes from, and goes to the patch.
<1>4. CASE Close
  <2>1. /\ wsPhase = "ready" /\ recovery' = recovery \union Kept /\ applied \in BOOLEAN
        /\ UNCHANGED <<source, workspace, touched, turns, outcome>>
    BY <1>4 DEF Close, WsTypeOK, wsCounters
  <2>2. CASE applied
    BY <2>1, <2>2 DEF Arrived, Live
  <2>3. CASE ~applied
    <3>1. Users(origin)
      BY <2>1, <2>3 DEF FromUser, Live
    <3>2. ASSUME NEW f \in Sources, workspace[f] = <<"agent", 1>>
          PROVE  source[f] = workspace[f] \/ workspace[f] \in recovery'
      <4>1. workspace[f] # origin[f]
        BY <3>1, <3>2 DEF Users
      <4>2. CASE f \in Pending
        BY <2>1, <2>3, <4>2 DEF Kept
      <4>3. CASE f \notin Pending
        BY <4>1, <4>3 DEF Pending, Changed
      <4> QED
        BY <4>2, <4>3
    <3> QED
      BY <2>1, <3>2
  <2> QED
    BY <2>1, <2>2, <2>3
<1>5. CASE ResolveWorktree \/ Discard \/ KillAgent
  <2>1. wsPhase' # "closed" \/ outcome' = "none"
    BY <1>5 DEF ResolveWorktree, Discard, KillAgent, Go, Phased
  <2> QED
    BY <2>1
<1>6. ASSUME NEW f \in Sources, UserEdits(f)
      PROVE  WorkKept'
  BY <1>6 DEF UserEdits
<1>7. CASE UserCommits \/ UNCHANGED wsVars
  BY <1>7 DEF UserCommits, wsVars, wsCounters
<1> QED
  BY <1>1, <1>2, <1>3, <1>4, <1>5, <1>6, <1>7 DEF WsNext

-----------------------------------------------------------------------------
(* The theorems. *)

\* Nothing is written when the session is created.
LEMMA WsInvInit ==
    WsInit => WsInv
<1>1. SUFFICES ASSUME WsInit PROVE WsInv
  OBVIOUS
<1>2. source = [f \in Sources |-> Original] /\ Users(source) /\ Users(head) /\ origin = source
  BY <1>1 DEF WsInit, Users, Original
<1>3. WsTypeOK
  BY <1>1, WsTypeInit
<1>4. Phased
  BY <1>1 DEF WsInit, Phased
<1>5. FromUser /\ Arrived /\ NotYet
  BY <1>1, <1>2 DEF WsInit, FromUser, Live, Arrived, NotYet
<1>6. WorkKept /\ FailedApplyLeavesSource
  BY <1>1 DEF WsInit, WorkKept, FailedApplyLeavesSource
<1> QED
  BY <1>3, <1>4, <1>5, <1>6 DEF WsInv

THEOREM WsInvHolds ==
    WsSpec => []WsInv
<1>1. WsInv /\ [WsNext]_wsVars => WsInv'
  BY WsTypeStep, PhasedStep, FromUserStep, ArrivedStep, NotYetStep, FailedApplyStep, WorkKeptStep DEF WsInv
<1> QED
  BY WsInvInit, <1>1, PTL DEF WsSpec

\* What the agent wrote outlives a session that closes in order: for any
\* files, edits and commits of the user and any faults, it is in the source,
\* or was replaced there by the user, or is in a recovery patch
\* (workspace.py: apply, core.py: Agent.close).
THEOREM WorkKeptHolds ==
    WsSpec => []WorkKept
<1>1. WsInv => WorkKept
  BY DEF WsInv
<1> QED
  BY <1>1, WsInvHolds, PTL

\* An apply that is refused or fails leaves each file as the apply found it,
\* as the user wrote it since, or as the backup has it with a text of the
\* user's (workspace.py: _sync and the rollback in apply).
THEOREM FailedApplyHolds ==
    WsSpec => []FailedApplyLeavesSource
<1>1. WsInv => FailedApplyLeavesSource
  BY DEF WsInv
<1> QED
  BY <1>1, WsInvHolds, PTL

\* In a Git repository, a text that the user wrote is replaced by the agent's
\* only where the workspace comes from it, however edits and commits fall
\* between the snapshot, the checks and the merge.
THEOREM UserWorkSurvivesHolds ==
    WsSpec => UserWorkSurvives
<1> DEFINE Safe == backend # "copy" => \A f \in Sources : Overwritten(f) => source[f] = origin[f]
<1>1. WsInv /\ [WsNext]_wsVars => [Safe]_wsVars
  <2>1. SUFFICES ASSUME WsInv, WsNext, backend # "copy", NEW f \in Sources, Overwritten(f)
                 PROVE  source[f] = origin[f]
    OBVIOUS
  <2>2. source'[f] # source[f] /\ source'[f][1] = "agent"
    BY <2>1 DEF Overwritten
  <2>3. ~ \E g \in Sources : UserEdits(g)
    <3>1. SUFFICES ASSUME NEW g \in Sources, UserEdits(g) PROVE FALSE
      OBVIOUS
    <3>2. source \in [Sources -> Texts] /\ source' = [source EXCEPT ![g] = <<"user", userTexts + 1>>]
      BY <2>1, <3>1, FilesFinite DEF UserEdits, WsInv
    <3> QED
      BY <2>2, <3>2
  <2>4. ~(Backup \/ Sync \/ SyncFails)
    BY <2>1 DEF WsInv, Phased, Backup, Sync, SyncFails
  <2>5. Merge
    BY <2>1, <2>2, <2>3, <2>4 DEF WsNext, HashSource, Materialize, CreateFails, Turn, Skip, Apply, Refuse,
       Close, KillAgent, ResolveWorktree, Discard, UserCommits
  <2>6. Fits /\ f \in Delta
    BY <2>2, <2>5 DEF Merge
  <2> QED
    BY <2>6 DEF Fits, Uncommitted, Changed
<1> QED
  BY <1>1, WsInvHolds, PTL DEF WsSpec, UserWorkSurvives

(***************************************************************************)
(* UndoHistory: the history explains the workspace.                        *)
(***************************************************************************)

CallPoints == {"idle", "write", "record", "check", "undo", "command", "reconcile", "restore"}
ChangeRecords == [file : Files, snap : Nat \X ({"none"} \union {BaseName[f] : f \in Files}),
                  isNew : BOOLEAN, was : Nat, became : Nat, command : BOOLEAN]

\* The shape of the state, as far as the argument needs it.
HistoryTypes ==
    /\ fs \in [Files -> Nat]
    /\ changes \in Seq(ChangeRecords) /\ saved \in Seq(ChangeRecords)
    /\ call \in [pc : CallPoints, files : Seq(Files), k : Nat, before : {call.before},
                 taken : {call.taken}, edits : Nat, since : Nat]
    /\ \A n \in DOMAIN snaps : snaps[n] \in Nat
    /\ undoLeft \in 0..Len(changes)
    /\ spoiled \subseteq Files /\ written \in Nat

\* changes.json is the list in memory, but for records of files of which no track is kept.
SavedFollows ==
    /\ Len(changes) <= Len(saved)
    /\ \A i \in 1..Len(changes) : saved[i] = changes[i]
    /\ \A i \in (Len(changes) + 1)..Len(saved) : saved[i].file \in spoiled

\* A record names a snapshot that is there, and whose number no later call takes; what it holds is
\* what the file was.
SnapshotsKept ==
    \A i \in DOMAIN saved :
        /\ ~saved[i].isNew /\ ~saved[i].command =>
               saved[i].snap \in DOMAIN snaps /\ saved[i].snap[1] <= i
        /\ saved[i].file \notin spoiled => Preimage(saved[i]) = saved[i].was

\* What the call under way has copied.
CallSound ==
    /\ undoLeft > 0 => call.pc \in {"idle", "undo"}
    /\ call.pc \notin {"idle", "check", "undo"} =>
           call.before \in [Files -> Nat] /\ call.since \in 0..Len(changes)
    /\ call.pc \in {"write", "command", "reconcile"} => call.since = Len(changes)
    /\ call.pc \in {"write", "record"} =>
           /\ call.k \in 1..Len(call.files)
           /\ \A i, j \in DOMAIN call.files : call.files[i] = call.files[j] => i = j
           /\ \A i \in DOMAIN call.files :
                  LET f == call.files[i] IN
                  /\ call.taken[f] # NoSnapshot =>
                         /\ call.taken[f] \in DOMAIN snaps
                         /\ call.taken[f] = <<call.since + 1, BaseName[f]>>
                  /\ f \notin spoiled =>
                         IF call.taken[f] = NoSnapshot THEN call.before[f] = Missing
                         ELSE snaps[call.taken[f]] = call.before[f]

\* How far the records of a file have come, at each point of a call.
Tracked ==
    \A f \in Files \ spoiled :
        /\ call.pc \in {"idle", "check", "undo"} => Leads(changes, f, fs[f])
        /\ call.pc \in {"write", "command", "reconcile"} => Leads(changes, f, call.before[f])
        /\ call.pc = "write" /\ (\A i \in 1..(call.k - 1) : call.files[i] # f) =>
               fs[f] = call.before[f]
        /\ call.pc = "record" =>
               IF \E i \in call.k..Len(call.files) : call.files[i] = f
               THEN Leads(changes, f, call.before[f]) ELSE Leads(changes, f, fs[f])
        /\ call.pc = "restore" =>
               /\ Leads(SubSeq(changes, 1, call.since), f, call.before[f])
               /\ fs[f] = call.before[f] => Leads(changes, f, call.before[f])

HistoryInv == HistoryTypes /\ SavedFollows /\ SnapshotsKept /\ CallSound /\ Tracked

-----------------------------------------------------------------------------
(* Lists of records. *)

\* A list with the same records of a file leads to the same version.
LEMMA LeadsSame ==
    ASSUME NEW r, NEW s, NEW f, NEW v, RecordsOf(s, f) = RecordsOf(r, f),
           \A i \in RecordsOf(r, f) : s[i] = r[i], Leads(r, f, v)
    PROVE  Leads(s, f, v)
  BY DEF Leads

\* One record more, which goes on where the others ended.
LEMMA LeadsMore ==
    ASSUME NEW r, NEW s, NEW f, NEW v, NEW w, NEW p \in Int, RecordsOf(r, f) \subseteq Int,
           RecordsOf(s, f) = RecordsOf(r, f) \union {p},
           \A i \in RecordsOf(r, f) : i < p /\ s[i] = r[i],
           s[p].was = v, s[p].became = w, Leads(r, f, v)
    PROVE  Leads(s, f, w)
<1> DEFINE own == RecordsOf(r, f)
           more == RecordsOf(s, f)
           first == IF f \in Existing THEN First ELSE Missing
<1>1. /\ own = {} => v = first
      /\ \A i \in own :
             /\ (\A j \in own : i <= j) => r[i].was = first
             /\ (\A j \in own : j <= i) => r[i].became = v
             /\ \A j \in own : i < j /\ ~(\E k \in own : i < k /\ k < j) => r[i].became = r[j].was
  BY DEF Leads
<1>2. more = own \union {p} /\ own \subseteq Int /\ \A i \in own : i < p /\ s[i] = r[i]
  OBVIOUS
<1> HIDE DEF own, more, first
<1>3. ASSUME NEW i \in more, \A j \in more : i <= j PROVE s[i].was = first
  <2>1. CASE i = p
    <3>1. own = {}
      BY <2>1, <1>2, <1>3
    <3> QED BY <3>1, <2>1, <1>1
  <2>2. CASE i \in own
    BY <2>2, <1>1, <1>2, <1>3
  <2> QED BY <2>1, <2>2, <1>2
<1>4. ASSUME NEW i \in more, \A j \in more : j <= i PROVE s[i].became = w
  <2>1. i = p
    BY <1>2, <1>4
  <2> QED BY <2>1
<1>5. ASSUME NEW i \in more, NEW j \in more, i < j, ~(\E k \in more : i < k /\ k < j)
      PROVE  s[i].became = s[j].was
  <2>1. i \in own
    BY <1>2, <1>5
  <2>2. CASE j = p
    <3>1. \A k \in own : k <= i
      BY <2>1, <2>2, <1>2, <1>5
    <3> QED BY <3>1, <2>1, <2>2, <1>1, <1>2
  <2>3. CASE j \in own
    BY <2>1, <2>3, <1>1, <1>2, <1>5
  <2> QED BY <2>2, <2>3, <1>2
<1>6. more # {}
  BY <1>2
<1> QED BY <1>3, <1>4, <1>5, <1>6 DEF Leads, more, first

\* Without the last record, to what that one started from.
LEMMA LeadsLess ==
    ASSUME NEW r, NEW s, NEW f, NEW v, NEW p \in Int, RecordsOf(s, f) \subseteq Int,
           RecordsOf(r, f) = RecordsOf(s, f) \union {p},
           \A i \in RecordsOf(s, f) : i < p /\ s[i] = r[i], Leads(r, f, v)
    PROVE  Leads(s, f, r[p].was)
<1> DEFINE own == RecordsOf(s, f)
           more == RecordsOf(r, f)
           first == IF f \in Existing THEN First ELSE Missing
<1>1. \A i \in more :
          /\ (\A j \in more : i <= j) => r[i].was = first
          /\ \A j \in more : i < j /\ ~(\E k \in more : i < k /\ k < j) => r[i].became = r[j].was
  BY DEF Leads
<1>2. more = own \union {p} /\ own \subseteq Int /\ \A i \in own : i < p /\ s[i] = r[i]
  OBVIOUS
<1> HIDE DEF own, more, first
<1>3. ASSUME own = {} PROVE r[p].was = first
  BY <1>1, <1>2, <1>3
<1>4. ASSUME NEW i \in own, \A j \in own : i <= j PROVE s[i].was = first
  BY <1>1, <1>2, <1>4
<1>5. ASSUME NEW i \in own, \A j \in own : j <= i PROVE s[i].became = r[p].was
  <2>1. ~(\E k \in more : i < k /\ k < p)
    BY <1>2, <1>5
  <2> QED BY <2>1, <1>1, <1>2, <1>5
<1>6. ASSUME NEW i \in own, NEW j \in own, i < j, ~(\E k \in own : i < k /\ k < j)
      PROVE  s[i].became = s[j].was
  <2>1. ~(\E k \in more : i < k /\ k < j)
    BY <1>2, <1>6
  <2>2. i \in more /\ j \in more /\ s[i] = r[i] /\ s[j] = r[j]
    BY <1>2, <1>6
  <2>3. r[i].became = r[j].was
    BY <2>1, <2>2, <1>1, <1>6
  <2> QED BY <2>2, <2>3
<1> QED BY <1>3, <1>4, <1>5, <1>6 DEF Leads, own, first

\* An appended record.
LEMMA LeadsAppend ==
    ASSUME NEW S, NEW r \in Seq(S), NEW e \in S, NEW f, NEW v, Leads(r, f, v)
    PROVE  /\ e.file # f => Leads(Append(r, e), f, v)
           /\ e.file = f /\ e.was = v => Leads(Append(r, e), f, e.became)
<1> DEFINE s == Append(r, e)
           p == Len(r) + 1
<1>1. /\ p \in Int /\ RecordsOf(r, f) \subseteq Int /\ DOMAIN s = DOMAIN r \union {p}
      /\ s[p] = e /\ \A i \in DOMAIN r : s[i] = r[i] /\ i < p
  BY DEF RecordsOf
<1> HIDE DEF s, p
<1>2. CASE e.file # f
  <2>1. RecordsOf(s, f) = RecordsOf(r, f)
    BY <1>1, <1>2 DEF RecordsOf
  <2>2. \A i \in RecordsOf(r, f) : s[i] = r[i]
    BY <1>1 DEF RecordsOf
  <2> QED BY <2>1, <2>2, <1>2, LeadsSame DEF s
<1>3. CASE e.file = f /\ e.was = v
  <2>1. RecordsOf(s, f) = RecordsOf(r, f) \union {p}
    BY <1>1, <1>3 DEF RecordsOf
  <2>2. \A i \in RecordsOf(r, f) : i < p /\ s[i] = r[i]
    BY <1>1 DEF RecordsOf
  <2>3. Leads(s, f, e.became)
    BY <2>1, <2>2, <1>1, <1>3, LeadsMore
  <2> QED BY <2>3, <1>3 DEF s
<1> QED BY <1>2, <1>3

\* All but the last.
LEMMA FrontIs ==
    ASSUME NEW S, NEW r \in Seq(S), r # <<>>
    PROVE  /\ Front(r) \in Seq(S) /\ Len(Front(r)) = Len(r) - 1 /\ DOMAIN Front(r) = 1..(Len(r) - 1)
           /\ \A i \in 1..(Len(r) - 1) : Front(r)[i] = r[i]
<1>1. Len(r) \in Nat /\ Len(r) # 0 /\ DOMAIN r = 1..Len(r) /\ \A i \in 1..Len(r) : r[i] \in S
  OBVIOUS
<1> DEFINE n == Len(r) - 1
<1>2. n \in Nat /\ SubSeq(r, 1, n) = [i \in 1..n |-> r[i]]
  BY <1>1
<1>3. SubSeq(r, 1, n) \in Seq(S) /\ Len(SubSeq(r, 1, n)) = n
  BY <1>1, <1>2
<1> QED BY <1>2, <1>3 DEF Front

\* A dropped record.
LEMMA LeadsFront ==
    ASSUME NEW S, NEW r \in Seq(S), r # <<>>, NEW f, NEW v, Leads(r, f, v)
    PROVE  /\ r[Len(r)].file # f => Leads(Front(r), f, v)
           /\ r[Len(r)].file = f => Leads(Front(r), f, r[Len(r)].was)
<1> DEFINE s == Front(r)
           p == Len(r)
<1>1. /\ p \in Int /\ RecordsOf(s, f) \subseteq Int /\ DOMAIN r = DOMAIN s \union {p}
      /\ \A i \in DOMAIN s : s[i] = r[i] /\ i < p
  <2>1. p \in Nat /\ p # 0 /\ DOMAIN r = 1..p
    OBVIOUS
  <2>2. DOMAIN s = 1..(p - 1) /\ \A i \in 1..(p - 1) : s[i] = r[i]
    BY <2>1, FrontIs
  <2> QED BY <2>1, <2>2 DEF RecordsOf
<1> HIDE DEF s, p
<1>2. \A i \in RecordsOf(s, f) : i < p /\ s[i] = r[i]
  BY <1>1 DEF RecordsOf
<1>3. CASE r[p].file # f
  <2>1. RecordsOf(s, f) = RecordsOf(r, f)
    BY <1>1, <1>3 DEF RecordsOf
  <2> QED BY <2>1, <1>2, <1>3, LeadsSame DEF s, p
<1>4. CASE r[p].file = f
  <2>1. RecordsOf(r, f) = RecordsOf(s, f) \union {p}
    BY <1>1, <1>4 DEF RecordsOf
  <2>2. Leads(s, f, r[p].was)
    BY <2>1, <1>1, <1>2, LeadsLess
  <2> QED BY <2>2, <1>4 DEF s, p
<1> QED BY <1>3, <1>4 DEF p

\* Records of other files added at the end change nothing.
LEMMA LeadsPrefix ==
    ASSUME NEW S, NEW r \in Seq(S), NEW s \in Seq(S), NEW f, NEW v, Len(r) <= Len(s),
           \A i \in 1..Len(r) : s[i] = r[i],
           \A i \in (Len(r) + 1)..Len(s) : s[i].file # f
    PROVE  Leads(r, f, v) <=> Leads(s, f, v)
<1>1. RecordsOf(s, f) = RecordsOf(r, f)
  BY DEF RecordsOf
<1>2. \A i \in RecordsOf(r, f) : s[i] = r[i]
  BY DEF RecordsOf
<1> QED BY <1>1, <1>2, LeadsSame

\* SetToSeq lists every element once.
LEMMA Listing ==
    ASSUME NEW S, IsFiniteSet(S)
    PROVE  /\ SetToSeq(S) \in Seq(S) /\ ToSet(SetToSeq(S)) = S
           /\ \A i, j \in DOMAIN SetToSeq(S) : SetToSeq(S)[i] = SetToSeq(S)[j] => i = j
<1> DEFINE n == Cardinality(S)
           l == SetToSeq(S)
<1>1. n \in Nat /\ ExistsBijection(1..n, S)
  BY FS_CardinalityType
<1>2. PICK b \in [1..n -> S] : IsInjective(b)
  BY <1>1, Zenon DEF ExistsBijection, Bijection, Injection, IsInjective
<1>3. l \in [1..n -> S] /\ IsInjective(l)
  BY <1>2, Zenon DEF SetToSeq
<1> HIDE DEF l
<1>4. l \in Injection(1..n, S)
  BY <1>3, Zenon DEF Injection, IsInjective
<1>5. l \in Surjection(1..n, S)
  <2>1. IsFiniteSet(1..n) /\ Cardinality(1..n) = n
    BY <1>1, FS_Interval
  <2> QED BY <2>1, <1>4, FS_Injection, Zenon
<1>6. l \in Seq(S) /\ DOMAIN l = 1..n
  BY <1>1, <1>3
<1>7. ToSet(l) = S
  BY <1>3, <1>5, <1>6, Zenon DEF ToSet, Surjection
<1>8. \A i, j \in DOMAIN l : l[i] = l[j] => i = j
  BY <1>3, Zenon DEF IsInjective
<1> QED BY <1>6, <1>7, <1>8 DEF l

-----------------------------------------------------------------------------
(* The steps. *)

LEMMA HistoryInvInit == HistoryInit => HistoryInv
<1> SUFFICES ASSUME HistoryInit PROVE HistoryInv
  OBVIOUS
<1> USE HistoryAssumption
<1>1. HistoryTypes
  BY DEF HistoryInit, HistoryTypes, NoCall, CallPoints, First, Missing
<1>2. SavedFollows /\ SnapshotsKept /\ CallSound
  BY DEF HistoryInit, SavedFollows, SnapshotsKept, CallSound, NoCall
<1>3. Tracked
  BY DEF HistoryInit, Tracked, NoCall, Leads, RecordsOf, First, Missing
<1> QED BY <1>1, <1>2, <1>3 DEF HistoryInv

LEMMA HistoryInvStutter == HistoryInv /\ UNCHANGED historyVars => HistoryInv'
<1> SUFFICES ASSUME HistoryInv, UNCHANGED historyVars PROVE HistoryInv'
  OBVIOUS
<1> USE DEF historyVars, counters
<1>1. HistoryTypes' /\ SavedFollows' /\ CallSound'
  BY DEF HistoryInv, HistoryTypes, SavedFollows, CallSound
<1>2. SnapshotsKept'
  BY DEF HistoryInv, SnapshotsKept, Preimage
<1>3. Tracked'
  BY DEF HistoryInv, Tracked
<1> QED BY <1>1, <1>2, <1>3 DEF HistoryInv

\* Bounded positions have a last one.
LEMMA Greatest ==
    ASSUME NEW n \in Nat, NEW S \in SUBSET (1..n), S # {}
    PROVE  \E i \in S : \A j \in S : j <= i
<1> DEFINE T == {n - i : i \in S}
<1>1. ASSUME NEW t \in T PROVE t \in Nat
  <2>1. PICK i \in S : t = n - i
    OBVIOUS
  <2> QED BY <2>1
<1>2. T # {} /\ T \in SUBSET Nat
  BY <1>1
<1>3. PICK t \in T : \A u \in T : <<u, t>> \notin OpToRel(<, Nat)
  <2> HIDE DEF T
  <2> QED BY <1>2, NatLessThanWellFounded, WFMin, Zenon
<1>4. \A u \in T : ~(u < t)
  <2> HIDE DEF T
  <2> QED BY <1>2, <1>3, Zenon DEF OpToRel
<1>5. PICK i \in S : t = n - i
  OBVIOUS
<1>6. ASSUME NEW j \in S PROVE j <= i
  <2>1. n - j \in T
    OBVIOUS
  <2>2. ~(n - j < n - i)
    BY <2>1, <1>4, <1>5
  <2> HIDE DEF T
  <2> QED BY <2>2
<1> QED BY <1>6

\* Copying files keeps all earlier copies: the new ones have a number of their own.
LEMMA HistoryInvSnapshot ==
    ASSUME HistoryInv, Idle, NEW list \in Seq(Files), list # <<>>,
           \A i, j \in DOMAIN list : list[i] = list[j] => i = j,
           NEW edits \in Nat, NEW failing \in SUBSET Files, Snapshot(list, edits, failing),
           UNCHANGED <<fs, changes, saved, undoLeft, written>>
    PROVE  HistoryInv'
<1> USE HistoryAssumption
<1> DEFINE copied == {f \in ToSet(list) : fs[f] # Missing /\ f \notin failing}
           names == {SnapshotName(f) : f \in copied}
           with(n) == {i \in DOMAIN list : list[i] \in copied /\ SnapshotName(list[i]) = n}
           last(n) == list[CHOOSE i \in with(n) : \A j \in with(n) : j <= i]
<1>1. HistoryTypes /\ SavedFollows /\ SnapshotsKept /\ CallSound /\ Tracked
  BY DEF HistoryInv
<1>2. call.pc = "idle" /\ undoLeft = 0
  BY DEF Idle, NoCall
<1>3. /\ snaps' = [n \in DOMAIN snaps \union names |-> IF n \in names THEN fs[last(n)] ELSE snaps[n]]
      /\ call' = [pc |-> "write", files |-> list, k |-> 1, before |-> fs, edits |-> edits,
                  taken |-> [f \in ToSet(list) |-> IF f \in copied THEN SnapshotName(f)
                                                    ELSE NoSnapshot],
                  since |-> Len(changes)]
      /\ spoiled' = spoiled \union failing
                      \union {f \in copied : \E g \in copied \ {f} : BaseName[g] = BaseName[f]}
  BY DEF Snapshot
<1>4. /\ call'.pc = "write" /\ call'.files = list /\ call'.k = 1 /\ call'.before = fs
      /\ call'.since = Len(changes)
      /\ call'.taken = [f \in ToSet(list) |-> IF f \in copied THEN SnapshotName(f) ELSE NoSnapshot]
  BY <1>3
<1>5. spoiled \subseteq spoiled' /\ copied \subseteq ToSet(list) /\ Len(changes) \in Nat
  BY <1>1, <1>3 DEF HistoryTypes
<1>6. \A f \in Files : SnapshotName(f) = <<Len(changes) + 1, BaseName[f]>>
  BY DEF SnapshotName
<1>7. ToSet(list) \subseteq Files /\ Len(list) \in Nat \ {0} /\ DOMAIN list = 1..Len(list)
  BY DEF ToSet
<1>8. HistoryTypes'
  <2>1. call' \in [pc : CallPoints, files : Seq(Files), k : Nat, before : {call'.before},
                   taken : {call'.taken}, edits : Nat, since : Nat]
    BY <1>3, <1>4, <1>5 DEF CallPoints
  <2>2. spoiled' \subseteq Files
    BY <1>1, <1>3, <1>7 DEF HistoryTypes
  <2>3. ASSUME NEW n \in DOMAIN snaps' PROVE snaps'[n] \in Nat
    <3>1. CASE n \in names
      <4>1. PICK i \in with(n) : \A j \in with(n) : j <= i
        <5>1. with(n) # {} /\ with(n) \subseteq 1..Len(list)
          BY <3>1, <1>7 DEF ToSet
        <5> HIDE DEF with
        <5> QED BY <5>1, <1>7, Greatest
      <4>2. (CHOOSE m \in with(n) : \A j \in with(n) : j <= m) \in with(n)
        <5> HIDE DEF with
        <5> QED BY <4>1
      <4>3. last(n) \in Files
        BY <4>2, <1>7
      <4>4. snaps'[n] = fs[last(n)]
        <5> HIDE DEF names, last
        <5> QED BY <3>1, <1>3
      <4> HIDE DEF last
      <4> QED BY <4>3, <4>4, <1>1 DEF HistoryTypes
    <3>2. CASE n \notin names
      <4> HIDE DEF names, last
      <4> QED BY <3>2, <1>1, <1>3 DEF HistoryTypes
    <3> QED BY <3>1, <3>2
  <2> QED BY <2>1, <2>2, <2>3, <1>1 DEF HistoryTypes
<1>9. SavedFollows'
  BY <1>1, <1>5 DEF SavedFollows
<1>10. ASSUME NEW n \in DOMAIN snaps, n[1] # Len(changes) + 1
       PROVE  n \in DOMAIN snaps' /\ snaps'[n] = snaps[n]
  <2>1. n \notin names
    BY <1>10, <1>6, <1>7
  <2> HIDE DEF names, last
  <2> QED BY <2>1, <1>3
<1>11. SnapshotsKept'
  <2> SUFFICES ASSUME NEW i \in DOMAIN saved
               PROVE  /\ ~saved[i].isNew /\ ~saved[i].command =>
                             saved[i].snap \in DOMAIN snaps' /\ saved[i].snap[1] <= i
                      /\ saved[i].file \notin spoiled' => Preimage(saved[i])' = saved[i].was
    BY DEF SnapshotsKept
  <2>1. saved[i] \in ChangeRecords /\ i \in 1..Len(saved) /\ Len(saved) \in Nat
    BY <1>1 DEF HistoryTypes
  <2>2. /\ ~saved[i].isNew /\ ~saved[i].command =>
               saved[i].snap \in DOMAIN snaps /\ saved[i].snap[1] <= i
        /\ saved[i].file \notin spoiled => Preimage(saved[i]) = saved[i].was
    BY <1>1 DEF SnapshotsKept
  <2>3. DOMAIN snaps \subseteq DOMAIN snaps'
    <3> HIDE DEF names, last
    <3> QED BY <1>3
  <2>4. ASSUME saved[i].file \notin spoiled' PROVE Preimage(saved[i])' = saved[i].was
    <3>1. saved[i].file \notin spoiled /\ i <= Len(changes)
      BY <2>1, <2>4, <1>1, <1>5 DEF SavedFollows
    <3>2. CASE saved[i].isNew \/ saved[i].command
      BY <3>1, <3>2, <2>2 DEF Preimage
    <3>3. CASE ~saved[i].isNew /\ ~saved[i].command
      <4>1. saved[i].snap[1] # Len(changes) + 1
        <5>1. saved[i].snap[1] \in Nat
          BY <2>1 DEF ChangeRecords
        <5> QED BY <5>1, <3>1, <3>3, <2>1, <2>2, <1>5
      <4>2. snaps'[saved[i].snap] = snaps[saved[i].snap]
        BY <4>1, <3>3, <2>2, <1>10
      <4> QED BY <4>2, <3>1, <3>3, <2>2 DEF Preimage
    <3> QED BY <3>2, <3>3
  <2> QED BY <2>2, <2>3, <2>4
<1>12. ASSUME NEW i \in DOMAIN list
       PROVE  LET f == list[i] IN
              /\ call'.taken[f] # NoSnapshot =>
                     /\ call'.taken[f] \in DOMAIN snaps'
                     /\ call'.taken[f] = <<call'.since + 1, BaseName[f]>>
              /\ f \notin spoiled' =>
                     IF call'.taken[f] = NoSnapshot THEN call'.before[f] = Missing
                     ELSE snaps'[call'.taken[f]] = call'.before[f]
  <2> DEFINE f == list[i]
  <2>1. f \in ToSet(list) /\ f \in Files
    BY <1>7 DEF ToSet
  <2>2. CASE f \notin copied
    <3>1. call'.taken[f] = NoSnapshot
      BY <2>1, <2>2, <1>4
    <3>2. f \notin spoiled' => fs[f] = Missing
      BY <2>1, <2>2, <1>3
    <3> QED BY <3>1, <3>2, <1>4
  <2>3. CASE f \in copied
    <3>1. call'.taken[f] = SnapshotName(f) /\ SnapshotName(f) = <<Len(changes) + 1, BaseName[f]>>
      BY <2>1, <2>3, <1>4, <1>6
    <3>2. SnapshotName(f) \in names
      BY <2>3
    <3>3. SnapshotName(f) \in DOMAIN snaps' /\ snaps'[SnapshotName(f)] = fs[last(SnapshotName(f))]
      <4> HIDE DEF names, last
      <4> QED BY <3>2, <1>3
    <3>4. ASSUME f \notin spoiled' PROVE last(SnapshotName(f)) = f
      <4>1. \A g \in copied \ {f} : BaseName[g] # BaseName[f]
        BY <2>3, <3>4, <1>3
      <4>2. \A g \in copied : SnapshotName(g) = SnapshotName(f) => g = f
        BY <4>1, <1>6, <1>7
      <4>3. with(SnapshotName(f)) = {i}
        BY <4>2, <2>3
      <4>4. \A j \in with(SnapshotName(f)) : j <= i
        BY <4>3, <1>7
      <4>5. (CHOOSE m \in with(SnapshotName(f)) : \A j \in with(SnapshotName(f)) : j <= m) = i
        <5> HIDE DEF with
        <5> QED BY <4>3, <4>4
      <4> QED BY <4>5
    <3>5. SnapshotName(f) # NoSnapshot
      BY <3>1, <1>5 DEF NoSnapshot
    <3> HIDE DEF last, names, copied
    <3> QED BY <3>1, <3>3, <3>4, <3>5, <1>4
  <2> QED BY <2>2, <2>3
<1>13. CallSound'
  <2>1. call'.before \in [Files -> Nat] /\ call'.since \in 0..Len(changes)
    BY <1>1, <1>4, <1>5 DEF HistoryTypes
  <2>2. 1 \in 1..Len(list)
    BY <1>7
  <2>3. undoLeft' = 0
    BY <1>2
  <2>4. \A i, j \in DOMAIN call'.files : call'.files[i] = call'.files[j] => i = j
    BY <1>4
  <2>5. \A i \in DOMAIN call'.files :
            LET f == call'.files[i] IN
            /\ call'.taken[f] # NoSnapshot =>
                   /\ call'.taken[f] \in DOMAIN snaps'
                   /\ call'.taken[f] = <<call'.since + 1, BaseName[f]>>
            /\ f \notin spoiled' =>
                   IF call'.taken[f] = NoSnapshot THEN call'.before[f] = Missing
                   ELSE snaps'[call'.taken[f]] = call'.before[f]
    BY <1>4, <1>12 DEF Missing
  <2>6. /\ call'.pc = "write" /\ call'.k \in 1..Len(call'.files)
        /\ call'.since = Len(changes')
    BY <2>2, <1>4
  <2> QED BY <2>1, <2>3, <2>4, <2>5, <2>6 DEF CallSound
<1>14. Tracked'
  BY <1>1, <1>2, <1>4, <1>5 DEF Tracked
<1> QED BY <1>8, <1>9, <1>11, <1>13, <1>14 DEF HistoryInv

LEMMA HistoryInvBegin ==
    ASSUME HistoryInv, NEW f \in Files, BeginEdit(f)
    PROVE  HistoryInv'
<1>1. <<f>> \in Seq(Files) /\ <<f>> # <<>> /\ \A i, j \in DOMAIN <<f>> : <<f>>[i] = <<f>>[j] => i = j
  OBVIOUS
<1> DEFINE l == <<f>>
<1>2. Idle /\ UNCHANGED <<fs, changes, saved, undoLeft, written>>
  BY DEF BeginEdit
<1>3. PICK failing \in SUBSET Files : Snapshot(l, 1, failing)
  <2>1. {} \in SUBSET Files /\ {f} \in SUBSET Files
    OBVIOUS
  <2> QED BY <2>1, Zenon DEF BeginEdit
<1>4. 1 \in Nat
  OBVIOUS
<1> HIDE DEF l
<1> QED BY <1>1, <1>2, <1>3, <1>4, HistoryInvSnapshot DEF l

LEMMA HistoryInvBeginMulti ==
    ASSUME HistoryInv, NEW fg \in SUBSET Files, fg # {}, NEW n \in Nat,
           BeginMultiEdit(SetToSeq(fg), n)
    PROVE  HistoryInv'
<1>1. IsFiniteSet(fg)
  BY HistoryAssumption, FS_Subset
<1> DEFINE l == SetToSeq(fg)
<1>2. l \in Seq(fg) /\ ToSet(l) = fg /\ \A i, j \in DOMAIN l : l[i] = l[j] => i = j
  BY <1>1, Listing
<1>3. Snapshot(l, n, {}) /\ Idle /\ UNCHANGED <<fs, changes, saved, undoLeft, written>>
  BY DEF BeginMultiEdit
<1> HIDE DEF l
<1>4. l \in Seq(Files) /\ l # <<>>
  BY <1>2 DEF ToSet
<1> QED BY <1>2, <1>3, <1>4, HistoryInvSnapshot

\* The records of other files, and all when more files are spoiled, stay as they are.
LEMMA RecordsStay ==
    ASSUME HistoryInv, UNCHANGED <<snaps, changes, saved>>, spoiled \subseteq spoiled'
    PROVE  SavedFollows' /\ SnapshotsKept'
<1>1. SavedFollows'
  BY DEF HistoryInv, SavedFollows
<1>2. SnapshotsKept'
  BY DEF HistoryInv, SnapshotsKept, Preimage
<1> QED BY <1>1, <1>2

LEMMA NextFileIs ==
    ASSUME HistoryTypes, NEW next \in CallPoints, NextFile(next), call.k \in 1..Len(call.files)
    PROVE  /\ call' \in [pc : CallPoints, files : Seq(Files), k : Nat, before : {call'.before},
                         taken : {call'.taken}, edits : Nat, since : Nat]
           /\ call'.files = call.files /\ call'.before = call.before /\ call'.taken = call.taken
           /\ call'.since = call.since
           /\ call.k < Len(call.files) => call'.pc = call.pc /\ call'.k = call.k + 1
           /\ ~(call.k < Len(call.files)) => call'.pc = next /\ call'.k = 1
<1>1. call \in [pc : CallPoints, files : Seq(Files), k : Nat, before : {call.before},
                taken : {call.taken}, edits : Nat, since : Nat]
  BY DEF HistoryTypes
<1>2. CASE call.k < Len(call.files)
  <2>1. call' = [call EXCEPT !.k = call.k + 1]
    BY <1>2 DEF NextFile
  <2> QED BY <1>1, <1>2, <2>1
<1>3. CASE ~(call.k < Len(call.files))
  <2>1. call' = [call EXCEPT !.pc = next, !.k = 1]
    BY <1>3 DEF NextFile
  <2> QED BY <1>1, <1>3, <2>1
<1> QED BY <1>2, <1>3

LEMMA HistoryInvWrite ==
    ASSUME HistoryInv, Write
    PROVE  HistoryInv'
<1> DEFINE k == call.k
           n == Len(call.files)
<1>1. HistoryTypes /\ SavedFollows /\ SnapshotsKept /\ CallSound /\ Tracked
  BY DEF HistoryInv
<1>2. /\ call.pc = "write" /\ undoLeft = 0 /\ k \in 1..n /\ n \in Nat
      /\ call.files \in Seq(Files) /\ Current = call.files[k] /\ Current \in Files
  BY <1>1 DEF Write, At, CallSound, HistoryTypes, Current
<1>3. /\ fs' = [fs EXCEPT ![Current] = NewVersion] /\ NewVersion \in Nat
      /\ UNCHANGED <<snaps, changes, saved, undoLeft, spoiled>> /\ written' \in Nat
  BY <1>1 DEF Write, NewVersion, First, HistoryTypes
<1>4. /\ call' \in [pc : CallPoints, files : Seq(Files), k : Nat, before : {call'.before},
                    taken : {call'.taken}, edits : Nat, since : Nat]
      /\ call'.files = call.files /\ call'.before = call.before /\ call'.taken = call.taken
      /\ call'.since = call.since
      /\ k < n => call'.pc = "write" /\ call'.k = k + 1
      /\ ~(k < n) => call'.pc = "record" /\ call'.k = 1
  BY <1>1, <1>2, NextFileIs DEF Write, CallPoints
<1>5. HistoryTypes'
  BY <1>1, <1>2, <1>3, <1>4 DEF HistoryTypes
<1>6. SavedFollows' /\ SnapshotsKept'
  BY <1>3, RecordsStay
<1>7. CallSound'
  <2>1. call'.k \in 1..n /\ call'.pc \in {"write", "record"}
    BY <1>2, <1>4
  <2> QED BY <2>1, <1>1, <1>2, <1>3, <1>4 DEF CallSound
<1>8. Tracked'
  <2> SUFFICES ASSUME NEW f \in Files \ spoiled
               PROVE  /\ call'.pc = "write" => Leads(changes, f, call.before[f])
                      /\ call'.pc = "write" /\ (\A i \in 1..(call'.k - 1) : call.files[i] # f) =>
                             fs'[f] = call.before[f]
                      /\ call'.pc = "record" =>
                             IF \E i \in call'.k..n : call.files[i] = f
                             THEN Leads(changes, f, call.before[f]) ELSE Leads(changes, f, fs'[f])
    BY <1>2, <1>3, <1>4 DEF Tracked
  <2>1. /\ Leads(changes, f, call.before[f])
        /\ (\A i \in 1..(k - 1) : call.files[i] # f) => fs[f] = call.before[f]
    BY <1>1, <1>2 DEF Tracked
  <2>2. ASSUME \A i \in 1..k : call.files[i] # f PROVE fs'[f] = call.before[f]
    <3>1. f # Current /\ \A i \in 1..(k - 1) : call.files[i] # f
      BY <2>2, <1>2
    <3> QED BY <3>1, <2>1, <1>1, <1>3 DEF HistoryTypes
  <2>3. CASE k < n
    BY <2>1, <2>2, <2>3, <1>2, <1>4
  <2>4. CASE ~(k < n)
    <3>1. k = n
      BY <2>4, <1>2
    <3> QED BY <3>1, <2>1, <2>2, <2>4, <1>4
  <2> QED BY <2>3, <2>4
<1> QED BY <1>5, <1>6, <1>7, <1>8 DEF HistoryInv

\* A call that ends without having changed a file.
LEMMA IdleCall ==
    ASSUME HistoryInv, call' = NoCall, fs' \in [Files -> Nat], UNCHANGED <<snaps, changes, saved>>,
           undoLeft' \in 0..Len(changes), spoiled \subseteq spoiled', spoiled' \subseteq Files,
           written' \in Nat,
           \A f \in Files \ spoiled' : Leads(changes, f, fs'[f])
    PROVE  HistoryInv'
<1>1. HistoryTypes'
  BY DEF HistoryInv, HistoryTypes, NoCall, CallPoints
<1>2. SavedFollows' /\ SnapshotsKept'
  BY RecordsStay
<1>3. CallSound' /\ Tracked'
  BY DEF CallSound, Tracked, NoCall
<1> QED BY <1>1, <1>2, <1>3 DEF HistoryInv

LEMMA HistoryInvWriteFails ==
    ASSUME HistoryInv, WriteFails
    PROVE  HistoryInv'
<1>1. HistoryTypes /\ CallSound /\ Tracked
  BY DEF HistoryInv
<1>2. /\ call.pc = "write" /\ undoLeft = 0 /\ call.before \in [Files -> Nat]
      /\ call.k \in 1..Len(call.files) /\ Len(call.files) \in Nat
  BY <1>1 DEF WriteFails, At, CallSound, HistoryTypes
<1>3. /\ fs' = [f \in Files |-> IF f \in Replaced THEN call.before[f] ELSE fs[f]]
      /\ call' = NoCall /\ UNCHANGED <<snaps, changes, saved, undoLeft, spoiled, written>>
  BY DEF WriteFails
<1>4. fs' \in [Files -> Nat]
  BY <1>1, <1>2, <1>3 DEF HistoryTypes
<1>5. ASSUME NEW f \in Files \ spoiled PROVE fs'[f] = call.before[f]
  <2>1. (\A i \in 1..(call.k - 1) : call.files[i] # f) => fs[f] = call.before[f]
    BY <1>1, <1>2 DEF Tracked
  <2>2. f \notin Replaced => fs[f] = call.before[f]
    BY <2>1 DEF Replaced
  <2> QED BY <2>2, <1>3
<1>6. \A f \in Files \ spoiled' : Leads(changes, f, fs'[f])
  BY <1>1, <1>2, <1>3, <1>5 DEF Tracked
<1> QED BY <1>1, <1>3, <1>4, <1>6, IdleCall DEF HistoryTypes

LEMMA HistoryInvRecord ==
    ASSUME HistoryInv, Record
    PROVE  HistoryInv'
<1> DEFINE k == call.k
           n == Len(call.files)
           cur == call.files[k]
           e == ChangeEntry(Current)
           p == Len(changes) + 1
<1>1. HistoryTypes /\ SavedFollows /\ SnapshotsKept /\ CallSound /\ Tracked
  BY DEF HistoryInv
<1>2. /\ call.pc = "record" /\ undoLeft = 0 /\ k \in 1..n /\ n \in Nat
      /\ call.files \in Seq(Files) /\ Current = cur /\ cur \in Files
      /\ call.before \in [Files -> Nat] /\ call.since \in 0..Len(changes)
      /\ fs \in [Files -> Nat] /\ p \in Nat /\ changes \in Seq(ChangeRecords)
      /\ \A i, j \in 1..n : call.files[i] = call.files[j] => i = j
  <2>1. call.pc = "record" /\ undoLeft = 0 /\ call.files \in Seq(Files)
    BY <1>1 DEF Record, At, HistoryTypes
  <2>2. k \in 1..n /\ n \in Nat /\ \A i, j \in 1..n : call.files[i] = call.files[j] => i = j
    BY <2>1, <1>1 DEF CallSound
  <2>3. call.before \in [Files -> Nat] /\ call.since \in 0..Len(changes)
    BY <2>1, <1>1 DEF CallSound
  <2>4. fs \in [Files -> Nat] /\ p \in Nat /\ changes \in Seq(ChangeRecords)
    BY <1>1 DEF HistoryTypes
  <2> QED BY <2>1, <2>2, <2>3, <2>4 DEF Current
<1>3. UNCHANGED <<fs, snaps, undoLeft, written>>
  BY DEF Record
<1>4. ASSUME NEW f \in Files \ spoiled
      PROVE  IF \E i \in k..n : call.files[i] = f
             THEN Leads(changes, f, call.before[f]) ELSE Leads(changes, f, fs[f])
  BY <1>1, <1>2 DEF Tracked
<1>5. CASE /\ Commit(Append(changes, e))
           /\ NextFile("check") /\ Fine /\ UNCHANGED spoiled
  <2>1. /\ e.file = cur /\ e.snap = call.taken[cur] /\ e.isNew = (call.taken[cur] = NoSnapshot)
        /\ e.was = call.before[cur] /\ e.became = fs[cur] /\ e.command = FALSE
    BY <1>2 DEF ChangeEntry
  <2>2. /\ call.taken[cur] # NoSnapshot =>
               /\ call.taken[cur] \in DOMAIN snaps
               /\ call.taken[cur] = <<call.since + 1, BaseName[cur]>>
        /\ cur \notin spoiled =>
               IF call.taken[cur] = NoSnapshot THEN call.before[cur] = Missing
               ELSE snaps[call.taken[cur]] = call.before[cur]
    <3>1. k \in DOMAIN call.files
      BY <1>2
    <3>2. \A i \in DOMAIN call.files :
              LET f == call.files[i] IN
              /\ call.taken[f] # NoSnapshot =>
                     /\ call.taken[f] \in DOMAIN snaps
                     /\ call.taken[f] = <<call.since + 1, BaseName[f]>>
              /\ f \notin spoiled =>
                     IF call.taken[f] = NoSnapshot THEN call.before[f] = Missing
                     ELSE snaps[call.taken[f]] = call.before[f]
      BY <1>1, <1>2, Zenon DEF CallSound
    <3> QED BY <3>1, <3>2, Zenon
  <2>3. e \in ChangeRecords
    <3>1. call.taken[cur] \in Nat \X ({"none"} \union {BaseName[f] : f \in Files})
      <4>1. CASE call.taken[cur] = NoSnapshot
        BY <4>1 DEF NoSnapshot
      <4>2. CASE call.taken[cur] # NoSnapshot
        <5>1. call.since + 1 \in Nat /\ BaseName[cur] \in {"none"} \union {BaseName[f] : f \in Files}
          BY <1>2
        <5>2. call.taken[cur] = <<call.since + 1, BaseName[cur]>>
          BY <4>2, <2>2, Zenon
        <5> HIDE DEF k, n, cur, p, e
        <5> QED BY <5>1, <5>2
      <4> QED BY <4>1, <4>2
    <3>2. fs[cur] \in Nat /\ call.before[cur] \in Nat /\ (call.taken[cur] = NoSnapshot) \in BOOLEAN
      BY <1>2
    <3> QED BY <3>1, <3>2, <1>2 DEF ChangeEntry, ChangeRecords
  <2> HIDE DEF e
  <2>4. /\ changes' = Append(changes, e) /\ saved' = changes' /\ changes' \in Seq(ChangeRecords)
        /\ Len(changes') = p /\ changes'[p] = e /\ \A i \in 1..Len(changes) : changes'[i] = changes[i]
        /\ UNCHANGED <<spoiled, mishaps>>
    BY <1>2, <1>5, <2>3 DEF Commit, Fine
  <2>5. /\ call' \in [pc : CallPoints, files : Seq(Files), k : Nat, before : {call'.before},
                      taken : {call'.taken}, edits : Nat, since : Nat]
        /\ call'.files = call.files /\ call'.before = call.before /\ call'.taken = call.taken
        /\ call'.since = call.since
        /\ k < n => call'.pc = "record" /\ call'.k = k + 1
        /\ ~(k < n) => call'.pc = "check" /\ call'.k = 1
    <3>1. "check" \in CallPoints
      BY DEF CallPoints
    <3> QED BY <3>1, <1>1, <1>2, <1>5, NextFileIs
  <2>6. HistoryTypes'
    <3>1. undoLeft' \in 0..Len(changes')
      BY <1>2, <1>3, <2>4
    <3>2. /\ fs' = fs /\ snaps' = snaps /\ spoiled' = spoiled /\ written' = written
          /\ changes' \in Seq(ChangeRecords) /\ saved' \in Seq(ChangeRecords)
      BY <1>3, <2>4
    <3> HIDE DEF k, n, cur, p
    <3> QED BY <3>1, <3>2, <2>5, <1>1 DEF HistoryTypes
  <2>7. SavedFollows'
    BY <2>4 DEF SavedFollows
  <2>8. SnapshotsKept'
    <3> SUFFICES ASSUME NEW i \in DOMAIN saved'
                 PROVE  /\ ~saved'[i].isNew /\ ~saved'[i].command =>
                               saved'[i].snap \in DOMAIN snaps /\ saved'[i].snap[1] <= i
                        /\ saved'[i].file \notin spoiled => Preimage(saved'[i]) = saved'[i].was
      BY <1>3, <2>4 DEF SnapshotsKept, Preimage
    <3>1. CASE i = p
      <4>1. saved'[i] = e
        BY <3>1, <2>4
      <4>2. ~e.isNew => e.snap \in DOMAIN snaps /\ e.snap[1] <= p
        <5>1. ~e.isNew => call.since + 1 <= p
          BY <1>2
        <5> HIDE DEF k, n, cur, p
        <5>2. e.snap = call.taken[cur] /\ e.isNew = (call.taken[cur] = NoSnapshot)
          BY <2>1
        <5>3. ~e.isNew => e.snap \in DOMAIN snaps /\ e.snap = <<call.since + 1, BaseName[cur]>>
          BY <5>2, <2>2, Zenon
        <5> QED BY <5>1, <5>3
      <4>3. e.file \notin spoiled => Preimage(e) = e.was
        BY <2>1, <2>2 DEF Preimage, Missing
      <4> QED BY <4>1, <4>2, <4>3, <3>1
    <3>2. CASE i # p
      <4>1. i \in 1..Len(changes) /\ saved'[i] = changes[i]
        BY <3>2, <2>4, <1>2
      <4>2. changes[i] = saved[i] /\ i \in DOMAIN saved
        BY <4>1, <1>1 DEF SavedFollows, HistoryTypes
      <4> QED BY <4>1, <4>2, <1>1 DEF SnapshotsKept
    <3> QED BY <3>1, <3>2
  <2>9. CallSound'
    <3>1. undoLeft' = 0 /\ call'.pc \in {"record", "check"}
      BY <1>2, <1>3, <2>5
    <3>2. call'.pc = "record" => call'.k \in 1..n
      <4>1. k < n => k + 1 \in 1..n
        BY <1>2
      <4>2. ~(k < n) => call'.pc # "record"
        BY <2>5
      <4> HIDE DEF k, n
      <4> QED BY <4>1, <4>2, <2>5
    <3>3. call'.since \in 0..Len(changes')
      BY <1>2, <2>4, <2>5
    <3> QED BY <3>1, <3>2, <3>3, <1>1, <1>2, <1>3, <2>4, <2>5 DEF CallSound
  <2>10. Tracked'
    <3> SUFFICES ASSUME NEW f \in Files \ spoiled
                 PROVE  /\ call'.pc = "check" => Leads(changes', f, fs[f])
                        /\ call'.pc = "record" =>
                               IF \E i \in call'.k..n : call.files[i] = f
                               THEN Leads(changes', f, call.before[f]) ELSE Leads(changes', f, fs[f])
      <4>1. call'.pc \in {"record", "check"}
        BY <1>2, <2>5
      <4> QED BY <4>1, <1>3, <2>4, <2>5 DEF Tracked
    <3>1. CASE f = cur
      <4>1. Leads(changes, f, call.before[f])
        <5>1. k \in k..n /\ call.files[k] = f
          BY <3>1, <1>2
        <5> HIDE DEF k, n, cur, p
        <5> QED BY <5>1, <1>4
      <4>2. Leads(changes', f, fs[f])
        BY <4>1, <3>1, <1>2, <2>1, <2>3, <2>4, LeadsAppend
      <4>3. \A i \in (k + 1)..n : call.files[i] # f
        <5> SUFFICES ASSUME NEW i \in (k + 1)..n, call.files[i] = call.files[k] PROVE FALSE
          BY <3>1
        <5>1. i \in 1..n /\ i # k
          BY <1>2
        <5> HIDE DEF k, n, cur, p
        <5> QED BY <5>1, <1>2
      <4> QED BY <4>2, <4>3, <2>5, <1>2
    <3>2. CASE f # cur
      <4>1. \A v : Leads(changes, f, v) => Leads(changes', f, v)
        BY <3>2, <1>2, <2>1, <2>3, <2>4, LeadsAppend
      <4>2. (\E i \in k..n : call.files[i] = f) <=> (\E i \in (k + 1)..n : call.files[i] = f)
        <5> HIDE DEF k, n, p
        <5> QED BY <3>2, <1>2
      <4>3. CASE k < n
        BY <4>1, <4>2, <4>3, <2>5, <1>4
      <4>4. CASE ~(k < n)
        <5>1. ~ \E i \in (k + 1)..n : call.files[i] = f
          BY <4>4, <1>2
        <5> QED BY <5>1, <4>1, <4>2, <4>4, <2>5, <1>4
      <4> QED BY <4>3, <4>4
    <3> QED BY <3>1, <3>2
  <2> QED BY <2>6, <2>7, <2>8, <2>9, <2>10 DEF HistoryInv
<1>6. CASE /\ spoiled' = spoiled \union {call.files[i] : i \in k..n}
           /\ call' = NoCall
           /\ UNCHANGED <<changes, saved>>
  <2>1. ASSUME NEW f \in Files \ spoiled' PROVE Leads(changes, f, fs[f])
    <3>1. f \in Files \ spoiled /\ ~ \E i \in k..n : call.files[i] = f
      BY <2>1, <1>6
    <3> QED BY <3>1, <1>4
  <2>2. spoiled' \subseteq Files
    BY <1>1, <1>2, <1>6 DEF HistoryTypes
  <2> QED BY <2>1, <2>2, <1>1, <1>2, <1>3, <1>6, IdleCall DEF HistoryTypes
<1> QED BY <1>5, <1>6 DEF Record

LEMMA HistoryInvCheck ==
    ASSUME HistoryInv, NEW count \in Nat, Check(count)
    PROVE  HistoryInv'
<1>1. HistoryTypes /\ CallSound /\ Tracked
  BY DEF HistoryInv
<1>2. /\ call.pc = "check" /\ undoLeft' = (IF count < Len(changes) THEN count ELSE Len(changes))
      /\ call' = (IF count = 0 THEN NoCall ELSE [call EXCEPT !.pc = "undo"])
      /\ UNCHANGED <<fs, snaps, changes, saved, spoiled, written>>
  BY DEF Check, At, counters
<1>3. \A f \in Files \ spoiled : Leads(changes, f, fs[f])
  BY <1>1, <1>2 DEF Tracked
<1>4. Len(changes) \in Nat /\ undoLeft' \in 0..Len(changes)
  BY <1>1, <1>2 DEF HistoryTypes
<1>5. /\ call' \in [pc : CallPoints, files : Seq(Files), k : Nat, before : {call'.before},
                    taken : {call'.taken}, edits : Nat, since : Nat]
      /\ call'.pc \in {"idle", "undo"}
  <2>1. CASE count = 0
    BY <2>1, <1>2 DEF NoCall, CallPoints
  <2>2. CASE count # 0
    <3>1. call' = [call EXCEPT !.pc = "undo"]
      BY <2>2, <1>2
    <3>2. call \in [pc : CallPoints, files : Seq(Files), k : Nat, before : {call.before},
                    taken : {call.taken}, edits : Nat, since : Nat]
      BY <1>1 DEF HistoryTypes
    <3> QED BY <3>1, <3>2 DEF CallPoints
  <2> QED BY <2>1, <2>2
<1>6. SavedFollows' /\ SnapshotsKept'
  BY <1>2, RecordsStay
<1>7. HistoryTypes'
  BY <1>1, <1>2, <1>4, <1>5 DEF HistoryTypes
<1>8. CallSound' /\ Tracked'
  BY <1>2, <1>3, <1>5 DEF CallSound, Tracked
<1> QED BY <1>6, <1>7, <1>8 DEF HistoryInv

LEMMA HistoryInvUndo ==
    ASSUME HistoryInv, NEW n \in Nat, Undo(n)
    PROVE  HistoryInv'
<1>1. HistoryTypes /\ Tracked
  BY DEF HistoryInv
<1>2. /\ call = NoCall /\ undoLeft' = (IF n < Len(changes) THEN n ELSE Len(changes))
      /\ UNCHANGED <<fs, snaps, changes, saved, call, spoiled, written>>
  BY DEF Undo, Idle, counters
<1>3. undoLeft' \in 0..Len(changes)
  BY <1>1, <1>2 DEF HistoryTypes
<1>4. \A f \in Files \ spoiled : Leads(changes, f, fs[f])
  BY <1>1, <1>2 DEF Tracked, NoCall
<1> QED BY <1>1, <1>2, <1>3, <1>4, IdleCall DEF HistoryTypes

\* The record that is undone next, and what its file was.
LEMMA NewestIs ==
    ASSUME HistoryInv, undoLeft > 0
    PROVE  /\ changes # <<>> /\ Newest \in ChangeRecords /\ Preimage(Newest) \in Nat
           /\ Newest.file \notin spoiled => Preimage(Newest) = Newest.was
<1>1. HistoryTypes /\ SavedFollows /\ SnapshotsKept
  BY DEF HistoryInv
<1>2. changes \in Seq(ChangeRecords) /\ changes # <<>> /\ Len(changes) \in 1..Len(changes)
  BY <1>1 DEF HistoryTypes
<1>3. Newest = saved[Len(changes)] /\ Len(changes) \in DOMAIN saved /\ Newest \in ChangeRecords
  BY <1>1, <1>2 DEF Newest, SavedFollows, HistoryTypes
<1>4. /\ ~Newest.isNew /\ ~Newest.command => Newest.snap \in DOMAIN snaps
      /\ Newest.file \notin spoiled => Preimage(Newest) = Newest.was
  BY <1>1, <1>3 DEF SnapshotsKept
<1>5. Preimage(Newest) \in Nat
  BY <1>1, <1>3, <1>4 DEF Preimage, Missing, HistoryTypes, ChangeRecords
<1> QED BY <1>2, <1>3, <1>4, <1>5

LEMMA HistoryInvUndoOne ==
    ASSUME HistoryInv, UndoOne
    PROVE  HistoryInv'
<1> DEFINE r == changes[Len(changes)]
<1>1. HistoryTypes /\ SavedFollows /\ SnapshotsKept /\ CallSound /\ Tracked
  BY DEF HistoryInv
<1>2. undoLeft > 0 /\ undoLeft \in 1..Len(changes) /\ call.pc \in {"idle", "undo"}
      /\ changes \in Seq(ChangeRecords)
  BY <1>1 DEF UndoOne, CallSound, HistoryTypes
<1>3. /\ changes # <<>> /\ r \in ChangeRecords /\ Preimage(r) \in Nat
      /\ r.file \notin spoiled => Preimage(r) = r.was
  BY <1>2, NewestIs DEF Newest
<1>4. \A f \in Files \ spoiled : Leads(changes, f, fs[f])
  BY <1>1, <1>2 DEF Tracked
<1>5. /\ Front(changes) \in Seq(ChangeRecords) /\ Len(Front(changes)) = Len(changes) - 1
      /\ \A i \in 1..(Len(changes) - 1) : Front(changes)[i] = changes[i]
  BY <1>2, <1>3, FrontIs
<1>6. /\ call' = (IF undoLeft' = 0 THEN NoCall ELSE call)
      /\ UNCHANGED <<snaps, written>>
  BY DEF UndoOne
<1>7. /\ call' \in [pc : CallPoints, files : Seq(Files), k : Nat, before : {call'.before},
                    taken : {call'.taken}, edits : Nat, since : Nat]
      /\ call'.pc \in {"idle", "undo"}
  <2>1. CASE undoLeft' = 0
    BY <2>1, <1>6 DEF NoCall, CallPoints
  <2>2. CASE undoLeft' # 0
    BY <2>2, <1>1, <1>2, <1>6 DEF HistoryTypes
  <2> QED BY <2>1, <2>2
<1>8. SUFFICES /\ fs' \in [Files -> Nat] /\ changes' \in Seq(ChangeRecords)
               /\ saved' \in Seq(ChangeRecords) /\ undoLeft' \in 0..Len(changes')
               /\ spoiled' \subseteq Files /\ SavedFollows' /\ SnapshotsKept'
               /\ \A f \in Files \ spoiled' : Leads(changes', f, fs'[f])
  <2>1. HistoryTypes'
    BY <1>1, <1>6, <1>7, <1>8 DEF HistoryTypes
  <2>2. CallSound' /\ Tracked'
    BY <1>7, <1>8 DEF CallSound, Tracked
  <2> QED BY <2>1, <2>2, <1>8 DEF HistoryInv
<1>9. ASSUME fs' = [fs EXCEPT ![r.file] = Preimage(r)]
      PROVE  /\ fs' \in [Files -> Nat]
             /\ \A f \in Files \ spoiled : Leads(Front(changes), f, fs'[f])
  <2>1. r.file \in Files /\ fs \in [Files -> Nat]
    BY <1>1, <1>3 DEF HistoryTypes, ChangeRecords
  <2>2. fs' \in [Files -> Nat] /\ fs'[r.file] = Preimage(r) /\ \A f \in Files \ {r.file} : fs'[f] = fs[f]
    BY <2>1, <1>3, <1>9
  <2>3. ASSUME NEW f \in Files \ spoiled PROVE Leads(Front(changes), f, fs'[f])
    <3>1. CASE f = r.file
      BY <3>1, <2>2, <1>2, <1>3, <1>4, LeadsFront
    <3>2. CASE f # r.file
      BY <3>2, <2>2, <1>2, <1>3, <1>4, LeadsFront
    <3> QED BY <3>1, <3>2
  <2> QED BY <2>2, <2>3
<1>10. CASE /\ fs' = [fs EXCEPT ![Newest.file] = Preimage(Newest)] /\ ForgetRecord
            /\ undoLeft' = undoLeft - 1 /\ Fine /\ UNCHANGED spoiled
  <2>1. /\ changes' = Front(changes) /\ saved' = Front(changes) /\ spoiled' = spoiled
        /\ fs' = [fs EXCEPT ![r.file] = Preimage(r)] /\ undoLeft' = undoLeft - 1
    BY <1>10 DEF ForgetRecord, Newest
  <2>2. SavedFollows'
    BY <2>1, <1>5 DEF SavedFollows
  <2>3. ASSUME NEW i \in DOMAIN saved'
        PROVE  saved'[i] = saved[i] /\ i \in DOMAIN saved
    <3>1. i \in 1..(Len(changes) - 1) /\ Len(changes) \in Nat
      BY <2>1, <1>2, <1>5
    <3>2. i \in 1..Len(changes) /\ Len(saved) \in Nat /\ DOMAIN saved = 1..Len(saved)
      BY <3>1, <1>1 DEF HistoryTypes
    <3> QED BY <3>1, <3>2, <2>1, <1>1, <1>5 DEF SavedFollows
  <2>4. SnapshotsKept'
    BY <2>1, <2>3, <1>1, <1>6 DEF SnapshotsKept, Preimage
  <2> QED BY <2>1, <2>2, <2>4, <1>1, <1>2, <1>5, <1>9 DEF HistoryTypes
<1>11. CASE Mishap /\ UNCHANGED <<fs, changes, saved, spoiled>> /\ undoLeft' = undoLeft - 1
  <2>1. SavedFollows' /\ SnapshotsKept'
    BY <1>6, <1>11, RecordsStay
  <2>2. undoLeft' \in 0..Len(changes')
    BY <1>2, <1>11
  <2> QED BY <2>1, <2>2, <1>1, <1>4, <1>11 DEF HistoryTypes
<1>12. CASE /\ fs' = [fs EXCEPT ![Newest.file] = Preimage(Newest)]
            /\ changes' = Front(changes) /\ UNCHANGED saved
            /\ spoiled' = spoiled \union {Newest.file} /\ undoLeft' = 0
  <2>1. /\ changes' = Front(changes) /\ saved' = saved /\ spoiled' = spoiled \union {r.file}
        /\ fs' = [fs EXCEPT ![r.file] = Preimage(r)] /\ undoLeft' = 0 /\ r.file \in Files
    BY <1>3, <1>12 DEF Newest, ChangeRecords
  <2>2. SavedFollows'
    <3>1. Len(changes') <= Len(saved') /\ \A i \in 1..Len(changes') : saved'[i] = changes'[i]
      BY <2>1, <1>1, <1>2, <1>5 DEF SavedFollows, HistoryTypes
    <3>2. ASSUME NEW i \in (Len(changes') + 1)..Len(saved') PROVE saved'[i].file \in spoiled'
      <4>1. i = Len(changes) \/ i \in (Len(changes) + 1)..Len(saved)
        BY <3>2, <2>1, <1>2, <1>5
      <4>2. saved[Len(changes)] = r
        BY <1>1, <1>2 DEF SavedFollows
      <4> QED BY <4>1, <4>2, <2>1, <1>1 DEF SavedFollows
    <3> QED BY <3>1, <3>2 DEF SavedFollows
  <2>3. SnapshotsKept'
    BY <2>1, <1>1, <1>6 DEF SnapshotsKept, Preimage
  <2>4. undoLeft' \in 0..Len(changes')
    BY <2>1, <1>2, <1>5
  <2>5. saved' \in Seq(ChangeRecords) /\ changes' \in Seq(ChangeRecords) /\ spoiled' \subseteq Files
    BY <2>1, <1>1, <1>5 DEF HistoryTypes
  <2> QED BY <2>1, <2>2, <2>3, <2>4, <2>5, <1>9
<1> QED BY <1>10, <1>11, <1>12 DEF UndoOne

LEMMA HistoryInvBeginCommand ==
    ASSUME HistoryInv, BeginCommand
    PROVE  HistoryInv'
<1>1. HistoryTypes /\ Tracked
  BY DEF HistoryInv
<1>2. /\ call.pc = "idle" /\ undoLeft = 0
      /\ call' = [pc |-> "command", files |-> <<>>, k |-> 0, before |-> fs, taken |-> <<>>,
                  edits |-> 0, since |-> Len(changes)]
      /\ UNCHANGED <<fs, snaps, changes, saved, undoLeft, spoiled, written>>
  BY DEF BeginCommand, Idle, NoCall, counters
<1>3. Len(changes) \in Nat /\ fs \in [Files -> Nat]
  BY <1>1 DEF HistoryTypes
<1>4. HistoryTypes'
  BY <1>1, <1>2, <1>3 DEF HistoryTypes, CallPoints
<1>5. SavedFollows' /\ SnapshotsKept'
  BY <1>2, RecordsStay
<1>6. CallSound'
  BY <1>2, <1>3 DEF CallSound
<1>7. Tracked'
  BY <1>1, <1>2 DEF Tracked
<1> QED BY <1>4, <1>5, <1>6, <1>7 DEF HistoryInv

LEMMA HistoryInvRunCommand ==
    ASSUME HistoryInv, NEW wrote \in SUBSET Files, NEW removed \in SUBSET Files,
           NEW succeeds \in BOOLEAN, Cardinality(wrote) <= 1, RunCommand(wrote, removed, succeeds)
    PROVE  HistoryInv'
<1>1. HistoryTypes /\ CallSound /\ Tracked
  BY DEF HistoryInv
<1>2. /\ call.pc = "command" /\ undoLeft = 0
      /\ fs' = [f \in Files |-> IF f \in wrote THEN NewVersion
                                ELSE IF f \in removed THEN Missing ELSE fs[f]]
      /\ written' = written + Cardinality(wrote)
      /\ call' = [call EXCEPT !.pc = "reconcile", !.edits = IF succeeds THEN 1 ELSE 0]
      /\ UNCHANGED <<snaps, changes, saved, undoLeft, spoiled>>
  BY DEF RunCommand, At
<1>3. written' \in Nat /\ NewVersion \in Nat
  <2>1. Cardinality(wrote) \in Nat
    BY HistoryAssumption, FS_Subset, FS_CardinalityType
  <2> QED BY <2>1, <1>1, <1>2 DEF HistoryTypes, NewVersion, First
<1>4. fs' \in [Files -> Nat]
  BY <1>1, <1>2, <1>3 DEF HistoryTypes, Missing
<1>5. call \in [pc : CallPoints, files : Seq(Files), k : Nat, before : {call.before},
                taken : {call.taken}, edits : Nat, since : Nat]
  BY <1>1 DEF HistoryTypes
<1>6. /\ call' \in [pc : CallPoints, files : Seq(Files), k : Nat, before : {call'.before},
                    taken : {call'.taken}, edits : Nat, since : Nat]
      /\ call'.pc = "reconcile" /\ call'.before = call.before /\ call'.since = call.since
  BY <1>2, <1>5 DEF CallPoints
<1>7. HistoryTypes'
  BY <1>1, <1>2, <1>3, <1>4, <1>6 DEF HistoryTypes
<1>8. SavedFollows' /\ SnapshotsKept'
  BY <1>2, RecordsStay
<1>9. CallSound' /\ Tracked'
  BY <1>1, <1>2, <1>6 DEF CallSound, Tracked
<1> QED BY <1>7, <1>8, <1>9 DEF HistoryInv

\* The files a command has changed, each once.
LEMMA MutatedIs ==
    /\ Mutated \in Seq(Files) /\ ToSet(Mutated) = {f \in Files : fs[f] # call.before[f]}
    /\ \A i, j \in DOMAIN Mutated : Mutated[i] = Mutated[j] => i = j
<1> DEFINE S == {f \in Files : fs[f] # call.before[f]}
<1>1. IsFiniteSet(S)
  BY HistoryAssumption, FS_Subset
<1>2. Mutated = SetToSeq(S)
  BY DEF Mutated
<1> HIDE DEF S
<1>3. Mutated \in Seq(S) /\ ToSet(Mutated) = S
      /\ \A i, j \in DOMAIN Mutated : Mutated[i] = Mutated[j] => i = j
  BY <1>1, <1>2, Listing
<1>4. S \subseteq Files
  BY DEF S
<1>5. Mutated \in Seq(Files)
  BY <1>3, <1>4
<1> QED BY <1>3, <1>5 DEF S

LEMMA HistoryInvReconcile ==
    ASSUME HistoryInv, Reconcile
    PROVE  HistoryInv'
<1> DEFINE new == [i \in DOMAIN Mutated |-> CommandEntry(Mutated[i])]
           p == Len(changes)
           m == Len(Mutated)
<1>1. HistoryTypes /\ SavedFollows /\ SnapshotsKept /\ CallSound /\ Tracked
  BY DEF HistoryInv
<1>2. /\ call.pc = "reconcile" /\ undoLeft = 0 /\ call.before \in [Files -> Nat]
      /\ call.since = p /\ p \in Nat /\ changes \in Seq(ChangeRecords) /\ fs \in [Files -> Nat]
      /\ UNCHANGED <<fs, snaps, undoLeft, spoiled, written>>
  BY <1>1 DEF Reconcile, At, CallSound, HistoryTypes
<1>3. call \in [pc : CallPoints, files : Seq(Files), k : Nat, before : {call.before},
                taken : {call.taken}, edits : Nat, since : Nat]
  BY <1>1 DEF HistoryTypes
<1>4. \A f \in Files \ spoiled : Leads(changes, f, call.before[f])
  BY <1>1, <1>2 DEF Tracked
<1>5. SubSeq(changes, 1, p) = changes
  BY <1>2
<1>6. CASE /\ Commit(changes \o new)
           /\ call' = IF call.edits = 1 \/ Mutated = <<>> THEN NoCall
                                                         ELSE [call EXCEPT !.pc = "restore"]
  <2>1. \A f \in Files : /\ CommandEntry(f) \in ChangeRecords
                         /\ CommandEntry(f).file = f /\ CommandEntry(f).was = call.before[f]
                         /\ CommandEntry(f).became = fs[f] /\ CommandEntry(f).command = TRUE
                         /\ CommandEntry(f).isNew = (call.before[f] = Missing)
    <3> TAKE f \in Files
    <3>1. call.before[f] \in Nat /\ fs[f] \in Nat /\ (call.before[f] = Missing) \in BOOLEAN
      BY <1>2
    <3> QED BY <3>1 DEF CommandEntry, ChangeRecords, NoSnapshot
  <2>2. m \in Nat /\ DOMAIN Mutated = 1..m /\ \A j \in 1..m : Mutated[j] \in Files
    BY MutatedIs
  <2>3. new \in Seq(ChangeRecords) /\ Len(new) = m /\ \A j \in 1..m : new[j] = CommandEntry(Mutated[j])
    BY <2>1, <2>2
  <2> HIDE DEF new
  <2>4. /\ changes' = changes \o new /\ saved' = changes' /\ changes' \in Seq(ChangeRecords)
        /\ Len(changes') = p + m /\ \A i \in 1..p : changes'[i] = changes[i]
        /\ \A j \in 1..m : changes'[p + j] = new[j]
        /\ SubSeq(changes', 1, p) = changes
    <3>1. changes' = changes \o new /\ saved' = changes' /\ changes' \in Seq(ChangeRecords)
      BY <1>2, <1>6, <2>3 DEF Commit
    <3>2. /\ Len(changes') = p + m /\ \A i \in 1..p : changes'[i] = changes[i]
          /\ \A j \in 1..m : changes'[p + j] = new[j]
      <4>1. changes \in Seq(ChangeRecords) /\ Len(changes) = p /\ p \in Nat /\ m \in Nat
        BY <1>2, <2>2
      <4> HIDE DEF p, m
      <4>2. Len(changes \o new) = p + m
        BY <4>1, <2>3
      <4>3. \A i \in 1..(p + m) : (changes \o new)[i] = IF i <= p THEN changes[i] ELSE new[i - p]
        BY <4>1, <2>3
      <4>4. \A i \in 1..p : (changes \o new)[i] = changes[i]
        BY <4>1, <4>3
      <4>5. ASSUME NEW j \in 1..m PROVE (changes \o new)[p + j] = new[j]
        <5>1. p + j \in 1..(p + m) /\ ~(p + j <= p) /\ (p + j) - p = j
          BY <4>1
        <5> QED BY <5>1, <4>3
      <4> QED BY <3>1, <4>2, <4>4, <4>5
    <3>3. SubSeq(changes', 1, p) = changes
      BY <3>1, <3>2, <1>2, <2>2
    <3> QED BY <3>1, <3>2, <3>3
  <2> HIDE DEF p, m
  <2>5. \A i \in DOMAIN changes' : i \in 1..p \/ \E j \in 1..m : i = p + j
    <3> TAKE i \in DOMAIN changes'
    <3>1. i \in 1..(p + m)
      BY <2>4
    <3>2. CASE i > p
      <4>1. i - p \in 1..m /\ i = p + (i - p)
        BY <3>1, <3>2, <1>2, <2>2
      <4> QED BY <4>1
    <3>3. CASE ~(i > p)
      BY <3>1, <3>3, <1>2, <2>2
    <3> QED BY <3>2, <3>3
  <2>6. ASSUME NEW f \in Files \ spoiled PROVE Leads(changes', f, fs[f])
    <3>1. CASE fs[f] = call.before[f]
      <4>1. \A j \in 1..m : Mutated[j] # f
        BY <3>1, <2>2, MutatedIs DEF ToSet
      <4>2. \A i \in (p + 1)..Len(changes') : changes'[i].file # f
        <5> TAKE i \in (p + 1)..Len(changes')
        <5>1. i \in DOMAIN changes' /\ i \notin 1..p
          BY <2>4, <1>2, <2>2
        <5>2. PICK j \in 1..m : i = p + j
          BY <5>1, <2>5
        <5>3. changes'[i] = CommandEntry(Mutated[j]) /\ Mutated[j] \in Files
          BY <5>2, <2>2, <2>3, <2>4
        <5> QED BY <5>3, <4>1, <2>1
      <4>3. Leads(changes, f, fs[f])
        BY <3>1, <1>4
      <4>4. Len(changes) <= Len(changes') /\ Len(changes) = p
        BY <2>4, <2>2, <1>2 DEF p
      <4> QED BY <4>2, <4>3, <4>4, <1>2, <2>4, LeadsPrefix
    <3>2. CASE fs[f] # call.before[f]
      <4>1. f \in ToSet(Mutated)
        BY <3>2, MutatedIs
      <4>2. PICK j \in 1..m : Mutated[j] = f
        BY <4>1, <2>2 DEF ToSet
      <4>3. /\ changes'[p + j].file = f /\ changes'[p + j].was = call.before[f]
            /\ changes'[p + j].became = fs[f]
        <5>1. changes'[p + j] = CommandEntry(f)
          BY <4>2, <2>3, <2>4
        <5> QED BY <5>1, <2>1
      <4>4. RecordsOf(changes, f) \subseteq 1..p /\ p + j \in Int /\ \A i \in 1..p : i < p + j
        BY <1>2 DEF RecordsOf, p
      <4>5. RecordsOf(changes', f) = RecordsOf(changes, f) \union {p + j}
        <5>1. ASSUME NEW i \in RecordsOf(changes', f) PROVE i \in RecordsOf(changes, f) \union {p + j}
          <6>1. i \in DOMAIN changes' /\ changes'[i].file = f
            BY <5>1 DEF RecordsOf
          <6>2. CASE i \in 1..p
            <7>1. i \in DOMAIN changes /\ changes[i] = changes'[i]
              BY <6>2, <1>2, <2>4 DEF p
            <7> QED BY <7>1, <6>1 DEF RecordsOf
          <6>3. ASSUME NEW q \in 1..m, i = p + q PROVE i = p + j
            <7>1. Mutated[q] = f
              BY <6>1, <6>3, <2>1, <2>2, <2>3, <2>4
            <7>2. q = j
              BY <7>1, <4>2, <2>2, MutatedIs
            <7> QED BY <7>2, <6>3
          <6> QED BY <6>1, <6>2, <6>3, <2>5
        <5>2. ASSUME NEW i \in RecordsOf(changes, f) PROVE i \in RecordsOf(changes', f)
          <6>1. i \in 1..p /\ changes[i].file = f
            BY <4>4 DEF RecordsOf
          <6>2. i \in DOMAIN changes' /\ changes'[i] = changes[i]
            BY <6>1, <2>4, <2>2, <1>2
          <6> QED BY <6>1, <6>2 DEF RecordsOf
        <5>3. p + j \in RecordsOf(changes', f)
          <6>1. p + j \in DOMAIN changes'
            BY <2>4, <2>2, <1>2
          <6> QED BY <6>1, <4>3 DEF RecordsOf
        <5> QED BY <5>1, <5>2, <5>3
      <4>6. RecordsOf(changes, f) \subseteq Int
        BY <4>4, <1>2
      <4>7. \A i \in RecordsOf(changes, f) : i < p + j /\ changes'[i] = changes[i]
        BY <4>4, <2>4
      <4>8. Leads(changes, f, call.before[f])
        BY <1>4
      <4> QED BY <4>3, <4>4, <4>5, <4>6, <4>7, <4>8, LeadsMore
    <3> QED BY <3>1, <3>2
  <2>7. SavedFollows'
    BY <2>4 DEF SavedFollows
  <2>8. SnapshotsKept'
    <3> SUFFICES ASSUME NEW i \in DOMAIN changes'
                 PROVE  /\ ~changes'[i].isNew /\ ~changes'[i].command =>
                               changes'[i].snap \in DOMAIN snaps /\ changes'[i].snap[1] <= i
                        /\ changes'[i].file \notin spoiled => Preimage(changes'[i]) = changes'[i].was
      BY <1>2, <2>4 DEF SnapshotsKept, Preimage
    <3>1. CASE i \in 1..p
      <4>1. changes'[i] = saved[i] /\ i \in DOMAIN saved
        BY <3>1, <1>1, <2>4 DEF SavedFollows, HistoryTypes, p
      <4> QED BY <4>1, <1>1 DEF SnapshotsKept
    <3>2. ASSUME NEW j \in 1..m, i = p + j
          PROVE  changes'[i].command /\ Preimage(changes'[i]) = changes'[i].was
      <4>1. changes'[i] = CommandEntry(Mutated[j]) /\ Mutated[j] \in Files
        BY <3>2, <2>2, <2>3, <2>4
      <4> DEFINE c == CommandEntry(Mutated[j])
      <4>2. /\ c.command = TRUE /\ c.was = call.before[Mutated[j]]
            /\ c.isNew = (call.before[Mutated[j]] = Missing)
        BY <4>1, <2>1
      <4> HIDE DEF c
      <4>3. c.command /\ Preimage(c) = c.was
        BY <4>2, Zenon DEF Preimage
      <4> QED BY <4>1, <4>3 DEF c
    <3> QED BY <3>1, <3>2, <2>5
  <2>9. /\ call' \in [pc : CallPoints, files : Seq(Files), k : Nat, before : {call'.before},
                      taken : {call'.taken}, edits : Nat, since : Nat]
        /\ \/ call'.pc = "idle"
           \/ call'.pc = "restore" /\ call'.before = call.before /\ call'.since = call.since
    <3>1. CASE call' = NoCall
      BY <3>1 DEF NoCall, CallPoints
    <3>2. CASE call' = [call EXCEPT !.pc = "restore"]
      BY <3>2, <1>3 DEF CallPoints
    <3> QED BY <3>1, <3>2, <1>6
  <2>10. HistoryTypes'
    <3>1. undoLeft' \in 0..Len(changes')
      BY <1>2, <2>2, <2>4
    <3> QED BY <3>1, <1>1, <1>2, <2>4, <2>9 DEF HistoryTypes
  <2>11. CallSound'
    <3>1. p \in 0..Len(changes') /\ undoLeft' = 0
      BY <1>2, <2>2, <2>4
    <3> QED BY <3>1, <1>2, <2>9 DEF CallSound
  <2>12. Tracked'
    <3>1. \A f \in Files \ spoiled :
              /\ Leads(changes', f, fs[f])
              /\ Leads(SubSeq(changes', 1, call.since), f, call.before[f])
      BY <2>4, <2>6, <1>2, <1>4
    <3>2. \A f \in Files \ spoiled :
              /\ call'.pc = "idle" => Leads(changes', f, fs'[f])
              /\ call'.pc = "restore" =>
                   /\ Leads(SubSeq(changes', 1, call'.since), f, call'.before[f])
                   /\ fs'[f] = call'.before[f] => Leads(changes', f, call'.before[f])
      BY <3>1, <1>2, <2>9
    <3> QED BY <3>2, <1>2, <2>9 DEF Tracked
  <2> QED BY <2>7, <2>8, <2>10, <2>11, <2>12 DEF HistoryInv
<1>7. CASE call' = [call EXCEPT !.pc = "restore"] /\ UNCHANGED <<changes, saved>>
  <2>1. /\ call' \in [pc : CallPoints, files : Seq(Files), k : Nat, before : {call'.before},
                      taken : {call'.taken}, edits : Nat, since : Nat]
        /\ call'.pc = "restore" /\ call'.before = call.before /\ call'.since = call.since
    BY <1>3, <1>7 DEF CallPoints
  <2>2. HistoryTypes'
    BY <1>1, <1>2, <1>7, <2>1 DEF HistoryTypes
  <2>3. SavedFollows' /\ SnapshotsKept'
    BY <1>2, <1>7, RecordsStay
  <2>4. CallSound'
    BY <1>2, <1>7, <2>1 DEF CallSound
  <2>5. Tracked'
    <3>1. SubSeq(changes', 1, call'.since) = changes' /\ changes' = changes /\ fs' = fs
      BY <1>2, <1>5, <1>7, <2>1
    <3>2. \A f \in Files \ spoiled : Leads(SubSeq(changes', 1, call'.since), f, call'.before[f])
      BY <3>1, <1>4, <2>1
    <3>3. \A f \in Files \ spoiled : Leads(changes', f, call'.before[f])
      BY <3>1, <1>4, <2>1
    <3> QED BY <3>2, <3>3, <1>2, <2>1 DEF Tracked
  <2> QED BY <2>2, <2>3, <2>4, <2>5 DEF HistoryInv
<1> QED BY <1>6, <1>7 DEF Reconcile

LEMMA HistoryInvRestore ==
    ASSUME HistoryInv, Restore
    PROVE  HistoryInv'
<1>1. HistoryTypes /\ SavedFollows /\ SnapshotsKept /\ CallSound /\ Tracked
  BY DEF HistoryInv
<1>2. /\ call.pc = "restore" /\ undoLeft = 0 /\ call.before \in [Files -> Nat]
      /\ call.since \in 0..Len(changes) /\ Len(changes) \in Nat
      /\ changes \in Seq(ChangeRecords) /\ fs \in [Files -> Nat]
      /\ call' = NoCall /\ UNCHANGED <<snaps, undoLeft, written>>
  BY <1>1 DEF Restore, At, CallSound, HistoryTypes
<1>3. \A f \in Files \ spoiled :
          /\ Leads(SubSeq(changes, 1, call.since), f, call.before[f])
          /\ fs[f] = call.before[f] => Leads(changes, f, call.before[f])
  BY <1>1, <1>2 DEF Tracked
<1>4. CASE fs' = call.before /\ DiscardRecords /\ UNCHANGED spoiled
  <2> DEFINE less == SubSeq(changes, 1, call.since)
  <2>1. /\ less \in Seq(ChangeRecords) /\ Len(less) = call.since
        /\ \A i \in 1..call.since : less[i] = changes[i]
    BY <1>2
  <2>2. changes' = less /\ saved' = less
    BY <1>4 DEF DiscardRecords, Commit
  <2> HIDE DEF less
  <2>3. SavedFollows'
    BY <2>2 DEF SavedFollows
  <2>4. ASSUME NEW i \in DOMAIN less PROVE less[i] = saved[i] /\ i \in DOMAIN saved
    <3>1. i \in 1..call.since /\ i \in 1..Len(changes)
      BY <2>1, <1>2
    <3> QED BY <3>1, <2>1, <1>1 DEF SavedFollows, HistoryTypes
  <2>5. SnapshotsKept'
    BY <2>2, <2>4, <1>1, <1>2, <1>4 DEF SnapshotsKept, Preimage
  <2>6. HistoryTypes'
    <3>1. undoLeft' \in 0..Len(changes')
      BY <2>1, <2>2, <1>2
    <3> QED BY <3>1, <2>1, <2>2, <1>1, <1>2, <1>4 DEF HistoryTypes, NoCall, CallPoints
  <2>7. \A f \in Files \ spoiled : Leads(changes', f, fs'[f])
    BY <2>2, <1>3, <1>4 DEF less
  <2>8. CallSound' /\ Tracked'
    BY <2>7, <1>2, <1>4 DEF CallSound, Tracked, NoCall
  <2> QED BY <2>3, <2>5, <2>6, <2>8 DEF HistoryInv
<1>5. ASSUME NEW part \in SUBSET ToSet(Mutated),
             fs' = [f \in Files |-> IF f \in part THEN call.before[f] ELSE fs[f]],
             spoiled' = spoiled \union ToSet(Mutated), UNCHANGED <<changes, saved>>
      PROVE  HistoryInv'
  <2>1. fs' \in [Files -> Nat]
    BY <1>2, <1>5
  <2>2. ASSUME NEW f \in Files \ spoiled' PROVE Leads(changes, f, fs'[f])
    <3>1. fs[f] = call.before[f] /\ f \notin spoiled
      BY <2>2, <1>5, MutatedIs
    <3>2. fs'[f] = call.before[f]
      BY <3>1, <1>5
    <3> QED BY <3>1, <3>2, <1>3
  <2>3. spoiled' \subseteq Files /\ spoiled \subseteq spoiled'
    BY <1>1, <1>5, MutatedIs DEF HistoryTypes
  <2>4. undoLeft' \in 0..Len(changes) /\ written' \in Nat
    BY <1>1, <1>2 DEF HistoryTypes
  <2> QED BY <2>1, <2>2, <2>3, <2>4, <1>2, <1>5, IdleCall
<1> QED BY <1>4, <1>5 DEF Restore

LEMMA HistoryInvIntrude ==
    ASSUME HistoryInv, NEW f \in Files, Intrude(f)
    PROVE  HistoryInv'
<1>1. HistoryTypes /\ SavedFollows /\ SnapshotsKept /\ CallSound /\ Tracked
  BY DEF HistoryInv
<1>2. /\ fs' = [fs EXCEPT ![f] = NewVersion] /\ written' = written + 1
      /\ spoiled' = (IF call.pc \in {"command", "reconcile"} THEN spoiled ELSE spoiled \union {f})
      /\ UNCHANGED <<snaps, changes, saved, call, undoLeft>>
  BY DEF Intrude
<1>3. /\ written' \in Nat /\ fs' \in [Files -> Nat] /\ spoiled \subseteq spoiled'
      /\ spoiled' \subseteq Files /\ \A g \in Files \ {f} : fs'[g] = fs[g]
  BY <1>1, <1>2 DEF HistoryTypes, NewVersion, First
<1>4. HistoryTypes'
  BY <1>1, <1>2, <1>3 DEF HistoryTypes
<1>5. SavedFollows' /\ SnapshotsKept'
  BY <1>2, <1>3, RecordsStay
<1>6. CallSound'
  <2>1. \A g \in Files : g \notin spoiled' => g \notin spoiled
    BY <1>3
  <2>2. call.files \in Seq(Files)
    BY <1>1 DEF HistoryTypes
  <2> QED BY <2>1, <2>2, <1>1, <1>2 DEF CallSound
<1>7. Tracked'
  <2> SUFFICES ASSUME NEW g \in Files \ spoiled'
               PROVE  /\ call.pc \in {"idle", "check", "undo"} => Leads(changes, g, fs'[g])
                      /\ call.pc \in {"write", "command", "reconcile"} => Leads(changes, g, call.before[g])
                      /\ call.pc = "write" /\ (\A i \in 1..(call.k - 1) : call.files[i] # g) =>
                             fs'[g] = call.before[g]
                      /\ call.pc = "record" =>
                             IF \E i \in call.k..Len(call.files) : call.files[i] = g
                             THEN Leads(changes, g, call.before[g]) ELSE Leads(changes, g, fs'[g])
                      /\ call.pc = "restore" =>
                             /\ Leads(SubSeq(changes, 1, call.since), g, call.before[g])
                             /\ fs'[g] = call.before[g] => Leads(changes, g, call.before[g])
    BY <1>2 DEF Tracked
  <2>1. g \in Files \ spoiled
    BY <1>3
  <2>2. CASE g = f
    <3>1. call.pc \in {"command", "reconcile"}
      BY <2>2, <1>2
    <3> QED BY <3>1, <2>1, <1>1 DEF Tracked
  <2>3. CASE g # f
    <3>1. fs'[g] = fs[g]
      BY <2>3, <1>3
    <3> QED BY <3>1, <2>1, <1>1 DEF Tracked
  <2> QED BY <2>2, <2>3
<1> QED BY <1>4, <1>5, <1>6, <1>7 DEF HistoryInv

LEMMA HistoryInvKill ==
    ASSUME HistoryInv, KillSession
    PROVE  HistoryInv'
<1>1. HistoryTypes /\ SavedFollows /\ SnapshotsKept /\ CallSound /\ Tracked
  BY DEF HistoryInv
<1>2. /\ spoiled' = spoiled \union
             (IF call.pc \in {"idle", "undo", "check"} THEN {}
              ELSE {f \in Files : fs[f] # call.before[f]})
      /\ changes' = saved /\ call' = NoCall /\ undoLeft' = 0
      /\ UNCHANGED <<fs, snaps, saved, written>>
  BY DEF KillSession
<1>3. ASSUME NEW f \in Files \ spoiled' PROVE Leads(saved, f, fs[f])
  <2>1. f \in Files \ spoiled
    BY <1>2, <1>3
  <2>2. Leads(changes, f, fs[f])
    <3>1. CASE call.pc \in {"idle", "undo", "check"}
      BY <3>1, <2>1, <1>1 DEF Tracked
    <3>2. CASE call.pc \notin {"idle", "undo", "check"}
      <4>1. fs[f] = call.before[f]
        BY <3>2, <1>2, <1>3
      <4>2. call.pc \in {"write", "record", "command", "reconcile", "restore"}
        BY <3>2, <1>1 DEF HistoryTypes, CallPoints
      <4> QED BY <4>1, <4>2, <2>1, <1>1 DEF Tracked
    <3> QED BY <3>1, <3>2
  <2>3. \A i \in (Len(changes) + 1)..Len(saved) : saved[i].file # f
    BY <2>1, <1>1 DEF SavedFollows
  <2> QED BY <2>2, <2>3, <1>1, LeadsPrefix DEF SavedFollows, HistoryTypes
<1>4. HistoryTypes'
  BY <1>1, <1>2 DEF HistoryTypes, NoCall, CallPoints
<1>5. SavedFollows'
  BY <1>1, <1>2 DEF SavedFollows, HistoryTypes
<1>6. SnapshotsKept'
  BY <1>1, <1>2 DEF SnapshotsKept, Preimage
<1>7. CallSound' /\ Tracked'
  BY <1>2, <1>3 DEF CallSound, Tracked, NoCall
<1> QED BY <1>4, <1>5, <1>6, <1>7 DEF HistoryInv

LEMMA HistoryInvNext == HistoryInv /\ [HistoryNext]_historyVars => HistoryInv'
<1> SUFFICES ASSUME HistoryInv, [HistoryNext]_historyVars PROVE HistoryInv'
  OBVIOUS
<1>0. /\ \A n \in 0..(MaxEdits + MaxVersions) : n \in Nat
      /\ \A n \in 1..MaxEdits : n \in Nat
      /\ \A n \in 1..MaxUndo : n \in Nat
  BY HistoryAssumption
<1>1. ASSUME NEW f \in Files, BeginEdit(f) \/ Intrude(f) PROVE HistoryInv'
  BY <1>1, HistoryInvBegin, HistoryInvIntrude
<1>2. ASSUME NEW fg \in SUBSET Files, NEW n \in 1..MaxEdits, fg # {}, BeginMultiEdit(SetToSeq(fg), n)
      PROVE  HistoryInv'
  BY <1>0, <1>2, HistoryInvBeginMulti
<1>3. CASE Write \/ WriteFails \/ Record
  BY <1>3, HistoryInvWrite, HistoryInvWriteFails, HistoryInvRecord
<1>4. ASSUME NEW n \in 0..(MaxEdits + MaxVersions), Check(n) PROVE HistoryInv'
  BY <1>0, <1>4, HistoryInvCheck
<1>5. ASSUME NEW n \in 1..MaxUndo, Undo(n) PROVE HistoryInv'
  BY <1>0, <1>5, HistoryInvUndo
<1>6. CASE UndoOne \/ BeginCommand \/ Reconcile \/ Restore \/ KillSession
  BY <1>6, HistoryInvUndoOne, HistoryInvBeginCommand, HistoryInvReconcile, HistoryInvRestore,
     HistoryInvKill
<1>7. ASSUME NEW wrote \in SUBSET Files, NEW removed \in SUBSET Files, NEW succeeds \in BOOLEAN,
             Cardinality(wrote) <= 1, RunCommand(wrote, removed, succeeds)
      PROVE  HistoryInv'
  BY <1>7, HistoryInvRunCommand
<1>8. CASE UNCHANGED historyVars
  BY <1>8, HistoryInvStutter
<1> QED BY <1>1, <1>2, <1>3, <1>4, <1>5, <1>6, <1>7, <1>8 DEF HistoryNext

\* Between calls, the records of every file of which track was kept lead from what it was at first to
\* what it is now, in memory and in changes.json, and each has the preimage that its undo needs.
LEMMA HistoryInvExplains == HistoryInv => HistoryExplains
<1> SUFFICES ASSUME HistoryInv, call.pc \in {"idle", "undo"}, NEW f \in Files \ spoiled
             PROVE  Explains(changes, f) /\ Explains(saved, f)
  BY DEF HistoryExplains
<1>1. HistoryTypes /\ SavedFollows /\ SnapshotsKept /\ Tracked
  BY DEF HistoryInv
<1>2. Leads(changes, f, fs[f])
  BY <1>1 DEF Tracked
<1>3. \A i \in (Len(changes) + 1)..Len(saved) : saved[i].file # f
  BY <1>1 DEF SavedFollows
<1>4. Leads(saved, f, fs[f])
  BY <1>1, <1>2, <1>3, LeadsPrefix DEF SavedFollows, HistoryTypes
<1>5. \A i \in RecordsOf(saved, f) : Preimage(saved[i]) = saved[i].was
  BY <1>1 DEF SnapshotsKept, RecordsOf
<1>6. ASSUME NEW i \in RecordsOf(changes, f)
      PROVE  changes[i] = saved[i] /\ i \in RecordsOf(saved, f)
  <2>1. i \in 1..Len(changes) /\ changes[i].file = f
    BY <1>1 DEF RecordsOf, HistoryTypes
  <2>2. changes[i] = saved[i]
    BY <2>1, <1>1 DEF SavedFollows
  <2>3. i \in DOMAIN saved
    BY <2>1, <1>1 DEF SavedFollows, HistoryTypes
  <2> QED BY <2>1, <2>2, <2>3 DEF RecordsOf
<1> QED BY <1>2, <1>4, <1>5, <1>6 DEF Explains

\* History of the file tools: whatever was done, undone, taken back or lost in a kill, the records of a
\* file that nothing has spoiled lead from what it was at first to what it is now, and each can be undone.
THEOREM HistoryExplainsHolds == HistorySpec => []HistoryExplains
<1>1. HistoryInit => HistoryInv
  BY HistoryInvInit
<1>2. HistoryInv /\ [HistoryNext]_historyVars => HistoryInv'
  BY HistoryInvNext
<1>3. HistoryInv => HistoryExplains
  BY HistoryInvExplains
<1> QED BY <1>1, <1>2, <1>3, PTL DEF HistorySpec

(***************************************************************************)
(* StagedChange: what a staged change reports is so.                       *)
(***************************************************************************)

StagedTypes ==
    /\ plan \in Plans /\ stage \in 0..Len(plan.stages)
    /\ scPc \in {"idle", "apply", "verify", "persist", "final", "patch", "over"}
    /\ DOMAIN status = StageIds /\ DOMAIN checked = StageIds /\ DOMAIN artifact = StageIds
    /\ DOMAIN tree = Paths /\ DOMAIN backups = Paths

\* An artifact is of a stage that was completed, and so is what a resume skips.
ArtifactsTrue ==
    /\ \A i \in StageIds : artifact[i] = "COMPLETED" => i \in done
    /\ \A i \in 1..resume.last : resume.safe => i \in done

\* The gate of a stage of p, and the stages before n, when st and ch are their states and checks.
GatePassed(p, ch, i) == p.stages[i].mandatory /\ p.stages[i].commands => ch[i]
Behind(p, st, ch, n) ==
    \A i \in 1..(n - 1) :
        st[i] \in {"COMPLETED", "FAILED"} /\ (st[i] = "COMPLETED" => GatePassed(p, ch, i))
GatesSound ==
    /\ execOutcome = "COMPLETED" =>
           /\ scPc \in {"final", "over"}
           /\ \A i \in StageIds : status[i] = "COMPLETED" /\ GatePassed(plan, checked, i)
    /\ scPc \in {"apply", "verify", "persist"} =>
           /\ stage = 0 => scPc = "apply" /\ plan.stages = <<>>
           /\ stage # 0 => Behind(plan, status, checked, stage)
    /\ scPc = "persist" => GatePassed(plan, checked, stage)
    /\ scPc = "final" => execOutcome = "COMPLETED"

\* A patch goes through its files once, and a rollback is over.
OnceEach(left, past) ==
    /\ left \in Seq(Paths) /\ past \in Seq(Paths)
    /\ \A i, j \in DOMAIN left : left[i] = left[j] => i = j
    /\ \A i \in DOMAIN left : left[i] \notin ToSet(past)
PatchSound ==
    /\ scPc = "patch" => OnceEach(todo, appliedFiles)
    /\ execOutcome = "ROLLED_BACK" =>
           /\ scPc = "over"
           /\ foreignSteps = 0 => \A f \in ToSet(appliedFiles) : tree[f] = backups[f]

StagedInv == StagedTypes /\ ArtifactsTrue /\ GatesSound /\ PatchSound
StagedSafe == StagedInv /\ foreignSteps \in Nat

LEMMA PlanFacts ==
    ASSUME NEW p \in Plans
    PROVE  /\ p.files \in Seq(Paths) /\ DOMAIN p.stages = 1..Len(p.stages) /\ Len(p.stages) \in Nat
           /\ p.stages = <<>> <=> Len(p.stages) = 0
<1>1. PlanOK(p)
  BY StagedAssumption
<1> QED BY <1>1 DEF PlanOK

\* An order of the planned files has each of them once.
LEMMA SortedOnce ==
    ASSUME plan \in Plans, NEW order \in TopologicalSorts
    PROVE  OnceEach(order, <<>>)
<1> DEFINE S == Planned
<1>1. plan.files \in Seq(Paths)
  BY PlanFacts
<1>2. IsFiniteSet(S) /\ S \subseteq Paths
  <2> DEFINE k == Len(plan.files)
             a == [i \in 1..k |-> plan.files[i]]
  <2>1. k \in Nat /\ DOMAIN plan.files = 1..k
    BY <1>1
  <2>2. S = {plan.files[i] : i \in 1..k}
    BY <2>1 DEF Planned, ToSet
  <2>3. a \in Surjection(1..k, S)
    BY <2>2 DEF Surjection
  <2>4. IsFiniteSet(1..k)
    BY <2>1, FS_Interval
  <2>5. IsFiniteSet(S)
    BY <2>3, <2>4, FS_Surjection
  <2> QED BY <1>1, <2>1, <2>2, <2>5
<1>3. Cardinality(S) \in Nat
  BY <1>2, FS_CardinalityType
<1>4. order \in [1..Cardinality(S) -> S] /\ \A i, j \in DOMAIN order : order[i] = order[j] => i = j
  BY DEF TopologicalSorts, SetToSeqs, IsInjective
<1>5. order \in Seq(Paths)
  <2> DEFINE k == Cardinality(S)
  <2>1. k \in Nat /\ order \in [1..k -> Paths]
    BY <1>2, <1>3, <1>4
  <2> HIDE DEF k
  <2> QED BY <2>1
<1> QED BY <1>4, <1>5 DEF OnceEach, ToSet

\* prepare_resume stops before the first stage whose artifact is not there.
LEMMA LastSafeIs ==
    ASSUME StagedTypes
    PROVE  LastSafe \in 0..Len(plan.stages) /\ \A i \in 1..LastSafe : artifact[i] = "COMPLETED"
<1> DEFINE good == {n \in 0..Len(plan.stages) : \A i \in 1..n : artifact[i] = "COMPLETED"}
           more == good \ {0}
<1>1. Len(plan.stages) \in Nat /\ 0 \in good /\ more \in SUBSET (1..Len(plan.stages))
  BY PlanFacts DEF StagedTypes
<1>2. \E n \in good : \A m \in good : m <= n
  <2>1. CASE more = {}
    BY <1>1, <2>1
  <2>2. CASE more # {}
    <3>1. PICK n \in more : \A m \in more : m <= n
      <4> HIDE DEF more
      <4> QED BY <1>1, <2>2, Greatest
    <3>2. n \in good /\ n \in 1..Len(plan.stages) /\ good = more \union {0}
      BY <1>1
    <3> HIDE DEF good, more
    <3> QED BY <1>1, <3>1, <3>2
  <2> QED BY <2>1, <2>2
<1>3. LastSafe \in good
  <2>1. LastSafe = CHOOSE n \in good : \A m \in good : m <= n
    BY DEF LastSafe
  <2> HIDE DEF good
  <2> QED BY <1>2, <2>1
<1> QED BY <1>3

\* Steps that keep the plan, and the stages' artifacts.
LEMMA ArtifactsStay ==
    ASSUME StagedInv, UNCHANGED <<plan, artifact, resume>>, done \subseteq done'
    PROVE  ArtifactsTrue'
BY DEF StagedInv, ArtifactsTrue, StageIds

\* The next stage is entered after stages that are behind, or the execution is complete.
LEMMA EnterStep ==
    ASSUME StagedTypes, UNCHANGED plan, NEW st, DOMAIN st = StageIds, NEW n \in 1..(Len(plan.stages) + 1),
           Behind(plan, st, checked', n), EnterStage(n, st), execOutcome \notin {"COMPLETED", "ROLLED_BACK"}
    PROVE  /\ GatesSound' /\ stage' \in 0..Len(plan.stages) /\ DOMAIN status' = StageIds
           /\ scPc' \in {"apply", "final", "over"} /\ execOutcome' # "ROLLED_BACK"
<1>0. plan \in Plans /\ StageIds = 1..Len(plan.stages) /\ Len(plan.stages) \in Nat
      /\ (plan.stages = <<>> <=> Len(plan.stages) = 0)
  BY PlanFacts DEF StagedTypes, StageIds
<1>1. CASE n <= Len(plan.stages)
  <2>1. /\ stage' = n /\ status' = [st EXCEPT ![n] = "IN_PROGRESS"] /\ scPc' = "apply"
        /\ execOutcome' = execOutcome
    BY <1>1 DEF EnterStage
  <2>2. Behind(plan', status', checked', stage')
    BY <1>0, <2>1 DEF Behind
  <2> QED BY <1>0, <1>1, <2>1, <2>2 DEF GatesSound
<1>2. CASE ~(n <= Len(plan.stages))
  <2>1. n = Len(plan.stages) + 1
    BY <1>0, <1>2
  <2>2. status' = st /\ stage' = 0
    BY <1>2 DEF EnterStage
  <2>3. CASE \E i \in StageIds : st[i] = "FAILED"
    <3>1. scPc' = "over" /\ execOutcome' = execOutcome
      BY <1>2, <2>3 DEF EnterStage
    <3> QED BY <1>0, <2>2, <3>1 DEF GatesSound
  <2>4. CASE ~\E i \in StageIds : st[i] = "FAILED"
    <3>1. scPc' = "final" /\ execOutcome' = "COMPLETED"
      BY <1>2, <2>4 DEF EnterStage
    <3>2. \A i \in StageIds : st[i] = "COMPLETED" /\ GatePassed(plan, checked', i)
      BY <1>0, <2>1, <2>4 DEF Behind
    <3> QED BY <1>0, <2>2, <3>1, <3>2 DEF GatesSound, StageIds
  <2> QED BY <2>3, <2>4
<1> QED BY <1>1, <1>2

LEMMA FailStep ==
    ASSUME StagedInv, UNCHANGED plan, scPc \in {"apply", "verify"}, stage # 0, FailStage,
           \A i \in 1..(stage - 1) : checked'[i] = checked[i]
    PROVE  /\ GatesSound' /\ stage' \in 0..Len(plan.stages) /\ DOMAIN status' = StageIds
           /\ scPc' \in {"apply", "final", "over"} /\ execOutcome' # "ROLLED_BACK"
<1> DEFINE st == [status EXCEPT ![stage] = "FAILED"]
<1>0. /\ plan \in Plans /\ StageIds = 1..Len(plan.stages) /\ Len(plan.stages) \in Nat
      /\ stage \in 1..Len(plan.stages) /\ DOMAIN status = StageIds
      /\ Behind(plan, status, checked, stage)
      /\ execOutcome \notin {"COMPLETED", "ROLLED_BACK"}
  BY PlanFacts DEF StagedInv, StagedTypes, StageIds, GatesSound, PatchSound
<1>1. DOMAIN st = StageIds /\ st[stage] = "FAILED" /\ \A i \in StageIds : i # stage => st[i] = status[i]
  BY <1>0
<1>2. CASE plan.stages[stage].mandatory
  <2>1. /\ status' = [i \in StageIds |-> IF i > stage THEN "SKIPPED" ELSE st[i]]
        /\ execOutcome' = "PARTIAL" /\ scPc' = "over" /\ stage' = 0
    BY <1>2 DEF FailStage
  <2> QED BY <1>0, <2>1 DEF GatesSound
<1>3. CASE ~plan.stages[stage].mandatory
  <2>1. EnterStage(stage + 1, st)
    BY <1>3 DEF FailStage
  <2>2. Behind(plan, st, checked', stage + 1)
    <3> SUFFICES ASSUME NEW i \in 1..stage
                 PROVE  st[i] \in {"COMPLETED", "FAILED"} /\ (st[i] = "COMPLETED" => GatePassed(plan, checked', i))
      BY <1>0 DEF Behind
    <3>1. CASE i = stage
      BY <1>1, <3>1
    <3>2. CASE i # stage
      <4>1. i \in 1..(stage - 1) /\ i \in StageIds
        BY <1>0, <3>2
      <4> QED BY <1>0, <1>1, <3>2, <4>1 DEF Behind, GatePassed
    <3> QED BY <3>1, <3>2
  <2>3. stage + 1 \in 1..(Len(plan.stages) + 1)
    BY <1>0
  <2> HIDE DEF st
  <2> QED BY <1>0, <1>1, <2>1, <2>2, <2>3, EnterStep DEF StagedInv
<1> QED BY <1>2, <1>3

-----------------------------------------------------------------------------
LEMMA ExecuteStep == ASSUME StagedInv, Execute PROVE StagedInv'
<1>0. /\ scPc \in {"idle", "over"} /\ checked' = [i \in StageIds |-> FALSE]
      /\ UNCHANGED <<plan, tree, artifact, done, resume, backups, foreignSteps>>
      /\ plan \in Plans /\ StageIds = 1..Len(plan.stages) /\ Len(plan.stages) \in Nat
      /\ (plan.stages = <<>> <=> Len(plan.stages) = 0)
  BY PlanFacts DEF Execute, StagedInv, StagedTypes, StageIds
<1>1. /\ stage' \in 0..Len(plan.stages) /\ DOMAIN status' = StageIds
      /\ scPc' \in {"apply", "over"} /\ execOutcome' \in {"FAILED", "RAISED", "BLOCKED"}
      /\ scPc' = "apply" /\ stage' = 0 => plan.stages = <<>>
      /\ stage' \in {0, 1}
  BY <1>0 DEF Execute
<1>2. StagedTypes'
  BY <1>0, <1>1 DEF StagedInv, StagedTypes, StageIds
<1>3. GatesSound'
  <2>1. ASSUME stage' # 0 PROVE Behind(plan', status', checked', stage')
    <3>1. stage' = 1 /\ 1..(1 - 1) = {}
      BY <1>1, <2>1
    <3> QED BY <3>1 DEF Behind
  <2> QED BY <1>0, <1>1, <2>1 DEF GatesSound
<1>4. PatchSound'
  BY <1>1 DEF PatchSound
<1> QED BY <1>0, <1>2, <1>3, <1>4, ArtifactsStay DEF StagedInv

LEMMA ApplyFileStep == ASSUME StagedInv, ApplyFile PROVE StagedInv'
<1>0. /\ scPc = "apply" /\ tree' = [tree EXCEPT ![Head(todo)] = AfterApply(Head(todo))]
      /\ UNCHANGED <<plan, scPc, stage, status, checked, execOutcome, artifact, done, resume, backups>>
  BY DEF ApplyFile, stagedCounters
<1>1. StagedTypes' /\ GatesSound'
  BY <1>0 DEF StagedInv, StagedTypes, GatesSound, StageIds
<1>2. PatchSound'
  BY <1>0 DEF StagedInv, PatchSound
<1> QED BY <1>0, <1>1, <1>2, ArtifactsStay DEF StagedInv

LEMMA ApplyFailsStep == ASSUME StagedInv, ApplyFails PROVE StagedInv'
<1>0. /\ scPc = "apply" /\ UNCHANGED <<plan, tree, checked, artifact, done, resume, backups, foreignSteps>>
      /\ plan \in Plans /\ Len(plan.stages) \in Nat /\ stage \in 0..Len(plan.stages)
      /\ DOMAIN status = StageIds /\ execOutcome # "ROLLED_BACK"
  BY PlanFacts DEF ApplyFails, StagedInv, StagedTypes, PatchSound
<1>1. /\ GatesSound' /\ stage' \in 0..Len(plan.stages) /\ DOMAIN status' = StageIds
      /\ scPc' \in {"apply", "final", "over"} /\ execOutcome' # "ROLLED_BACK"
  <2>1. CASE stage = 0
    <3>1. execOutcome' = "PARTIAL" /\ scPc' = "over" /\ UNCHANGED <<stage, status>>
      BY <2>1 DEF ApplyFails
    <3> QED BY <1>0, <3>1 DEF GatesSound
  <2>2. CASE stage # 0
    <3>1. FailStage
      BY <2>2 DEF ApplyFails
    <3> QED BY <1>0, <2>2, <3>1, FailStep
  <2> QED BY <2>1, <2>2
<1>2. StagedTypes'
  BY <1>0, <1>1 DEF StagedInv, StagedTypes, StageIds
<1>3. PatchSound'
  BY <1>1 DEF PatchSound
<1> QED BY <1>0, <1>1, <1>2, <1>3, ArtifactsStay DEF StagedInv

LEMMA FilesAppliedStep == ASSUME StagedInv, FilesApplied PROVE StagedInv'
<1>0. /\ scPc = "apply" /\ plan \in Plans /\ StageIds = DOMAIN plan.stages
      /\ UNCHANGED <<plan, tree, stage, status, checked, appliedFiles, artifact, done, resume, backups>>
  BY DEF FilesApplied, StagedInv, StagedTypes, StageIds, stagedCounters
<1>1. /\ scPc' \in {"final", "verify", "persist"} /\ execOutcome' # "ROLLED_BACK"
      /\ GatesSound'
  <2>1. CASE stage = 0
    <3>1. execOutcome' = "COMPLETED" /\ scPc' = "final" /\ plan.stages = <<>> /\ StageIds = {}
      BY <1>0, <2>1, PlanFacts DEF FilesApplied, StagedInv, GatesSound
    <3> QED BY <1>0, <3>1 DEF GatesSound, StageIds
  <2>2. CASE stage # 0
    <3>1. /\ scPc' = IF plan.stages[stage].commands THEN "verify" ELSE "persist"
          /\ execOutcome' = execOutcome
      BY <2>2 DEF FilesApplied
    <3>2. execOutcome \notin {"COMPLETED", "ROLLED_BACK"} /\ Behind(plan, status, checked, stage)
      BY <1>0, <2>2 DEF StagedInv, GatesSound, PatchSound
    <3>3. scPc' = "persist" => GatePassed(plan, checked, stage)
      BY <3>1 DEF GatePassed
    <3> QED BY <1>0, <2>2, <3>1, <3>2, <3>3 DEF GatesSound
  <2> QED BY <2>1, <2>2
<1>2. StagedTypes'
  BY <1>0, <1>1 DEF StagedInv, StagedTypes, StageIds
<1>3. PatchSound'
  BY <1>1 DEF PatchSound
<1> QED BY <1>0, <1>1, <1>2, <1>3, ArtifactsStay DEF StagedInv

LEMMA VerifyStageStep == ASSUME StagedInv, NEW passed \in BOOLEAN, VerifyStage(passed) PROVE StagedInv'
<1>0. /\ scPc = "verify" /\ checked' = [checked EXCEPT ![stage] = passed]
      /\ UNCHANGED <<plan, tree, appliedFiles, artifact, done, resume, backups>>
      /\ plan \in Plans /\ stage \in 1..Len(plan.stages) /\ Len(plan.stages) \in Nat
      /\ DOMAIN checked = StageIds /\ DOMAIN status = StageIds /\ StageIds = 1..Len(plan.stages)
      /\ execOutcome \notin {"COMPLETED", "ROLLED_BACK"} /\ Behind(plan, status, checked, stage)
  BY PlanFacts DEF VerifyStage, StagedInv, StagedTypes, GatesSound, PatchSound, StageIds
<1>1. /\ DOMAIN checked' = StageIds /\ checked'[stage] = passed
      /\ \A i \in 1..(stage - 1) : checked'[i] = checked[i]
  BY <1>0
<1>2. /\ GatesSound' /\ stage' \in 0..Len(plan.stages) /\ DOMAIN status' = StageIds
      /\ scPc' \in {"apply", "final", "over", "persist"} /\ execOutcome' # "ROLLED_BACK"
  <2>1. CASE ~passed /\ plan.stages[stage].mandatory
    <3>1. FailStage
      BY <2>1 DEF VerifyStage
    <3> QED BY <1>0, <1>1, <3>1, FailStep
  <2>2. CASE ~(~passed /\ plan.stages[stage].mandatory)
    <3>1. scPc' = "persist" /\ UNCHANGED <<stage, status, execOutcome>>
      BY <2>2 DEF VerifyStage
    <3>2. Behind(plan, status, checked', stage)
      BY <1>0, <1>1 DEF Behind, GatePassed
    <3>3. GatePassed(plan, checked', stage)
      BY <1>1, <2>2 DEF GatePassed
    <3> QED BY <1>0, <3>1, <3>2, <3>3 DEF GatesSound
  <2> QED BY <2>1, <2>2
<1>3. StagedTypes'
  BY <1>0, <1>1, <1>2 DEF StagedInv, StagedTypes, StageIds
<1>4. PatchSound'
  BY <1>2 DEF PatchSound
<1> QED BY <1>0, <1>2, <1>3, <1>4, ArtifactsStay DEF StagedInv

LEMMA PersistStageStep == ASSUME StagedInv, PersistStage PROVE StagedInv'
<1> DEFINE st == [status EXCEPT ![stage] = "COMPLETED"]
<1>0. /\ scPc = "persist" /\ done' = done \union {stage} /\ EnterStage(stage + 1, st)
      /\ \E x \in {"COMPLETED", "torn", artifact[stage]} : artifact' = [artifact EXCEPT ![stage] = x]
      /\ UNCHANGED <<plan, tree, checked, appliedFiles, resume, backups, foreignSteps>>
      /\ plan \in Plans /\ stage \in 1..Len(plan.stages) /\ Len(plan.stages) \in Nat
      /\ DOMAIN artifact = StageIds /\ DOMAIN status = StageIds /\ StageIds = 1..Len(plan.stages)
      /\ execOutcome \notin {"COMPLETED", "ROLLED_BACK"} /\ Behind(plan, status, checked, stage)
      /\ GatePassed(plan, checked, stage)
  BY PlanFacts DEF PersistStage, StagedInv, StagedTypes, GatesSound, PatchSound, StageIds
<1>1. Behind(plan, st, checked', stage + 1)
  BY <1>0 DEF Behind
<1>2. DOMAIN st = StageIds /\ stage + 1 \in 1..(Len(plan.stages) + 1)
  BY <1>0
<1> HIDE DEF st
<1>3. /\ GatesSound' /\ stage' \in 0..Len(plan.stages) /\ DOMAIN status' = StageIds
      /\ scPc' \in {"apply", "final", "over"} /\ execOutcome' # "ROLLED_BACK"
  BY <1>0, <1>1, <1>2, EnterStep DEF StagedInv
<1>4. StagedTypes'
  BY <1>0, <1>3 DEF StagedInv, StagedTypes, StageIds
<1>5. ArtifactsTrue'
  BY <1>0 DEF StagedInv, ArtifactsTrue, StageIds
<1>6. PatchSound'
  BY <1>3 DEF PatchSound
<1> QED BY <1>3, <1>4, <1>5, <1>6 DEF StagedInv

LEMMA FinalStep == ASSUME StagedInv, NEW passed \in BOOLEAN, FinalVerification(passed) PROVE StagedInv'
<1>0. /\ scPc = "final" /\ scPc' = "over" /\ execOutcome' = IF passed THEN "COMPLETED" ELSE "PARTIAL"
      /\ UNCHANGED <<plan, tree, stage, status, checked, artifact, done, resume, backups>>
  BY DEF FinalVerification
<1>1. StagedTypes' /\ PatchSound'
  BY <1>0 DEF StagedInv, StagedTypes, PatchSound, StageIds
<1>2. GatesSound'
  BY <1>0 DEF StagedInv, GatesSound, StageIds
<1> QED BY <1>0, <1>1, <1>2, ArtifactsStay DEF StagedInv

LEMMA StartPatchStep == ASSUME StagedInv, StartPatch PROVE StagedInv'
<1>0. /\ status' = [i \in StageIds |-> "PENDING"] /\ backups' = [f \in Paths |-> NoFile]
      /\ appliedFiles' = <<>>
      /\ UNCHANGED <<plan, tree, stage, checked, artifact, done, resume>>
      /\ \/ scPc' = "patch" /\ execOutcome' = "none" /\ todo' \in TopologicalSorts
         \/ scPc' = "over" /\ execOutcome' = "REJECTED"
  BY DEF StartPatch
<1>1. StagedTypes' /\ GatesSound'
  BY <1>0 DEF StagedInv, StagedTypes, GatesSound, StageIds
<1>2. PatchSound'
  <2>1. scPc' = "patch" => OnceEach(todo', appliedFiles')
    BY <1>0, SortedOnce DEF StagedInv, StagedTypes
  <2> QED BY <1>0, <2>1 DEF PatchSound
<1> QED BY <1>0, <1>1, <1>2, ArtifactsStay DEF StagedInv

\* The first of the files that are left is written, or fails to be.
LEMMA OnceMore ==
    ASSUME NEW left, NEW past, OnceEach(left, past), left # <<>>
    PROVE  /\ OnceEach(Tail(left), Append(past, Head(left)))
           /\ Head(left) \in Paths /\ Head(left) \notin ToSet(past)
<1> DEFINE more == Append(past, Head(left))
           rest == Tail(left)
<1>1. /\ left \in Seq(Paths) /\ past \in Seq(Paths)
      /\ \A i, j \in DOMAIN left : left[i] = left[j] => i = j
      /\ \A i \in DOMAIN left : left[i] \notin ToSet(past)
  BY DEF OnceEach
<1>2. /\ rest \in Seq(Paths) /\ Head(left) = left[1] /\ 1 \in DOMAIN left /\ Head(left) \in Paths
      /\ \A i \in DOMAIN rest : i + 1 \in DOMAIN left /\ rest[i] = left[i + 1] /\ i + 1 # 1 /\ i \in Nat
  BY <1>1
<1>3. /\ more \in Seq(Paths) /\ DOMAIN more = DOMAIN past \union {Len(past) + 1}
      /\ more[Len(past) + 1] = Head(left) /\ \A i \in DOMAIN past : more[i] = past[i]
  BY <1>1, <1>2
<1> HIDE DEF more, rest
<1>4. ToSet(more) \subseteq ToSet(past) \union {Head(left)}
  BY <1>3 DEF ToSet
<1>5. \A i, j \in DOMAIN rest : rest[i] = rest[j] => i = j
  <2> SUFFICES ASSUME NEW i \in DOMAIN rest, NEW j \in DOMAIN rest, rest[i] = rest[j] PROVE i = j
    OBVIOUS
  <2>1. i + 1 = j + 1 /\ i \in Nat /\ j \in Nat
    BY <1>1, <1>2
  <2> QED BY <2>1
<1>6. \A i \in DOMAIN rest : rest[i] \notin ToSet(more)
  BY <1>1, <1>2, <1>4
<1>7. OnceEach(rest, more)
  BY <1>2, <1>3, <1>5, <1>6 DEF OnceEach
<1> QED BY <1>1, <1>2, <1>7 DEF more, rest

LEMMA PatchFileStep == ASSUME StagedInv, PatchFile PROVE StagedInv'
<1>0. /\ scPc = "patch" /\ todo # <<>>
      /\ backups' = [backups EXCEPT ![Head(todo)] = tree[Head(todo)]]
      /\ tree' = [tree EXCEPT ![Head(todo)] = IF plan.kind[Head(todo)] = "DELETE" THEN NoFile ELSE 1]
      /\ appliedFiles' = Append(appliedFiles, Head(todo)) /\ todo' = Tail(todo)
      /\ UNCHANGED <<plan, stage, status, checked, artifact, done, resume>>
      /\ execOutcome \notin {"ROLLED_BACK", "COMPLETED"}
      /\ \/ execOutcome' = "SUCCESS" /\ scPc' = "over"
         \/ UNCHANGED <<execOutcome, scPc>>
  BY DEF PatchFile, StagedInv, PatchSound, GatesSound
<1>1. StagedTypes' /\ GatesSound'
  BY <1>0 DEF StagedInv, StagedTypes, GatesSound, StageIds
<1>2. OnceEach(todo', appliedFiles')
  BY <1>0, OnceMore DEF StagedInv, PatchSound
<1>3. PatchSound'
  BY <1>0, <1>2 DEF PatchSound
<1> QED BY <1>0, <1>1, <1>3, ArtifactsStay DEF StagedInv

LEMMA PatchFailsStep == ASSUME StagedInv, PatchFails PROVE StagedInv'
<1> DEFINE h == Head(todo)
<1>0. /\ scPc = "patch" /\ todo # <<>> /\ execOutcome' = "ROLLED_BACK" /\ scPc' = "over"
      /\ backups' = [backups EXCEPT ![h] = tree[h]]
      /\ UNCHANGED <<plan, stage, status, checked, appliedFiles, artifact, done, resume>>
  BY DEF PatchFails
<1>1. PICK torn \in BOOLEAN :
          tree' = PutBack(ToSet(appliedFiles), [tree EXCEPT ![h] = IF torn THEN 2 ELSE @])
  BY DEF PatchFails
<1>2. OnceEach(todo, appliedFiles)
  BY <1>0 DEF StagedInv, PatchSound
<1>3. h \notin ToSet(appliedFiles) /\ ToSet(appliedFiles) \subseteq Paths
  <2>1. h \notin ToSet(appliedFiles)
    BY <1>0, <1>2, OnceMore
  <2>2. appliedFiles \in Seq(Paths)
    BY <1>2 DEF OnceEach
  <2> QED BY <2>1, <2>2 DEF ToSet
<1>4. DOMAIN tree' = Paths /\ DOMAIN backups' = Paths
  BY <1>0, <1>1 DEF PutBack, StagedInv, StagedTypes
<1>5. \A f \in ToSet(appliedFiles) : tree'[f] = backups[f] /\ backups'[f] = backups[f]
  BY <1>0, <1>1, <1>3 DEF PutBack, StagedInv, StagedTypes
<1>6. StagedTypes' /\ GatesSound'
  BY <1>0, <1>4 DEF StagedInv, StagedTypes, GatesSound, StageIds
<1>7. PatchSound'
  BY <1>0, <1>5 DEF PatchSound
<1> QED BY <1>0, <1>6, <1>7, ArtifactsStay DEF StagedInv

LEMMA PrepareResumeStep == ASSUME StagedInv, PrepareResume PROVE StagedInv'
<1>0. /\ scPc = "idle"
      /\ UNCHANGED <<plan, tree, scPc, stage, todo, status, checked, execOutcome, appliedFiles, artifact, done,
                     backups, foreignSteps>>
      /\ \/ resume' = [safe |-> FALSE, last |-> 0]
         \/ resume' = [safe |-> TRUE, last |-> LastSafe]
  BY DEF PrepareResume, execVars, stagedCounters
<1>1. StagedTypes' /\ GatesSound' /\ PatchSound'
  BY <1>0 DEF StagedInv, StagedTypes, GatesSound, PatchSound, StageIds
<1>2. ArtifactsTrue'
  <2>1. \A i \in 1..resume'.last : resume'.safe => i \in done
    <3>1. CASE resume' = [safe |-> FALSE, last |-> 0]
      BY <3>1
    <3>2. CASE resume' = [safe |-> TRUE, last |-> LastSafe]
      <4>1. LastSafe \in 0..Len(plan.stages) /\ \A i \in 1..LastSafe : artifact[i] = "COMPLETED"
        BY LastSafeIs DEF StagedInv
      <4>2. \A i \in 1..LastSafe : i \in StageIds
        BY <4>1, PlanFacts DEF StagedInv, StagedTypes, StageIds
      <4> QED BY <3>2, <4>1, <4>2 DEF StagedInv, ArtifactsTrue
    <3> QED BY <1>0, <3>1, <3>2
  <2> QED BY <1>0, <2>1 DEF StagedInv, ArtifactsTrue, StageIds
<1> QED BY <1>1, <1>2 DEF StagedInv

LEMMA HandlerStep ==
    ASSUME StagedInv, scPc = "over", execOutcome \in {"PARTIAL", "BLOCKED"}, scPc' = "idle",
           UNCHANGED <<plan, tree, stage, status, checked, execOutcome, artifact, done, resume, backups>>
    PROVE  StagedInv'
<1>1. StagedTypes' /\ GatesSound' /\ PatchSound'
  BY DEF StagedInv, StagedTypes, GatesSound, PatchSound, StageIds
<1> QED BY <1>1, ArtifactsStay DEF StagedInv

LEMMA ForeignStep ==
    ASSUME StagedInv, foreignSteps \in Nat, NEW f \in Paths, NEW v, Foreign(f, v)
    PROVE  StagedInv'
<1>0. /\ foreignSteps' = foreignSteps + 1 /\ tree' = [tree EXCEPT ![f] = v]
      /\ UNCHANGED <<plan, scPc, stage, todo, status, checked, execOutcome, appliedFiles, artifact, done, resume,
                     backups>>
  BY DEF Foreign, execVars
<1>1. StagedTypes' /\ GatesSound'
  BY <1>0 DEF StagedInv, StagedTypes, GatesSound, StageIds
<1>2. foreignSteps' # 0
  BY <1>0
<1>3. PatchSound'
  BY <1>0, <1>2 DEF StagedInv, PatchSound
<1> QED BY <1>0, <1>1, <1>3, ArtifactsStay DEF StagedInv

LEMMA KillStagedStep == ASSUME StagedInv, Kill PROVE StagedInv'
<1>0. /\ scPc' = "idle" /\ stage' = 0 /\ execOutcome' = "none"
      /\ status' = [i \in StageIds |-> "PENDING"] /\ checked' = [i \in StageIds |-> FALSE]
      /\ backups' = [f \in Paths |-> NoFile] /\ UNCHANGED <<plan, done, resume>>
      /\ tree' = [tree EXCEPT ![Head(todo)] = 2] \/ tree' = tree
      /\ artifact' = [artifact EXCEPT ![stage] = "torn"] \/ artifact' = artifact
  BY DEF Kill
<1>1. StagedTypes'
  BY <1>0, PlanFacts DEF StagedInv, StagedTypes, StageIds
<1>2. GatesSound' /\ PatchSound'
  BY <1>0 DEF GatesSound, PatchSound
<1>3. ArtifactsTrue'
  BY <1>0 DEF StagedInv, StagedTypes, ArtifactsTrue, StageIds
<1> QED BY <1>1, <1>2, <1>3 DEF StagedInv

-----------------------------------------------------------------------------
LEMMA StagedInvInit == StagedInit => StagedSafe
<1> SUFFICES ASSUME StagedInit PROVE StagedSafe
  OBVIOUS
<1>1. StagedTypes
  BY PlanFacts DEF StagedInit, StagedTypes, Fresh, StageIds
<1>2. ArtifactsTrue
  BY DEF StagedInit, ArtifactsTrue, StageIds
<1>3. GatesSound /\ PatchSound
  BY DEF StagedInit, GatesSound, PatchSound
<1> QED BY <1>1, <1>2, <1>3 DEF StagedInit, StagedInv, StagedSafe

LEMMA StagedInvStep == StagedSafe /\ [StagedNext]_stagedVars => StagedSafe'
<1> SUFFICES ASSUME StagedInv, foreignSteps \in Nat, [StagedNext]_stagedVars
             PROVE  StagedInv' /\ foreignSteps' \in Nat
  BY DEF StagedSafe
<1>1. foreignSteps' \in {foreignSteps, foreignSteps + 1}
  BY DEF StagedNext, Execute, ApplyFile, ApplyFails, FilesApplied, VerifyStage, PersistStage,
         FinalVerification, StartPatch, PatchFile, PatchFails, PrepareResume, HandleStageFailure,
         HandleConsistencyFailure, Foreign, Kill, stagedVars, stagedCounters
<1>2. CASE \/ Execute \/ ApplyFile \/ ApplyFails \/ FilesApplied \/ PersistStage \/ StartPatch \/ PatchFile
           \/ PatchFails \/ PrepareResume \/ Kill
  BY <1>2, ExecuteStep, ApplyFileStep, ApplyFailsStep, FilesAppliedStep, PersistStageStep, StartPatchStep,
     PatchFileStep, PatchFailsStep, PrepareResumeStep, KillStagedStep, <1>1
<1>3. ASSUME NEW passed \in BOOLEAN, VerifyStage(passed) \/ FinalVerification(passed) PROVE StagedInv'
  BY <1>3, VerifyStageStep, FinalStep
<1>4. ASSUME NEW i \in StageIds, NEW err \in ErrorTypes, NEW symbols \in BOOLEAN, NEW missed \in BOOLEAN,
             HandleStageFailure(i, err, symbols, missed)
      PROVE  StagedInv'
  BY <1>4, HandlerStep DEF HandleStageFailure, stagedCounters
<1>5. ASSUME HandleConsistencyFailure PROVE StagedInv'
  BY <1>5, HandlerStep DEF HandleConsistencyFailure, stagedCounters
<1>6. ASSUME NEW f \in Paths, NEW v, Foreign(f, v) PROVE StagedInv'
  BY <1>6, ForeignStep
<1>7. CASE UNCHANGED stagedVars
  BY <1>7 DEF stagedVars, execVars, stagedCounters, StagedInv, StagedTypes, ArtifactsTrue, GatesSound,
              PatchSound, StageIds
<1> QED BY <1>1, <1>2, <1>3, <1>4, <1>5, <1>6, <1>7 DEF StagedNext

\* For any change sets, and whatever fails, is killed or written by others: a resume skips stages that
\* were completed, COMPLETED means that no stage failed and every mandatory stage's commands passed, and
\* a patch that reports a rollback has put back what it wrote.
THEOREM StagesHonestHolds == StagedSpec => []StagesHonest
<1>1. StagedSafe => StagesHonest
  BY DEF StagedSafe, StagedInv, ArtifactsTrue, GatesSound, GatePassed, PatchSound, StagesHonest,
         ResumeAfterCompleted, CompletedPassed, PatchRolledBack
<1>2. StagedSpec => []StagedSafe
  BY StagedInvInit, StagedInvStep, PTL DEF StagedSpec
<1> QED BY <1>1, <1>2, PTL
==============================================================================
