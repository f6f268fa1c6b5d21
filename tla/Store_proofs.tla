---------------------------- MODULE Store_proofs ----------------------------
(***************************************************************************)
(* The store's writers: WriterLock and Ingestion, with Chunking.           *)
(*                                                                         *)
(* WriterLock, for any processes, threads, pids and number of crashes.     *)
(* Exclusion is not inductive.  It rests on the file: while nothing was    *)
(* misjudged every holder's own file is the one at the path, and a file    *)
(* with a pid in it whose creator still holds it carries the pid of a      *)
(* running process, so that a judge that finds no such process cannot be   *)
(* looking at a held file.                                                 *)
(*                                                                         *)
(* Ingestion, for any programs, files, texts, edits and calls, and any     *)
(* chunk_size and chunk_overlap.  Its proof has two parts.                 *)
(*                                                                         *)
(* What the chunkers do with a document: no phrase as short as the overlap *)
(* is cut in every window (HardSplitCovers, PackCovers), no glossary entry *)
(* is lost (BatchesCover), every block is in a section under the headings  *)
(* above it (SectionsHold), and so the chunks of a document stand in their *)
(* sections and tell all of it, but for the cells a table's parser drops   *)
(* (StructuralChunksHold, ParagraphChunksHold).  Each is an induction      *)
(* along the document, over a function that is defined step by step.       *)
(*                                                                         *)
(* What the calls do to the rows: documents of one load are named apart,   *)
(* since a file never runs out of names (UniqueIdIsNew, by the pigeonhole  *)
(* principle), and a load that did not keep the rows, and that none        *)
(* joined, finds the corpus part of the store empty, so that Chroma drops  *)
(* none of its rows for one it has.                                        *)
(***************************************************************************)
EXTENDS WriterLock, Ingestion, SequenceTheorems, FiniteSetTheorems, WellFoundedInduction, TLAPS

-----------------------------------------------------------------------------
(* The guard of WriterLock.                                               *)

\* Only threads of running processes are in the guard.
OnlyTheLivingAct == \A w \in Writers : pc[w] # "idle" => Alive(w)

\* Unless a lock was taken away, the file at the path belongs to whoever holds the lock.
HoldersOwnTheFile ==
    ~lost => \A w \in Writers : Holding(w) => lock # NoLock /\ lock.creator = w

\* A held file is empty until its creator writes its own pid into it.
HeldFilePid ==
    lock # NoLock =>
        /\ pc[lock.creator] = "opened" => lock.pid = 0
        /\ pc[lock.creator] = "writing" => lock.pid = PidOf(lock.creator)

\* A judge has read the pid in the file at the path, and judges it abandoned only if its
\* creator no longer holds it.
JudgesKnowTheFile ==
    \A w \in judges :
        /\ pc[w] \in {"read", "stale"}
        /\ lock # NoLock
        /\ pc[w] = "read" => seen[w] = lock.pid /\ lock.pid # 0
        /\ pc[w] = "stale" => ~Holding(lock.creator)

LockInv ==
    /\ TypeOK
    /\ OnlyTheLivingAct
    /\ HoldersOwnTheFile
    /\ HeldFilePid
    /\ JudgesKnowTheFile
    /\ OnlyCrashesLeaveLocks

-----------------------------------------------------------------------------
\* A lock file has a creator among the writers and a recorded pid.
LEMMA FileFields ==
    ASSUME TypeOK, lock # NoLock
    PROVE  lock.creator \in Writers /\ lock.pid \in Pids \cup {0}
BY DEF TypeOK, Files

\* The initial state satisfies the inductive invariant.
LEMMA InitLockInv == Init => LockInv
<1> SUFFICES ASSUME Init
             PROVE  LockInv
  OBVIOUS
<1>1. TypeOK
  <2>1. dirUsable \in BOOLEAN /\ lost \in BOOLEAN
    BY Zenon DEF Init
  <2>2. QED
    BY <2>1, CrashAssumption DEF Init, TypeOK, Steps
<1>2. OnlyTheLivingAct /\ HoldersOwnTheFile
  BY DEF Init, OnlyTheLivingAct, HoldersOwnTheFile, Holding, HoldingSteps
<1>3. HeldFilePid /\ JudgesKnowTheFile /\ OnlyCrashesLeaveLocks
  BY DEF Init, HeldFilePid, JudgesKnowTheFile, OnlyCrashesLeaveLocks
<1>4. QED
  BY <1>1, <1>2, <1>3 DEF LockInv

\* Starting a process changes the pid of no thread that is in the guard.
LEMMA StartKeepsLockInv ==
    ASSUME LockInv, NEW p \in Procs, Start(p)
    PROVE  LockInv'
<1>1. TypeOK'
  BY DEF Start, LockInv, TypeOK
<1>2. \A w \in Writers : pc[w] # "idle" => PidOf(w)' = PidOf(w) /\ Alive(w)'
  BY ProcOfAssumption DEF Start, LockInv, TypeOK, OnlyTheLivingAct, Alive, PidOf
<1>3. OnlyTheLivingAct'
  BY <1>2 DEF Start, OnlyTheLivingAct
<1>4. HeldFilePid'
  BY <1>2, FileFields DEF Start, LockInv, HeldFilePid
<1>5. HoldersOwnTheFile' /\ JudgesKnowTheFile' /\ OnlyCrashesLeaveLocks'
  BY DEF Start, LockInv, HoldersOwnTheFile, JudgesKnowTheFile, OnlyCrashesLeaveLocks, Holding
<1>6. QED
  BY <1>1, <1>3, <1>4, <1>5 DEF LockInv

\* Neither does a process that ends: its threads are idle.
LEMMA ExitKeepsLockInv ==
    ASSUME LockInv, NEW p \in Procs, Exit(p)
    PROVE  LockInv'
<1>1. TypeOK'
  BY DEF Exit, LockInv, TypeOK
<1>2. \A w \in Writers : pc[w] # "idle" => PidOf(w)' = PidOf(w) /\ Alive(w)'
  BY ProcOfAssumption DEF Exit, LockInv, TypeOK, OnlyTheLivingAct, Alive, PidOf
<1>3. OnlyTheLivingAct'
  BY <1>2 DEF Exit, OnlyTheLivingAct
<1>4. HeldFilePid'
  BY <1>2, FileFields DEF Exit, LockInv, HeldFilePid
<1>5. HoldersOwnTheFile' /\ JudgesKnowTheFile' /\ OnlyCrashesLeaveLocks'
  BY DEF Exit, LockInv, HoldersOwnTheFile, JudgesKnowTheFile, OnlyCrashesLeaveLocks, Holding
<1>6. QED
  BY <1>1, <1>3, <1>4, <1>5 DEF LockInv

\* A crash only takes threads out of the guard; the file stays.
LEMMA CrashKeepsLockInv ==
    ASSUME LockInv, NEW p \in Procs, Crash(p)
    PROVE  LockInv'
<1> DEFINE gone == {w \in Writers : ProcOf[w] = p}
<1>1. /\ pc' = [w \in Writers |-> IF w \in gone THEN "idle" ELSE pc[w]]
      /\ pid' = [pid EXCEPT ![p] = 0]
      /\ seen' = [w \in Writers |-> IF w \in gone THEN 0 ELSE seen[w]]
      /\ judges' = judges \ gone
      /\ lost' = (lost /\ OthersHold(gone))
      /\ crashes < MaxCrashes /\ crashes' = crashes + 1
      /\ UNCHANGED <<lock, dirUsable>>
  BY DEF Crash
<1>2. TypeOK'
  BY <1>1, CrashAssumption DEF LockInv, TypeOK, Steps
<1>3. \A w \in Writers : pc'[w] # "idle" =>
        pc'[w] = pc[w] /\ w \notin gone /\ PidOf(w)' = PidOf(w) /\ Alive(w)'
  BY <1>1, ProcOfAssumption DEF LockInv, TypeOK, OnlyTheLivingAct, Alive, PidOf
<1>4. OnlyTheLivingAct'
  BY <1>3 DEF OnlyTheLivingAct
<1>5. HoldersOwnTheFile'
  BY <1>1, <1>3 DEF LockInv, HoldersOwnTheFile, OthersHold, Holding, HoldingSteps
<1>6. HeldFilePid'
  BY <1>1, <1>3, FileFields DEF LockInv, HeldFilePid
<1>7. JudgesKnowTheFile'
  BY <1>1, <1>3, FileFields DEF LockInv, TypeOK, JudgesKnowTheFile, Holding, HoldingSteps
<1>8. OnlyCrashesLeaveLocks'
  BY <1>1 DEF LockInv, TypeOK, OnlyCrashesLeaveLocks
<1>9. QED
  BY <1>2, <1>4, <1>5, <1>6, <1>7, <1>8 DEF LockInv

\* A new file: nobody judges it and, by HoldersOwnTheFile, nobody holds another one.
LEMMA CreateLockKeepsLockInv ==
    ASSUME LockInv, NEW w \in Writers, lock = NoLock, Alive(w), CreateLock(w),
           UNCHANGED <<dirUsable, pid, seen, crashes, lost>>
    PROVE  LockInv'
<1>1. /\ lock' = [creator |-> w, pid |-> 0]
      /\ lock' # NoLock
      /\ judges' = {}
      /\ pc' = [pc EXCEPT ![w] = "opened"]
  BY NoLockAssumption DEF CreateLock, Goto, Files
<1>2. TypeOK'
  BY <1>1 DEF LockInv, TypeOK, Steps, Files
<1>3. OnlyTheLivingAct'
  BY <1>1 DEF LockInv, TypeOK, OnlyTheLivingAct, Alive, PidOf
<1>4. HoldersOwnTheFile'
  BY <1>1 DEF LockInv, TypeOK, HoldersOwnTheFile, Holding
<1>5. HeldFilePid' /\ JudgesKnowTheFile'
  BY <1>1 DEF LockInv, TypeOK, HeldFilePid, JudgesKnowTheFile
<1>6. OnlyCrashesLeaveLocks'
  BY <1>1 DEF LockInv, TypeOK, OnlyCrashesLeaveLocks, Holding, HoldingSteps
<1>7. QED
  BY <1>2, <1>3, <1>4, <1>5, <1>6 DEF LockInv

\* A writer that is not a holder and does not become one, the file staying in place.
LEMMA WalkKeepsLockInv ==
    ASSUME LockInv, NEW w \in Writers, NEW step \in Steps, Alive(w), ~Holding(w),
           step \notin HoldingSteps, step \notin {"read", "stale"},
           Goto(w, step), judges' = judges \ {w}, seen' \in [Writers -> Pids \cup {0}],
           \A v \in Writers \ {w} : seen'[v] = seen[v],
           UNCHANGED <<lock, dirUsable, pid, crashes, lost>>
    PROVE  LockInv'
<1>1. pc' = [pc EXCEPT ![w] = step]
  BY DEF Goto
<1>2. TypeOK'
  BY <1>1 DEF LockInv, TypeOK
<1>3. \A v \in Writers : Holding(v)' <=> Holding(v)
  BY <1>1 DEF LockInv, TypeOK, Holding
<1>4. OnlyTheLivingAct'
  BY <1>1 DEF LockInv, TypeOK, OnlyTheLivingAct, Alive, PidOf
<1>5. HoldersOwnTheFile'
  BY <1>3 DEF LockInv, HoldersOwnTheFile
<1>6. HeldFilePid'
  BY <1>1, FileFields DEF LockInv, TypeOK, HeldFilePid, PidOf, HoldingSteps
<1>7. JudgesKnowTheFile'
  BY <1>1, <1>3, FileFields DEF LockInv, TypeOK, JudgesKnowTheFile
<1>8. OnlyCrashesLeaveLocks'
  BY <1>3, FileFields DEF LockInv, OnlyCrashesLeaveLocks
<1>9. QED
  BY <1>2, <1>4, <1>5, <1>6, <1>7, <1>8 DEF LockInv

\* Entering: the first open creates the lock or finds it.
LEMMA AttemptKeepsLockInv ==
    ASSUME LockInv, NEW w \in Writers, Attempt(w)
    PROVE  LockInv'
<1>1. pc[w] = "idle" /\ Alive(w) /\ ~Holding(w) /\ w \notin judges
  BY DEF Attempt, Open, OpenFails, Holding, HoldingSteps, LockInv, JudgesKnowTheFile
<1>2. judges = judges \ {w}
  BY <1>1
<1>3. CASE Open(w) /\ lock = NoLock
  BY <1>1, <1>3, CreateLockKeepsLockInv DEF Open
<1>4. CASE Open(w) /\ lock # NoLock
  BY <1>1, <1>2, <1>4, WalkKeepsLockInv DEF Open, LockInv, TypeOK, Steps, HoldingSteps
<1>5. CASE OpenFails(w)
  BY <1>1, <1>2, <1>5, WalkKeepsLockInv DEF OpenFails, LockInv, TypeOK, Steps, HoldingSteps
<1>6. QED
  BY <1>3, <1>4, <1>5 DEF Attempt

\* Reading the file makes its reader a judge of it, unless it is gone or empty.
LEMMA ReadPidKeepsLockInv ==
    ASSUME LockInv, NEW w \in Writers, ReadPid(w)
    PROVE  LockInv'
<1> DEFINE n == IF lock = NoLock THEN 0 ELSE lock.pid
<1>1. /\ pc[w] = "exists" /\ ~Holding(w) /\ w \notin judges /\ Alive(w)
      /\ n \in Pids \cup {0}
  BY FileFields DEF ReadPid, Holding, HoldingSteps, LockInv, JudgesKnowTheFile, OnlyTheLivingAct
<1>2. CASE n = 0
  <2>1. /\ seen' = [seen EXCEPT ![w] = 0] /\ Goto(w, "ask")
        /\ judges' = judges \ {w}
    BY <1>1, <1>2 DEF ReadPid, LockInv, TypeOK
  <2>2. QED
    BY <1>1, <2>1, WalkKeepsLockInv DEF ReadPid, LockInv, TypeOK, Steps, HoldingSteps
<1>3. CASE n # 0
  <2>1. /\ lock # NoLock /\ n = lock.pid
        /\ seen' = [seen EXCEPT ![w] = n] /\ pc' = [pc EXCEPT ![w] = "read"]
        /\ judges' = judges \cup {w}
        /\ UNCHANGED <<lock, dirUsable, pid, crashes, lost>>
    BY <1>1, <1>3 DEF ReadPid, Goto, LockInv, TypeOK
  <2>2. TypeOK'
    BY <1>1, <2>1 DEF LockInv, TypeOK, Steps
  <2>3. \A v \in Writers : Holding(v)' <=> Holding(v)
    BY <1>1, <2>1 DEF LockInv, TypeOK, Holding, HoldingSteps
  <2>4. OnlyTheLivingAct' /\ HoldersOwnTheFile'
    BY <1>1, <2>1, <2>3
       DEF LockInv, TypeOK, OnlyTheLivingAct, HoldersOwnTheFile, Alive, PidOf
  <2>5. HeldFilePid'
    BY <1>1, <2>1, FileFields DEF LockInv, TypeOK, HeldFilePid, PidOf
  <2>6. JudgesKnowTheFile'
    BY <1>1, <1>3, <2>1, <2>3, FileFields DEF LockInv, TypeOK, JudgesKnowTheFile
  <2>7. OnlyCrashesLeaveLocks'
    BY <2>1, <2>3, FileFields DEF LockInv, OnlyCrashesLeaveLocks
  <2>8. QED
    BY <2>2, <2>4, <2>5, <2>6, <2>7 DEF LockInv
<1>4. QED
  BY <1>2, <1>3

\* A judge finds no process with the pid it read: the creator of the file it judges, which
\* would run with that pid if it held the lock, does not hold it.
LEMMA ProbeKeepsLockInv ==
    ASSUME LockInv, NEW w \in Writers, Probe(w)
    PROVE  LockInv'
<1>1. /\ pc[w] = "read" /\ ~Holding(w) /\ Alive(w)
      /\ seen' = [seen EXCEPT ![w] = 0]
      /\ UNCHANGED <<lock, dirUsable, pid, crashes, lost>>
  BY DEF Probe, Holding, HoldingSteps, LockInv, OnlyTheLivingAct
<1>2. CASE seen[w] \in RunningPids
  BY <1>1, <1>2, WalkKeepsLockInv DEF Probe, LockInv, TypeOK, Steps, HoldingSteps
<1>3. CASE seen[w] \notin RunningPids
  <2>1. pc' = [pc EXCEPT ![w] = "stale"] /\ judges' = judges
    BY <1>3 DEF Probe, Goto
  <2>2. TypeOK'
    BY <1>1, <2>1 DEF LockInv, TypeOK, Steps
  <2>3. \A v \in Writers : Holding(v)' <=> Holding(v)
    BY <1>1, <2>1 DEF LockInv, TypeOK, Holding, HoldingSteps
  <2>4. OnlyTheLivingAct' /\ HoldersOwnTheFile'
    BY <1>1, <2>1, <2>3
       DEF LockInv, TypeOK, OnlyTheLivingAct, HoldersOwnTheFile, Alive, PidOf
  <2>5. HeldFilePid'
    BY <1>1, <2>1, FileFields DEF LockInv, TypeOK, HeldFilePid, PidOf
  <2>6. w \in judges => ~Holding(lock.creator)
    <3>1. SUFFICES ASSUME w \in judges, Holding(lock.creator)
                   PROVE  FALSE
      OBVIOUS
    <3>2. lock # NoLock /\ seen[w] = lock.pid /\ lock.pid # 0
      BY <1>1, <3>1 DEF LockInv, JudgesKnowTheFile
    <3>3. lock.creator \in Writers
      BY <3>2, FileFields DEF LockInv
    <3>4. lock.pid = PidOf(lock.creator)
      BY <3>1, <3>2 DEF LockInv, HeldFilePid, Holding, HoldingSteps
    <3>5. PidOf(lock.creator) \in RunningPids
      BY <3>2, <3>3, <3>4, ProcOfAssumption DEF PidOf, RunningPids
    <3>6. QED
      BY <1>3, <3>2, <3>4, <3>5
  <2>7. JudgesKnowTheFile'
    BY <1>1, <2>1, <2>3, <2>6, FileFields DEF LockInv, TypeOK, JudgesKnowTheFile
  <2>8. OnlyCrashesLeaveLocks'
    BY <1>1, <2>3, FileFields DEF LockInv, OnlyCrashesLeaveLocks
  <2>9. QED
    BY <2>2, <2>4, <2>5, <2>7, <2>8 DEF LockInv
<1>4. QED
  BY <1>2, <1>3

\* A break that is not counted as a loss removes an abandoned file: no writer holds the lock.
LEMMA UnlinkKeepsLockInv ==
    ASSUME LockInv, NEW w \in Writers, Unlink(w)
    PROVE  LockInv'
<1>1. /\ pc[w] \in {"stale", "override"} /\ ~Holding(w) /\ Alive(w)
      /\ lock' = NoLock /\ judges' = {}
      /\ pc' = [pc EXCEPT ![w] = "reopen"]
      /\ UNCHANGED <<dirUsable, pid, seen, crashes>>
  BY DEF Unlink, Goto, Holding, HoldingSteps, LockInv, OnlyTheLivingAct
<1>2. lost' = (lost \/ pc[w] = "override" \/ (lock # NoLock /\ w \notin judges))
  BY DEF Unlink
<1>3. TypeOK'
  BY <1>1, <1>2 DEF LockInv, TypeOK, Steps
<1>4. \A v \in Writers : Holding(v)' <=> Holding(v)
  BY <1>1 DEF LockInv, TypeOK, Holding, HoldingSteps
<1>5. OnlyTheLivingAct'
  BY <1>1 DEF LockInv, TypeOK, OnlyTheLivingAct, Alive, PidOf
<1>6. HoldersOwnTheFile'
  <2>1. SUFFICES ASSUME ~lost', NEW v \in Writers, Holding(v)
                 PROVE  FALSE
    BY <1>4 DEF HoldersOwnTheFile
  <2>2. lock # NoLock /\ lock.creator = v
    BY <1>2, <2>1 DEF LockInv, HoldersOwnTheFile
  <2>3. pc[w] = "stale" /\ w \in judges
    BY <1>1, <1>2, <2>1, <2>2
  <2>4. QED
    BY <2>1, <2>2, <2>3 DEF LockInv, JudgesKnowTheFile
<1>7. HeldFilePid' /\ JudgesKnowTheFile' /\ OnlyCrashesLeaveLocks'
  BY <1>1 DEF HeldFilePid, JudgesKnowTheFile, OnlyCrashesLeaveLocks
<1>8. QED
  BY <1>3, <1>5, <1>6, <1>7 DEF LockInv

\* The pid goes into the writer's own file, and no judge has read that file: it was empty.
LEMMA WritePidKeepsLockInv ==
    ASSUME LockInv, NEW w \in Writers, WritePid(w)
    PROVE  LockInv'
<1>1. /\ pc[w] = "opened" /\ Holding(w) /\ Alive(w)
      /\ pc' = [pc EXCEPT ![w] = "writing"]
      /\ UNCHANGED <<dirUsable, pid, seen, crashes, judges, lost>>
  BY DEF WritePid, Goto, Holding, HoldingSteps, LockInv, OnlyTheLivingAct
<1>2. PidOf(w) \in Pids
  BY <1>1, ProcOfAssumption DEF LockInv, TypeOK, PidOf, Alive
<1>3. \A v \in Writers : Holding(v)' <=> Holding(v)
  BY <1>1 DEF LockInv, TypeOK, Holding, HoldingSteps
<1>4. CASE lock # NoLock /\ lock.creator = w
  <2>1. /\ lock' = [lock EXCEPT !.pid = PidOf(w)]
        /\ lock \in Files
    BY <1>4 DEF WritePid, LockInv, TypeOK
  <2>2. /\ lock' \in Files /\ lock' # NoLock
        /\ lock'.creator = w /\ lock'.pid = PidOf(w)
    BY <1>2, <1>4, <2>1, NoLockAssumption DEF Files
  <2>3. lock.pid = 0
    BY <1>1, <1>4 DEF LockInv, HeldFilePid
  <2>4. TypeOK'
    BY <1>1, <2>2 DEF LockInv, TypeOK, Steps
  <2>5. OnlyTheLivingAct'
    BY <1>1 DEF LockInv, TypeOK, OnlyTheLivingAct, Alive, PidOf
  <2>6. HoldersOwnTheFile'
    BY <1>1, <1>3, <1>4, <2>2 DEF LockInv, HoldersOwnTheFile
  <2>7. HeldFilePid'
    BY <1>1, <2>2 DEF LockInv, TypeOK, HeldFilePid, PidOf
  <2>8. JudgesKnowTheFile'
    BY <1>1, <1>3, <1>4, <2>2, <2>3 DEF LockInv, TypeOK, JudgesKnowTheFile
  <2>9. OnlyCrashesLeaveLocks'
    BY <1>1, <1>3, <2>2 DEF OnlyCrashesLeaveLocks
  <2>10. QED
    BY <2>4, <2>5, <2>6, <2>7, <2>8, <2>9 DEF LockInv
<1>5. CASE ~(lock # NoLock /\ lock.creator = w)
  <2>1. lock' = lock
    BY <1>5 DEF WritePid
  <2>2. TypeOK'
    BY <1>1, <2>1 DEF LockInv, TypeOK, Steps
  <2>3. OnlyTheLivingAct'
    BY <1>1 DEF LockInv, TypeOK, OnlyTheLivingAct, Alive, PidOf
  <2>4. HoldersOwnTheFile'
    BY <1>1, <1>3, <2>1 DEF LockInv, HoldersOwnTheFile
  <2>5. HeldFilePid'
    BY <1>1, <1>5, <2>1, FileFields DEF LockInv, TypeOK, HeldFilePid, PidOf
  <2>6. JudgesKnowTheFile'
    BY <1>1, <1>3, <2>1, FileFields DEF LockInv, TypeOK, JudgesKnowTheFile
  <2>7. OnlyCrashesLeaveLocks'
    BY <1>1, <1>3, <2>1, FileFields DEF LockInv, OnlyCrashesLeaveLocks
  <2>8. QED
    BY <2>2, <2>3, <2>4, <2>5, <2>6, <2>7 DEF LockInv
<1>6. QED
  BY <1>4, <1>5

\* Leaving removes the file at the path; without a loss the leaver was the only holder.
LEMMA LeaveKeepsLockInv ==
    ASSUME LockInv, NEW w \in Writers, Leave(w)
    PROVE  LockInv'
<1>1. /\ pc[w] = "writing" /\ Holding(w)
      /\ lock' = NoLock /\ judges' = {}
      /\ lost' = (lost /\ OthersHold({w}))
      /\ pc' = [pc EXCEPT ![w] = "idle"]
      /\ UNCHANGED <<dirUsable, pid, seen, crashes>>
  BY DEF Leave, Goto, Holding, HoldingSteps
<1>2. TypeOK'
  BY <1>1 DEF LockInv, TypeOK, Steps
<1>3. OnlyTheLivingAct'
  BY <1>1 DEF LockInv, TypeOK, OnlyTheLivingAct, Alive, PidOf
<1>4. HoldersOwnTheFile'
  <2>1. SUFFICES ASSUME ~lost', NEW v \in Writers, Holding(v)'
                 PROVE  FALSE
    BY DEF HoldersOwnTheFile
  <2>2. v # w /\ Holding(v)
    BY <1>1, <2>1 DEF LockInv, TypeOK, Holding, HoldingSteps
  <2>3. OthersHold({w})
    BY <2>2 DEF OthersHold
  <2>4. lock.creator = v /\ lock.creator = w
    BY <1>1, <2>1, <2>2, <2>3 DEF LockInv, HoldersOwnTheFile
  <2>5. QED
    BY <2>2, <2>4
<1>5. HeldFilePid' /\ JudgesKnowTheFile' /\ OnlyCrashesLeaveLocks'
  BY <1>1 DEF HeldFilePid, JudgesKnowTheFile, OnlyCrashesLeaveLocks
<1>6. QED
  BY <1>2, <1>3, <1>4, <1>5 DEF LockInv

\* Every step of a writer in the guard keeps the inductive invariant.
LEMMA ProceedKeepsLockInv ==
    ASSUME LockInv, NEW w \in Writers, Proceed(w)
    PROVE  LockInv'
<1>1. CASE ReadPid(w)
  BY <1>1, ReadPidKeepsLockInv
<1>2. CASE Probe(w)
  BY <1>2, ProbeKeepsLockInv
<1>3. CASE Ask(w)
  <2>1. /\ pc[w] = "ask" /\ ~Holding(w) /\ Alive(w) /\ w \notin judges
    BY <1>3 DEF Ask, Holding, HoldingSteps, LockInv, OnlyTheLivingAct, JudgesKnowTheFile
  <2>2. judges = judges \ {w}
    BY <2>1
  <2>3. QED
    BY <1>3, <2>1, <2>2, WalkKeepsLockInv DEF Ask, LockInv, TypeOK, Steps, HoldingSteps
<1>4. CASE Unlink(w)
  BY <1>4, UnlinkKeepsLockInv
<1>5. CASE Reopen(w)
  <2>1. /\ pc[w] = "reopen" /\ ~Holding(w) /\ Alive(w) /\ w \notin judges
    BY <1>5 DEF Reopen, Holding, HoldingSteps, LockInv, OnlyTheLivingAct, JudgesKnowTheFile
  <2>2. judges = judges \ {w}
    BY <2>1
  <2>3. CASE lock = NoLock
    BY <1>5, <2>1, <2>3, CreateLockKeepsLockInv DEF Reopen
  <2>4. CASE lock # NoLock
    BY <1>5, <2>1, <2>2, <2>4, WalkKeepsLockInv DEF Reopen, LockInv, TypeOK, Steps, HoldingSteps
  <2>5. QED
    BY <2>3, <2>4
<1>6. CASE WritePid(w)
  BY <1>6, WritePidKeepsLockInv
<1>7. CASE Leave(w)
  BY <1>7, LeaveKeepsLockInv
<1>8. CASE Return(w)
  <2>1. /\ pc[w] \in {"unguarded", "conflict", "raised"} /\ ~Holding(w) /\ Alive(w)
        /\ w \notin judges
    BY <1>8 DEF Return, Holding, HoldingSteps, LockInv, OnlyTheLivingAct, JudgesKnowTheFile
  <2>2. judges = judges \ {w}
    BY <2>1
  <2>3. QED
    BY <1>8, <2>1, <2>2, WalkKeepsLockInv DEF Return, LockInv, TypeOK, Steps, HoldingSteps
<1>9. QED
  BY <1>1, <1>2, <1>3, <1>4, <1>5, <1>6, <1>7, <1>8 DEF Proceed

\* Every step of the specification keeps the inductive invariant.
LEMMA NextLockInv == LockInv /\ [Next]_vars => LockInv'
<1> SUFFICES ASSUME LockInv, [Next]_vars
             PROVE  LockInv'
  OBVIOUS
<1>1. CASE UNCHANGED vars
  BY <1>1 DEF vars, LockInv, TypeOK, OnlyTheLivingAct, HoldersOwnTheFile, HeldFilePid,
              JudgesKnowTheFile, OnlyCrashesLeaveLocks, Holding, Alive, PidOf
<1>2. CASE Next
  BY <1>2, StartKeepsLockInv, ExitKeepsLockInv, CrashKeepsLockInv, AttemptKeepsLockInv,
     ProceedKeepsLockInv DEF Next
<1>3. QED
  BY <1>1, <1>2

\* The inductive invariant holds in every reachable state.
THEOREM LockInvariance == Spec => []LockInv
BY InitLockInv, NextLockInv, PTL DEF Spec

-----------------------------------------------------------------------------
\* Type correctness of the lock file, the pids and the writers' positions.
THEOREM LockTypesTheorem == Spec => []TypeOK
<1>1. LockInv => TypeOK
  BY DEF LockInv
<1>2. QED
  BY <1>1, LockInvariance, PTL

\* guard_single_writer is exclusive until a user overrides it or a writer unlinks a file
\* other than the one it judged, for any number of processes, threads and crashes.
THEOREM ExclusionTheorem == Spec => []ExclusiveUnlessMisjudged
<1>1. LockInv => ExclusiveUnlessMisjudged
  BY DEF LockInv, HoldersOwnTheFile, ExclusiveUnlessMisjudged
<1>2. QED
  BY <1>1, LockInvariance, PTL

\* _holder_alive never finds the holder of the file in place dead.
THEOREM StaleTheorem == Spec => []StaleMeansAbandoned
<1>1. LockInv => StaleMeansAbandoned
  BY DEF LockInv, JudgesKnowTheFile, StaleMeansAbandoned
<1>2. QED
  BY <1>1, LockInvariance, PTL

\* The guard's finally clause leaves no file behind.
THEOREM NoLeftoverTheorem == Spec => []OnlyCrashesLeaveLocks
<1>1. LockInv => OnlyCrashesLeaveLocks
  BY DEF LockInv
<1>2. QED
  BY <1>1, LockInvariance, PTL

\* The unconditional unlink on the way out removes the writer's own lock while nothing was
\* misjudged.
THEOREM OwnLockTheorem == Spec => LeavesOwnLock
<1>1. LockInv /\ [Next]_vars =>
        [\A w \in Writers :
           Leave(w) /\ ~lost => lock # NoLock /\ lock.creator = w]_vars
  BY DEF LockInv, HoldersOwnTheFile, Leave, Holding, HoldingSteps
<1>2. QED
  BY <1>1, LockInvariance, PTL DEF Spec, LeavesOwnLock

-----------------------------------------------------------------------------
(* Induction, functions that are defined step by step, and extreme numbers. *)

\* Induction over the naturals, as a fact about sets.
LEMMA NatInduct ==
    \A S : 0 \in S /\ (\A n \in Nat : n \in S => n + 1 \in S) => \A n \in Nat : n \in S
<1> SUFFICES ASSUME NEW S, 0 \in S, \A n \in Nat : n \in S => n + 1 \in S,
                    NEW N \in Nat, N \notin S
             PROVE  FALSE
  OBVIOUS
<1> DEFINE R == {ss \in Nat \X Nat : ss[1] < ss[2]}
           T == Nat \ S
<1>1. IsWellFoundedOn(R, Nat)
  BY NatLessThanWellFounded DEF OpToRel
<1>2. PICK n \in T : \A k \in T : ~(<<k, n>> \in R)
  <2>1. T \subseteq Nat /\ T # {}
    OBVIOUS
  <2> HIDE DEF R, T
  <2>2. QED
    BY <1>1, <2>1, WFMin
<1>3. n \in Nat /\ n # 0 /\ n - 1 \in Nat /\ n - 1 < n
  OBVIOUS
<1>4. n - 1 \notin T
  <2>1. <<n - 1, n>> \in R
    BY <1>3
  <2>2. QED
    BY <1>2, <2>1
<1>5. n - 1 \in S
  BY <1>3, <1>4
<1>6. (n - 1) + 1 = n
  BY <1>3
<1>7. n \in S
  BY <1>3, <1>5, <1>6
<1>8. QED
  BY <1>7

\* A function defined step by step over 0..N exists, and has the type of its
\* steps.
LEMMA StepByStep ==
    \A V : \A v : v \in V => \A N \in Nat : \A h \in [1..N -> [V -> V]] :
        \E f \in [0..N -> V] : f[0] = v /\ \A n \in 1..N : f[n] = h[n][f[n - 1]]
<1> SUFFICES ASSUME NEW V, NEW v, v \in V, NEW N \in Nat, NEW h \in [1..N -> [V -> V]]
             PROVE  \E f \in [0..N -> V] : f[0] = v /\ \A n \in 1..N : f[n] = h[n][f[n - 1]]
  OBVIOUS
<1> DEFINE Good(M, f) == f[0] = v /\ \A n \in 1..M : f[n] = h[n][f[n - 1]]
           S == {M \in Nat : M <= N => \E f \in [0..M -> V] : Good(M, f)}
<1>1. 0 \in S
  <2> DEFINE g == [n \in 0..0 |-> v]
  <2>1. g \in [0..0 -> V] /\ Good(0, g)
    OBVIOUS
  <2>2. QED
    BY <2>1
<1>2. \A M \in Nat : M \in S => M + 1 \in S
  <2> SUFFICES ASSUME NEW M \in Nat, M \in S, M + 1 <= N
               PROVE  \E f \in [0..(M + 1) -> V] : Good(M + 1, f)
    <3> HIDE DEF Good
    <3>1. QED
      OBVIOUS
  <2>1. PICK f \in [0..M -> V] : Good(M, f)
    <3> HIDE DEF Good
    <3>1. QED
      OBVIOUS
  <2> DEFINE g == [n \in 0..(M + 1) |-> IF n = M + 1 THEN h[n][f[M]] ELSE f[n]]
  <2>2. f[M] \in V /\ M + 1 \in 1..N
    OBVIOUS
  <2>3. h[M + 1][f[M]] \in V
    BY <2>2
  <2>4. g \in [0..(M + 1) -> V]
    BY <2>3
  <2>5. g[0] = v
    BY <2>1
  <2>6. ASSUME NEW n \in 1..(M + 1)
        PROVE  g[n] = h[n][g[n - 1]]
    <3>1. CASE n = M + 1
      <4>1. n - 1 = M /\ g[n - 1] = f[M]
        BY <3>1
      <4>2. QED
        BY <3>1, <4>1
    <3>2. CASE n # M + 1
      <4>1. n \in 1..M /\ n - 1 \in 0..M
        BY <3>2
      <4>2. g[n] = f[n] /\ g[n - 1] = f[n - 1]
        BY <3>2, <4>1
      <4>3. QED
        BY <2>1, <4>1, <4>2
    <3>3. QED
      BY <3>1, <3>2
  <2>7. QED
    <3> HIDE DEF g
    <3>1. QED
      BY <2>4, <2>5, <2>6
<1>3. N \in S
  <2> HIDE DEF S
  <2>1. QED
    BY <1>1, <1>2, NatInduct
<1>4. QED
  BY <1>3

\* What such a function is at each argument, if its steps keep to a type.
LEMMA StepsAreTyped ==
    \A V : \A N \in Nat : \A F :
        F = [n \in 0..N |-> F[n]] /\ F[0] \in V /\ (\A n \in 1..N : F[n - 1] \in V => F[n] \in V)
            => F \in [0..N -> V]
<1> SUFFICES ASSUME NEW V, NEW N \in Nat, NEW F, F = [n \in 0..N |-> F[n]], F[0] \in V,
                    \A n \in 1..N : F[n - 1] \in V => F[n] \in V
             PROVE  F \in [0..N -> V]
  OBVIOUS
<1> DEFINE S == {n \in Nat : n <= N => F[n] \in V}
<1>1. 0 \in S
  OBVIOUS
<1>2. \A n \in Nat : n \in S => n + 1 \in S
  <2> SUFFICES ASSUME NEW n \in Nat, n \in S, n + 1 <= N
               PROVE  F[n + 1] \in V
    OBVIOUS
  <2>1. F[n] \in V /\ n + 1 \in 1..N /\ (n + 1) - 1 = n
    OBVIOUS
  <2>2. QED
    BY <2>1
<1>3. \A n \in Nat : n \in S
  <2> HIDE DEF S
  <2>1. QED
    BY <1>1, <1>2, NatInduct
<1>4. \A n \in 0..N : F[n] \in V
  BY <1>3
<1>5. QED
  BY <1>4

\* The least of some naturals.
LEMMA LeastOf ==
    \A S : S \subseteq Nat /\ S # {} => Min(S) \in S /\ \A n \in S : Min(S) <= n
<1> SUFFICES ASSUME NEW S, S \subseteq Nat, S # {}
             PROVE  Min(S) \in S /\ \A n \in S : Min(S) <= n
  OBVIOUS
<1> SUFFICES ASSUME ~ \E m \in S : \A n \in S : m <= n
             PROVE  FALSE
  BY DEF Min
<1> DEFINE T == {n \in Nat : \A k \in 0..n : k \notin S}
<1>1. 0 \in T
  <2>1. 0 \notin S
    OBVIOUS
  <2>2. QED
    BY <2>1
<1>2. \A n \in Nat : n \in T => n + 1 \in T
  <2> SUFFICES ASSUME NEW n \in Nat, n \in T, n + 1 \in S
               PROVE  FALSE
    OBVIOUS
  <2>1. PICK k \in S : ~(n + 1 <= k)
    OBVIOUS
  <2>2. k \in 0..n
    BY <2>1
  <2>3. QED
    BY <2>2
<1>3. \A n \in Nat : n \in T
  <2> HIDE DEF T
  <2>1. QED
    BY <1>1, <1>2, NatInduct
<1>4. \A n \in Nat : n \notin S
  BY <1>3
<1>5. QED
  BY <1>4

\* The greatest of those up to a bound.
LEMMA GreatestOf ==
    \A N \in Nat : \A S : S \subseteq 0..N /\ S # {} => Max(S) \in S /\ \A n \in S : n <= Max(S)
<1> SUFFICES ASSUME NEW N \in Nat, NEW S, S \subseteq 0..N, S # {}
             PROVE  \E m \in S : \A n \in S : m >= n
  BY DEF Max
<1> DEFINE T == {N - n : n \in S}
<1>1. T \subseteq Nat /\ T # {}
  <2>1. \A n \in S : n \in Nat /\ N - n \in Nat
    OBVIOUS
  <2>2. QED
    BY <2>1
<1>2. Min(T) \in T /\ \A n \in T : Min(T) <= n
  <2> HIDE DEF T
  <2>1. QED
    BY <1>1, LeastOf
<1>3. PICK m \in S : Min(T) = N - m
  BY <1>2
<1>4. \A n \in S : N - m <= N - n
  BY <1>2, <1>3
<1>5. QED
  BY <1>4

-----------------------------------------------------------------------------
(* The functions of Chunking that are defined step by step.                *)

\* What has been picked, as far as each element.
LEMMA AmongSteps ==
    \A T : \A S : \A s \in Seq(T) :
        \E f :
            /\ \A n \in 0..Len(s) : f[n] \in Seq(T)
            /\ Among(s, S) = f[Len(s)]
            /\ f[0] = << >>
            /\ \A n \in 1..Len(s) : s[n] \in S => f[n] = Append(f[n - 1], s[n])
            /\ \A n \in 1..Len(s) : s[n] \notin S => f[n] = f[n - 1]
<1> TAKE T, S
<1> TAKE s \in Seq(T)
<1>0. s \in Seq(T)
  OBVIOUS
<1> DEFINE N == Len(s)
           V == Seq(T)
           zero == << >>
           step(n, w) == IF s[n] \in S THEN Append(w, s[n]) ELSE w
           body(f) == [n \in 0..N |-> IF n = 0 THEN zero ELSE step(n, f[n - 1])]
           h == [n \in 1..N |-> [w \in V |-> step(n, w)]]
           upTo == CHOOSE f : f = body(f)
<1>1. N \in Nat /\ \A n \in 1..N : s[n] \in T
  BY <1>0
<1>2. \A n \in 1..N : \A w \in V : step(n, w) \in V
  <2>1. \A n \in 1..N : \A w \in V : Append(w, s[n]) \in V
    BY <1>1
  <2>2. QED
    BY <2>1
<1>3. zero \in V
  OBVIOUS
<1> HIDE DEF V, N, step, zero
<1>4. h \in [1..N -> [V -> V]] /\ \A n \in 1..N : \A w \in V : h[n][w] = step(n, w)
  BY <1>2
<1> HIDE DEF h
<1>5. PICK f \in [0..N -> V] : f[0] = zero /\ \A n \in 1..N : f[n] = h[n][f[n - 1]]
  <2>1. N \in Nat /\ h \in [1..N -> [V -> V]]
    BY <1>1, <1>4
  <2>2. QED
    BY <1>3, <2>1, StepByStep
<1>6. f = body(f)
  <2>1. \A n \in 0..N : n # 0 => n \in 1..N /\ n - 1 \in 0..N /\ f[n - 1] \in V
    BY <1>1
  <2>2. \A n \in 0..N : f[n] = IF n = 0 THEN zero ELSE step(n, f[n - 1])
    BY <1>4, <1>5, <2>1
  <2>3. QED
    BY <2>2
<1>7. upTo = body(upTo)
  <2> HIDE DEF body
  <2>1. QED
    BY <1>6
<1>8. Among(s, S) = upTo[N]
  BY DEF Among, step, N, zero
<1> HIDE DEF upTo
<1>9. upTo = [n \in 0..N |-> IF n = 0 THEN zero ELSE step(n, upTo[n - 1])]
  BY <1>7
<1>10. upTo[0] = zero /\ \A n \in 1..N : upTo[n] = step(n, upTo[n - 1])
  BY <1>1, <1>9
<1>11. upTo \in [0..N -> V]
  <2>1. upTo = [n \in 0..N |-> upTo[n]]
    BY <1>9
  <2>2. \A n \in 1..N : upTo[n - 1] \in V => upTo[n] \in V
    BY <1>2, <1>10
  <2>3. QED
    BY <1>1, <1>3, <1>10, <2>1, <2>2, StepsAreTyped
<1>12. \A n \in 0..N : upTo[n] \in V
  BY <1>11
<1>13. QED
  BY <1>8, <1>10, <1>12 DEF N, V, zero, step

\* What a stretch of text is.
PieceTypes == {p \in [block : Nat, from : Nat, to : Nat] : p.from <= p.to}

\* The sum of the sizes, as far as each piece.
LEMMA TotalSteps ==
    \A s \in Seq(PieceTypes) :
        \E f :
            /\ \A n \in 0..Len(s) : f[n] \in Nat
            /\ Total(s) = f[Len(s)]
            /\ f[0] = 0
            /\ \A n \in 1..Len(s) : f[n] = f[n - 1] + Size(s[n])
<1>0. SUFFICES ASSUME NEW s, s \in Seq(PieceTypes)
               PROVE  \E f :
                         /\ \A n \in 0..Len(s) : f[n] \in Nat
                         /\ Total(s) = f[Len(s)]
                         /\ f[0] = 0
                         /\ \A n \in 1..Len(s) : f[n] = f[n - 1] + Size(s[n])
  OBVIOUS
<1> DEFINE N == Len(s)
           V == Nat
           zero == 0
           step(n, w) == w + Size(s[n])
           body(f) == [n \in 0..N |-> IF n = 0 THEN zero ELSE step(n, f[n - 1])]
           h == [n \in 1..N |-> [w \in V |-> step(n, w)]]
           upTo == CHOOSE f : f = body(f)
<1>1. N \in Nat /\ \A n \in 1..N : s[n] \in PieceTypes
  BY <1>0
<1>2. \A n \in 1..N : \A w \in V : step(n, w) \in V
  <2>1. \A n \in 1..N : Size(s[n]) \in Nat
    BY <1>1 DEF PieceTypes, Size
  <2>2. QED
    BY <2>1
<1>3. zero \in V
  OBVIOUS
<1> HIDE DEF V, N, step, zero
<1>4. h \in [1..N -> [V -> V]] /\ \A n \in 1..N : \A w \in V : h[n][w] = step(n, w)
  BY <1>2
<1> HIDE DEF h
<1>5. PICK f \in [0..N -> V] : f[0] = zero /\ \A n \in 1..N : f[n] = h[n][f[n - 1]]
  <2>1. N \in Nat /\ h \in [1..N -> [V -> V]]
    BY <1>1, <1>4
  <2>2. QED
    BY <1>3, <2>1, StepByStep
<1>6. f = body(f)
  <2>1. \A n \in 0..N : n # 0 => n \in 1..N /\ n - 1 \in 0..N /\ f[n - 1] \in V
    BY <1>1
  <2>2. \A n \in 0..N : f[n] = IF n = 0 THEN zero ELSE step(n, f[n - 1])
    BY <1>4, <1>5, <2>1
  <2>3. QED
    BY <2>2
<1>7. upTo = body(upTo)
  <2> HIDE DEF body
  <2>1. QED
    BY <1>6
<1>8. Total(s) = upTo[N]
  BY DEF Total, step, N, zero
<1> HIDE DEF upTo
<1>9. upTo = [n \in 0..N |-> IF n = 0 THEN zero ELSE step(n, upTo[n - 1])]
  BY <1>7
<1>10. upTo[0] = zero /\ \A n \in 1..N : upTo[n] = step(n, upTo[n - 1])
  BY <1>1, <1>9
<1>11. upTo \in [0..N -> V]
  <2>1. upTo = [n \in 0..N |-> upTo[n]]
    BY <1>9
  <2>2. \A n \in 1..N : upTo[n - 1] \in V => upTo[n] \in V
    BY <1>2, <1>10
  <2>3. QED
    BY <1>1, <1>3, <1>10, <2>1, <2>2, StepsAreTyped
<1>12. \A n \in 0..N : upTo[n] \in V
  BY <1>11
<1>13. QED
  BY <1>8, <1>10, <1>12 DEF N, V, zero, step

\* What is picked: elements of the sequence that are in the set, and all of them.
LEMMA AmongPicks ==
    \A T : \A S : \A s \in Seq(T) :
        /\ Among(s, S) \in Seq(T)
        /\ Len(Among(s, S)) <= Len(s)
        /\ \A m \in 1..Len(Among(s, S)) :
              /\ Among(s, S)[m] \in S
              /\ \E n \in 1..Len(s) : Among(s, S)[m] = s[n]
        /\ \A n \in 1..Len(s) : s[n] \in S => \E m \in 1..Len(Among(s, S)) : Among(s, S)[m] = s[n]
<1> TAKE T, S
<1> TAKE s \in Seq(T)
<1>1. PICK f :
        /\ \A n \in 0..Len(s) : f[n] \in Seq(T)
        /\ Among(s, S) = f[Len(s)]
        /\ f[0] = << >>
        /\ \A n \in 1..Len(s) : s[n] \in S => f[n] = Append(f[n - 1], s[n])
        /\ \A n \in 1..Len(s) : s[n] \notin S => f[n] = f[n - 1]
  BY AmongSteps, SMTT(30)
<1> DEFINE Sound(g, n) == \A m \in 1..Len(g) : g[m] \in S /\ \E k \in 1..n : g[m] = s[k]
           Complete(g, n) == \A k \in 1..n : s[k] \in S => \E m \in 1..Len(g) : g[m] = s[k]
           I == {n \in Nat : n <= Len(s) =>
                    Len(f[n]) <= n /\ Sound(f[n], n) /\ Complete(f[n], n)}
<1>2. Len(s) \in Nat
  OBVIOUS
<1>3. 0 \in I
  <2>1. f[0] = << >> /\ Len(f[0]) = 0
    BY <1>1
  <2>2. Sound(f[0], 0) /\ Complete(f[0], 0)
    BY <2>1
  <2>3. QED
    BY <2>1, <2>2
<1>4. \A n \in Nat : n \in I => n + 1 \in I
  <2> SUFFICES ASSUME NEW n \in Nat, n \in I, n + 1 <= Len(s)
               PROVE  Len(f[n + 1]) <= n + 1 /\ Sound(f[n + 1], n + 1) /\ Complete(f[n + 1], n + 1)
    BY <1>2
  <2>1. n + 1 \in 1..Len(s) /\ (n + 1) - 1 = n /\ n \in 0..Len(s) /\ n <= Len(s)
    BY <1>2
  <2>2. Len(f[n]) <= n /\ Sound(f[n], n) /\ Complete(f[n], n)
    BY <2>1
  <2>3. f[n] \in Seq(T) /\ s[n + 1] \in T
    BY <1>1, <2>1
  <2>4. CASE s[n + 1] \in S
    <3>1. f[n + 1] = Append(f[n], s[n + 1])
      BY <1>1, <2>1, <2>4
    <3>2. /\ Len(f[n + 1]) = Len(f[n]) + 1
          /\ Len(f[n]) \in Nat
          /\ \A m \in 1..Len(f[n]) : f[n + 1][m] = f[n][m]
          /\ f[n + 1][Len(f[n]) + 1] = s[n + 1]
      BY <2>3, <3>1
    <3>3. Sound(f[n + 1], n + 1)
      <4> SUFFICES ASSUME NEW m \in 1..Len(f[n + 1])
                   PROVE  f[n + 1][m] \in S /\ \E k \in 1..(n + 1) : f[n + 1][m] = s[k]
        OBVIOUS
      <4>1. CASE m = Len(f[n]) + 1
        BY <2>4, <3>2, <4>1
      <4>2. CASE m # Len(f[n]) + 1
        <5>1. m \in 1..Len(f[n])
          BY <3>2, <4>2
        <5>2. PICK k \in 1..n : f[n][m] = s[k]
          BY <2>2, <5>1
        <5>3. k \in 1..(n + 1)
          OBVIOUS
        <5>4. QED
          BY <2>2, <3>2, <5>1, <5>2, <5>3
      <4>3. QED
        BY <4>1, <4>2
    <3>4. Complete(f[n + 1], n + 1)
      <4> SUFFICES ASSUME NEW k \in 1..(n + 1), s[k] \in S
                   PROVE  \E m \in 1..Len(f[n + 1]) : f[n + 1][m] = s[k]
        OBVIOUS
      <4>1. CASE k = n + 1
        <5>1. Len(f[n]) + 1 \in 1..Len(f[n + 1])
          BY <3>2
        <5>2. QED
          BY <3>2, <4>1, <5>1
      <4>2. CASE k # n + 1
        <5>1. k \in 1..n
          BY <4>2
        <5>2. PICK m \in 1..Len(f[n]) : f[n][m] = s[k]
          BY <2>2, <5>1
        <5>3. m \in 1..Len(f[n + 1])
          BY <3>2
        <5>4. QED
          BY <3>2, <5>2, <5>3
      <4>3. QED
        BY <4>1, <4>2
    <3>5. QED
      BY <2>2, <3>2, <3>3, <3>4
  <2>5. CASE s[n + 1] \notin S
    <3>1. f[n + 1] = f[n]
      BY <1>1, <2>1, <2>5
    <3>2. Sound(f[n], n + 1)
      BY <2>2
    <3>3. Complete(f[n], n + 1)
      <4> SUFFICES ASSUME NEW k \in 1..(n + 1), s[k] \in S
                   PROVE  \E m \in 1..Len(f[n]) : f[n][m] = s[k]
        OBVIOUS
      <4>1. k \in 1..n
        BY <2>5
      <4>2. QED
        BY <2>2, <4>1
    <3>4. Len(f[n]) <= n + 1
      BY <2>2, <2>3
    <3>5. QED
      BY <3>1, <3>2, <3>3, <3>4
  <2>6. QED
    BY <2>4, <2>5
<1>5. Len(s) \in I
  <2> HIDE DEF I
  <2>1. QED
    BY <1>2, <1>3, <1>4, NatInduct
<1>6. f[Len(s)] \in Seq(T)
  BY <1>1, <1>2
<1>7. QED
  BY <1>1, <1>2, <1>5, <1>6

\* The sum of the sizes of a sequence that is extended.
LEMMA TotalOfAppend ==
    /\ Total(<< >>) = 0
    /\ \A s \in Seq(PieceTypes) : Total(s) \in Nat
    /\ \A s \in Seq(PieceTypes) : \A p \in PieceTypes : Total(Append(s, p)) = Total(s) + Size(p)
<1>1. Total(<< >>) = 0
  <2>1. << >> \in Seq(PieceTypes) /\ Len(<< >>) = 0
    OBVIOUS
  <2>2. PICK f : Total(<< >>) = f[Len(<< >>)] /\ f[0] = 0
    BY <2>1, TotalSteps
  <2>3. QED
    BY <2>1, <2>2
<1>2. ASSUME NEW s \in Seq(PieceTypes)
      PROVE  Total(s) \in Nat
  <2>1. PICK f : (\A n \in 0..Len(s) : f[n] \in Nat) /\ Total(s) = f[Len(s)]
    BY TotalSteps, Zenon
  <2>2. Len(s) \in 0..Len(s)
    OBVIOUS
  <2>3. QED
    BY <2>1, <2>2
<1>3. ASSUME NEW s \in Seq(PieceTypes), NEW p \in PieceTypes
      PROVE  Total(Append(s, p)) = Total(s) + Size(p)
  <2> DEFINE longer == Append(s, p)
  <2>1. /\ longer \in Seq(PieceTypes)
        /\ Len(s) \in Nat
        /\ Len(longer) = Len(s) + 1
        /\ longer[Len(s) + 1] = p
        /\ \A n \in 1..Len(s) : longer[n] = s[n]
    OBVIOUS
  <2> HIDE DEF longer
  <2>2. PICK f :
          /\ \A n \in 0..Len(s) : f[n] \in Nat
          /\ Total(s) = f[Len(s)] /\ f[0] = 0
          /\ \A n \in 1..Len(s) : f[n] = f[n - 1] + Size(s[n])
    BY TotalSteps, Zenon
  <2>3. PICK g :
          /\ \A n \in 0..Len(longer) : g[n] \in Nat
          /\ Total(longer) = g[Len(longer)] /\ g[0] = 0
          /\ \A n \in 1..Len(longer) : g[n] = g[n - 1] + Size(longer[n])
    BY <2>1, TotalSteps
  <2> DEFINE I == {n \in Nat : n <= Len(s) => g[n] = f[n]}
  <2>4. 0 \in I
    BY <2>2, <2>3
  <2>5. \A n \in Nat : n \in I => n + 1 \in I
    <3> SUFFICES ASSUME NEW n \in Nat, n \in I, n + 1 <= Len(s)
                 PROVE  g[n + 1] = f[n + 1]
      BY <2>1
    <3>1. n + 1 \in 1..Len(s) /\ n + 1 \in 1..Len(longer) /\ (n + 1) - 1 = n /\ n <= Len(s)
      BY <2>1
    <3>2. g[n] = f[n]
      BY <3>1
    <3>3. g[n + 1] = g[n] + Size(longer[n + 1]) /\ f[n + 1] = f[n] + Size(s[n + 1])
      BY <2>2, <2>3, <3>1
    <3>4. longer[n + 1] = s[n + 1]
      BY <2>1, <3>1
    <3>5. QED
      BY <3>2, <3>3, <3>4
  <2>6. g[Len(s)] = f[Len(s)]
    <3>1. Len(s) \in I
      <4> HIDE DEF I
      <4>1. QED
        BY <2>1, <2>4, <2>5, NatInduct
    <3>2. QED
      BY <2>1, <3>1
  <2>7. Len(longer) \in 1..Len(longer) /\ Len(longer) - 1 = Len(s)
    BY <2>1
  <2>8. g[Len(longer)] = g[Len(s)] + Size(p)
    BY <2>1, <2>3, <2>7
  <2>9. QED
    BY <2>2, <2>3, <2>6, <2>8 DEF longer
<1>4. QED
  BY <1>1, <1>2, <1>3

\* The length of what is joined, and of one more piece.
LEMMA JoinedOfAppend ==
    /\ Joined(<< >>) = 0
    /\ \A s \in Seq(PieceTypes) : Joined(s) \in Nat
    /\ \A s \in Seq(PieceTypes) : \A p \in PieceTypes :
          Joined(Append(s, p)) = Joined(s) + Size(p) + (IF s = << >> THEN 0 ELSE 2)
<1>1. Joined(<< >>) = 0
  BY TotalOfAppend DEF Joined
<1>2. ASSUME NEW s \in Seq(PieceTypes)
      PROVE  Joined(s) \in Nat
  <2>1. Total(s) \in Nat /\ Len(s) \in Nat /\ (s # << >> => Len(s) >= 1)
    BY TotalOfAppend
  <2>2. QED
    BY <2>1 DEF Joined
<1>3. ASSUME NEW s \in Seq(PieceTypes), NEW p \in PieceTypes
      PROVE  Joined(Append(s, p)) = Joined(s) + Size(p) + (IF s = << >> THEN 0 ELSE 2)
  <2>1. /\ Len(s) \in Nat
        /\ Len(Append(s, p)) = Len(s) + 1
        /\ Append(s, p) # << >>
        /\ Append(s, p) \in Seq(PieceTypes)
    OBVIOUS
  <2>2. Total(Append(s, p)) = Total(s) + Size(p) /\ Total(s) \in Nat
    BY TotalOfAppend
  <2>7. Size(p) \in Nat
    BY DEF PieceTypes, Size
  <2>3. Joined(Append(s, p)) = Total(s) + Size(p) + 2 * Len(s)
    BY <2>1, <2>2, <2>7 DEF Joined
  <2>4. CASE s = << >>
    BY <2>2, <2>3, <2>4, <2>7 DEF Joined
  <2>5. CASE s # << >>
    <3>1. Joined(s) = Total(s) + 2 * (Len(s) - 1)
      BY <2>5 DEF Joined
    <3>2. QED
      BY <2>1, <2>2, <2>3, <2>5, <2>7, <3>1
  <2>6. QED
    BY <2>4, <2>5
<1>4. QED
  BY <1>1, <1>2, <1>3

\* The elements of sequences that are extended, joined or written down.
LEMMA ToSetOfAppend ==
    \A T : \A s \in Seq(T) : \A e \in T : ToSet(Append(s, e)) = ToSet(s) \cup {e}
<1> TAKE T
<1> TAKE s \in Seq(T)
<1> TAKE e \in T
<1>1. /\ Len(s) \in Nat /\ DOMAIN s = 1..Len(s)
      /\ DOMAIN Append(s, e) = 1..(Len(s) + 1)
      /\ \A n \in 1..Len(s) : Append(s, e)[n] = s[n]
      /\ Append(s, e)[Len(s) + 1] = e
  OBVIOUS
<1>2. ASSUME NEW x \in ToSet(Append(s, e))
      PROVE  x \in ToSet(s) \cup {e}
  <2>1. PICK n \in 1..(Len(s) + 1) : x = Append(s, e)[n]
    BY <1>1 DEF ToSet
  <2>2. CASE n = Len(s) + 1
    BY <1>1, <2>1, <2>2
  <2>3. CASE n # Len(s) + 1
    <3>1. n \in 1..Len(s)
      BY <1>1, <2>3
    <3>2. QED
      BY <1>1, <2>1, <3>1 DEF ToSet
  <2>4. QED
    BY <2>2, <2>3
<1>3. ASSUME NEW x \in ToSet(s) \cup {e}
      PROVE  x \in ToSet(Append(s, e))
  <2>1. CASE x = e
    <3>1. Len(s) + 1 \in DOMAIN Append(s, e)
      BY <1>1
    <3>2. QED
      BY <1>1, <2>1, <3>1 DEF ToSet
  <2>2. CASE x \in ToSet(s)
    <3>1. PICK n \in 1..Len(s) : x = s[n]
      BY <1>1, <2>2 DEF ToSet
    <3>2. n \in DOMAIN Append(s, e)
      BY <1>1
    <3>3. QED
      BY <1>1, <3>1, <3>2 DEF ToSet
  <2>3. QED
    BY <2>1, <2>2
<1>4. QED
  BY <1>2, <1>3

LEMMA ToSetOfCat ==
    \A T : \A s, t \in Seq(T) : ToSet(s \o t) = ToSet(s) \cup ToSet(t)
<1> TAKE T
<1> TAKE s, t \in Seq(T)
<1>1. /\ Len(s) \in Nat /\ Len(t) \in Nat
      /\ DOMAIN s = 1..Len(s) /\ DOMAIN t = 1..Len(t)
      /\ DOMAIN (s \o t) = 1..(Len(s) + Len(t))
      /\ \A n \in 1..Len(s) : (s \o t)[n] = s[n]
      /\ \A n \in 1..Len(t) : (s \o t)[Len(s) + n] = t[n]
  <2>1. \A n \in 1..Len(t) : (s \o t)[Len(s) + n] = t[n]
    <3> TAKE n \in 1..Len(t)
    <3>1. Len(s) + n \in 1..(Len(s) + Len(t)) /\ Len(s) + n > Len(s) /\ (Len(s) + n) - Len(s) = n
      OBVIOUS
    <3>2. QED
      BY <3>1
  <2>2. QED
    BY <2>1
<1>2. ASSUME NEW x \in ToSet(s \o t)
      PROVE  x \in ToSet(s) \cup ToSet(t)
  <2>1. PICK n \in 1..(Len(s) + Len(t)) : x = (s \o t)[n]
    BY <1>1 DEF ToSet
  <2>2. CASE n <= Len(s)
    <3>1. n \in 1..Len(s)
      BY <1>1, <2>2
    <3>2. QED
      BY <1>1, <2>1, <3>1 DEF ToSet
  <2>3. CASE ~(n <= Len(s))
    <3>1. n - Len(s) \in 1..Len(t) /\ Len(s) + (n - Len(s)) = n
      BY <1>1, <2>3
    <3>2. (s \o t)[n] = t[n - Len(s)]
      BY <1>1, <3>1
    <3>3. QED
      BY <1>1, <2>1, <3>1, <3>2 DEF ToSet
  <2>4. QED
    BY <2>2, <2>3
<1>3. ASSUME NEW x \in ToSet(s)
      PROVE  x \in ToSet(s \o t)
  <2>1. PICK n \in 1..Len(s) : x = s[n]
    BY <1>1 DEF ToSet
  <2>2. n \in DOMAIN (s \o t)
    BY <1>1
  <2>3. QED
    BY <1>1, <2>1, <2>2 DEF ToSet
<1>4. ASSUME NEW x \in ToSet(t)
      PROVE  x \in ToSet(s \o t)
  <2>1. PICK n \in 1..Len(t) : x = t[n]
    BY <1>1 DEF ToSet
  <2>2. Len(s) + n \in DOMAIN (s \o t)
    BY <1>1
  <2>3. QED
    BY <1>1, <2>1, <2>2 DEF ToSet
<1>5. QED
  BY <1>2, <1>3, <1>4

LEMMA ToSetOfEmpty == ToSet(<< >>) = {}
BY DEF ToSet

LEMMA ToSetOfOne == \A e : ToSet(<<e>>) = {e}
<1> TAKE e
<1>1. DOMAIN <<e>> = 1..1 /\ <<e>>[1] = e
  OBVIOUS
<1>2. \A x : x \in ToSet(<<e>>) <=> x = e
  BY <1>1 DEF ToSet
<1>3. QED
  BY <1>2

LEMMA ToSetIsTyped == \A T : \A s \in Seq(T) : \A x \in ToSet(s) : x \in T
BY DEF ToSet

LEMMA ToSetIs ==
    \A T : \A s \in Seq(T) :
        /\ \A n \in 1..Len(s) : s[n] \in ToSet(s)
        /\ \A x \in ToSet(s) : \E n \in 1..Len(s) : x = s[n]
BY DEF ToSet

-----------------------------------------------------------------------------
(* The windows of a paragraph that is too long.                            *)

\* The stride leaves no room for a phrase to be cut in every window.
LEMMA StrideBounds ==
    \A size \in Nat \ {0} : \A overlap \in Nat :
        /\ Stride(size, overlap) \in Nat \ {0}
        /\ Stride(size, overlap) <= size
        /\ PhraseBound(size, overlap) \in 1..size
        /\ Stride(size, overlap) + PhraseBound(size, overlap) <= size + 1
BY DEF Stride, PhraseBound, Larger, Smaller

\* The pieces of whole blocks.
WholePieces == {p \in PieceTypes : p.from = 0}

\* Each window of a long paragraph is of its text and of one size, and every
\* phrase stands uncut in one of them.
LEMMA HardSplitCovers ==
    \A size \in Nat \ {0} : \A overlap \in Nat : \A p \in WholePieces : p.to > size =>
        /\ HardSplit(p, size, overlap) \in Seq(Seq(PieceTypes))
        /\ \A w \in ToSet(HardSplit(p, size, overlap)) :
              \E q \in PieceTypes : w = <<q>> /\ q.block = p.block /\ Size(q) <= size
        /\ \A at \in Nat : at + PhraseBound(size, overlap) <= p.to =>
              \E w \in ToSet(HardSplit(p, size, overlap)) :
                  \E q \in PieceTypes :
                      /\ w = <<q>> /\ q.block = p.block
                      /\ q.from <= at /\ at + PhraseBound(size, overlap) <= q.to
<1> TAKE size \in Nat \ {0}
<1> TAKE overlap \in Nat
<1> TAKE p \in WholePieces
<1> HAVE p.to > size
<1> DEFINE stride == Stride(size, overlap)
           count == ((Size(p) - 1) \div stride) + 1
           window(n) == [p EXCEPT !.from = (n - 1) * stride, !.to = Smaller(p.to, (n - 1) * stride + size)]
           windows == HardSplit(p, size, overlap)
           bound == PhraseBound(size, overlap)
<1>1. stride \in Nat \ {0} /\ stride <= size /\ bound \in 1..size /\ stride + bound <= size + 1
  BY StrideBounds
<1>2. p \in [block : Nat, from : Nat, to : Nat] /\ p.from = 0 /\ Size(p) = p.to /\ p.to - 1 \in Nat
  BY DEF WholePieces, PieceTypes, Size
<1>3. windows = [n \in 1..count |-> <<window(n)>>]
  BY DEF HardSplit
<1> HIDE DEF stride, bound
<1>4. count \in Nat
  BY <1>1, <1>2
<1>5. \A k \in Nat : k * stride \in Nat /\ (k <= (p.to - 1) \div stride => k * stride <= p.to - 1)
  <2> TAKE k \in Nat
  <2>1. k * stride \in Nat
    BY <1>1
  <2> SUFFICES ASSUME k <= (p.to - 1) \div stride
               PROVE  k * stride <= p.to - 1
    BY <2>1
  <2>2. ((p.to - 1) \div stride) * stride <= p.to - 1 /\ (p.to - 1) \div stride \in Nat
    BY <1>1, <1>2
  <2>3. k * stride <= ((p.to - 1) \div stride) * stride
    BY <1>1, <2>2
  <2>4. QED
    BY <1>1, <1>2, <2>1, <2>2, <2>3
<1>6. ASSUME NEW n \in 1..count
      PROVE  /\ window(n) \in PieceTypes
             /\ window(n).block = p.block
             /\ window(n).from = (n - 1) * stride
             /\ window(n).to = Smaller(p.to, (n - 1) * stride + size)
             /\ Size(window(n)) <= size
  <2>1. n - 1 \in Nat /\ n - 1 <= (p.to - 1) \div stride
    BY <1>1, <1>2, <1>4
  <2>2. (n - 1) * stride \in Nat /\ (n - 1) * stride <= p.to - 1
    BY <1>5, <2>1
  <2> DEFINE from == (n - 1) * stride
             to == Smaller(p.to, from + size)
  <2>3. to \in Nat /\ from <= to /\ to <= from + size /\ from \in Nat
    BY <1>2, <2>2 DEF Smaller
  <2> HIDE DEF from, to
  <2>4. window(n) = [p EXCEPT !.from = from, !.to = to]
    BY DEF from, to
  <2>5. /\ window(n) \in [block : Nat, from : Nat, to : Nat]
        /\ window(n).block = p.block /\ window(n).from = from /\ window(n).to = to
    BY <1>2, <2>3, <2>4
  <2> HIDE DEF window
  <2>6. window(n) \in PieceTypes /\ Size(window(n)) <= size
    BY <2>3, <2>5 DEF PieceTypes, Size
  <2>7. QED
    BY <2>5, <2>6 DEF from, to
<1>7. /\ windows \in Seq(Seq(PieceTypes))
      /\ \A w : w \in ToSet(windows) <=> \E n \in 1..count : w = <<window(n)>>
  <2> HIDE DEF window, count
  <2>1. \A n \in 1..count : <<window(n)>> \in Seq(PieceTypes)
    BY <1>6
  <2>2. windows \in Seq(Seq(PieceTypes)) /\ DOMAIN windows = 1..count
    BY <1>3, <1>4, <2>1
  <2>3. QED
    BY <1>3, <2>2 DEF ToSet
<1>8. ASSUME NEW at \in Nat, at + bound <= p.to
      PROVE  \E n \in 1..count : window(n).from <= at /\ at + bound <= window(n).to
  <2> DEFINE k == at \div stride
  <2>1. k \in Nat /\ k * stride <= at /\ at <= k * stride + stride - 1
    BY <1>1
  <2>2. at <= p.to - 1
    BY <1>1, <1>2, <1>8
  <2>3. k <= (p.to - 1) \div stride
    BY <1>1, <1>2, <2>2
  <2>4. k * stride \in Nat
    BY <1>5, <2>1
  <2> HIDE DEF k
  <2>5. k + 1 \in 1..count /\ (k + 1) - 1 = k
    BY <1>1, <1>2, <1>4, <2>1, <2>3
  <2>6. window(k + 1).from = k * stride /\ window(k + 1).to = Smaller(p.to, k * stride + size)
    BY <1>6, <2>5
  <2> HIDE DEF window, count
  <2> DEFINE from == k * stride
  <2>7. from \in Nat /\ from <= at /\ at <= from + stride - 1
    BY <2>1, <2>4
  <2> HIDE DEF from
  <2>8. at + bound <= from + size
    BY <1>1, <2>7
  <2>9. at + bound <= Smaller(p.to, from + size)
    BY <1>8, <2>8 DEF Smaller
  <2>10. QED
    BY <2>5, <2>6, <2>7, <2>9 DEF from
<1>9. \A w \in ToSet(windows) : \E q \in PieceTypes : w = <<q>> /\ q.block = p.block /\ Size(q) <= size
  <2> HIDE DEF window, count, windows
  <2>1. QED
    BY <1>6, <1>7
<1>10. ASSUME NEW at \in Nat, at + bound <= p.to
       PROVE  \E w \in ToSet(windows) : \E q \in PieceTypes :
                 /\ w = <<q>> /\ q.block = p.block
                 /\ q.from <= at /\ at + bound <= q.to
  <2> HIDE DEF window, count, windows
  <2>1. PICK n \in 1..count : window(n).from <= at /\ at + bound <= window(n).to
    BY <1>8, <1>10
  <2>2. QED
    BY <1>6, <1>7, <2>1
<1>11. QED
  BY <1>7, <1>9, <1>10 DEF bound

-----------------------------------------------------------------------------
(* Packing paragraphs into windows.                                        *)

PackTypes == [windows : Seq(Seq(PieceTypes)), buffer : Seq(PieceTypes)]

\* A window that keeps to its size and to some blocks.
Fits(w, size, blocks) ==
    /\ w \in Seq(PieceTypes)
    /\ Joined(w) <= size
    /\ \A q \in ToSet(w) : q.block \in blocks

\* A phrase stands uncut among pieces.
Shows(w, block, from, to) ==
    \E q \in ToSet(w) : q.block = block /\ q.from <= from /\ to <= q.to

AllFit(packed, size, blocks) ==
    \A w \in ToSet(packed.windows) \cup {packed.buffer} : Fits(w, size, blocks)

Shown(packed, block, from, to) ==
    \E w \in ToSet(packed.windows) \cup {packed.buffer} : Shows(w, block, from, to)

\* The length of a phrase of a stretch of text.
PhraseLength(length, size, overlap) == Smaller(length, PhraseBound(size, overlap))

\* The windows with the open one among them.
LEMMA FlushedWindows ==
    \A packed \in PackTypes :
        /\ Flushed(packed) \in Seq(Seq(PieceTypes))
        /\ ToSet(Flushed(packed)) \subseteq ToSet(packed.windows) \cup {packed.buffer}
        /\ \A w \in ToSet(packed.windows) \cup {packed.buffer} : w # << >> => w \in ToSet(Flushed(packed))
<1> TAKE packed \in PackTypes
<1>1. packed.windows \in Seq(Seq(PieceTypes)) /\ packed.buffer \in Seq(PieceTypes)
  BY DEF PackTypes
<1>2. CASE packed.buffer = << >>
  BY <1>1, <1>2 DEF Flushed
<1>3. CASE packed.buffer # << >>
  <2>1. Flushed(packed) = Append(packed.windows, packed.buffer)
    BY <1>3 DEF Flushed
  <2>2. Flushed(packed) \in Seq(Seq(PieceTypes))
    BY <1>1, <2>1
  <2>3. ToSet(Flushed(packed)) = ToSet(packed.windows) \cup {packed.buffer}
    BY <1>1, <2>1, ToSetOfAppend
  <2>4. QED
    BY <2>2, <2>3
<1>4. QED
  BY <1>2, <1>3

\* A window of one piece.
LEMMA OnePiece ==
    \A p \in PieceTypes : <<p>> \in Seq(PieceTypes) /\ ToSet(<<p>>) = {p} /\ Joined(<<p>>) = Size(p)
<1> TAKE p \in PieceTypes
<1>1. <<p>> \in Seq(PieceTypes) /\ << >> \in Seq(PieceTypes) /\ Append(<< >>, p) = <<p>>
  OBVIOUS
<1>2. Size(p) \in Nat
  BY DEF PieceTypes, Size
<1>3. Joined(Append(<< >>, p)) = Joined(<< >>) + Size(p) + 0
  BY <1>1, JoinedOfAppend
<1>4. Joined(<< >>) = 0
  BY JoinedOfAppend
<1>5. Joined(<<p>>) = Size(p)
  BY <1>1, <1>2, <1>3, <1>4
<1>6. QED
  BY <1>1, <1>5, ToSetOfOne

\* A step of packing keeps to the size and to the blocks, cuts nothing that
\* stood uncut, and leaves every phrase of its paragraph uncut.
LEMMA PackStepKeeps ==
    \A size \in Nat \ {0} : \A overlap \in Nat : \A packed \in PackTypes : \A p \in WholePieces : \A blocks :
        p.block \in blocks /\ AllFit(packed, size, blocks) =>
            /\ PackStep(packed, p, size, overlap) \in PackTypes
            /\ AllFit(PackStep(packed, p, size, overlap), size, blocks)
            /\ \A b, from, to : Shown(packed, b, from, to) => Shown(PackStep(packed, p, size, overlap), b, from, to)
            /\ \A at \in Nat : at + PhraseLength(p.to, size, overlap) <= p.to =>
                  Shown(PackStep(packed, p, size, overlap), p.block, at, at + PhraseLength(p.to, size, overlap))
<1> TAKE size \in Nat \ {0}
<1> TAKE overlap \in Nat
<1> TAKE packed \in PackTypes
<1> TAKE p \in WholePieces
<1> TAKE blocks
<1> HAVE p.block \in blocks /\ AllFit(packed, size, blocks)
<1> DEFINE after == PackStep(packed, p, size, overlap)
           length == PhraseLength(p.to, size, overlap)
           old == ToSet(packed.windows) \cup {packed.buffer}
<1>1. /\ packed.windows \in Seq(Seq(PieceTypes)) /\ packed.buffer \in Seq(PieceTypes)
      /\ packed = [windows |-> packed.windows, buffer |-> packed.buffer]
  BY DEF PackTypes
<1>2. /\ p \in PieceTypes /\ p.from = 0 /\ p.to \in Nat /\ Size(p) = p.to
      /\ length \in Nat /\ length <= p.to /\ length <= PhraseBound(size, overlap)
      /\ PhraseBound(size, overlap) \in 1..size
      /\ (p.to > size => length = PhraseBound(size, overlap))
  <2>1. p \in PieceTypes /\ p.from = 0 /\ p.to \in Nat /\ Size(p) = p.to
    BY DEF WholePieces, PieceTypes, Size
  <2>2. PhraseBound(size, overlap) \in 1..size
    BY StrideBounds
  <2>3. QED
    BY <2>1, <2>2 DEF PhraseLength, Smaller
<1>3. Joined(packed.buffer) \in Nat /\ Joined(packed.buffer) <= size
  <2>1. Fits(packed.buffer, size, blocks)
    BY DEF AllFit
  <2>2. QED
    BY <1>1, <2>1, JoinedOfAppend DEF Fits
<1>4. ASSUME NEW w, p \in ToSet(w), w \in ToSet(after.windows) \cup {after.buffer}
      PROVE  \A at \in Nat : at + length <= p.to => Shown(after, p.block, at, at + length)
  <2> TAKE at \in Nat
  <2> HAVE at + length <= p.to
  <2>1. Shows(w, p.block, at, at + length)
    BY <1>2, <1>4 DEF Shows
  <2> HIDE DEF after
  <2>2. QED
    BY <1>4, <2>1 DEF Shown
<1> HIDE DEF length, old
<1>5. CASE Joined(packed.buffer) + Size(p) + 2 <= size
  <2> DEFINE buffer == Append(packed.buffer, p)
  <2>1. after = [windows |-> packed.windows, buffer |-> buffer]
    BY <1>1, <1>5 DEF PackStep
  <2>2. buffer \in Seq(PieceTypes) /\ ToSet(buffer) = ToSet(packed.buffer) \cup {p}
    BY <1>1, <1>2, ToSetOfAppend
  <2>3. Joined(buffer) = Joined(packed.buffer) + Size(p) + (IF packed.buffer = << >> THEN 0 ELSE 2)
    BY <1>1, <1>2, JoinedOfAppend
  <2>4. Joined(buffer) <= size
    BY <1>2, <1>3, <1>5, <2>3
  <2>5. Fits(buffer, size, blocks)
    <3>1. \A q \in ToSet(packed.buffer) : q.block \in blocks
      BY DEF AllFit, Fits
    <3>2. QED
      BY <2>2, <2>4, <3>1 DEF Fits
  <2> HIDE DEF buffer, after
  <2>6. after \in PackTypes
    BY <1>1, <2>1, <2>2 DEF PackTypes
  <2>7. after.windows = packed.windows /\ after.buffer = buffer
    BY <2>1
  <2>8. AllFit(after, size, blocks)
    BY <2>5, <2>7 DEF AllFit
  <2>9. \A b, from, to : Shown(packed, b, from, to) => Shown(after, b, from, to)
    BY <2>2, <2>7 DEF Shown, Shows
  <2>10. \A at \in Nat : at + length <= p.to => Shown(after, p.block, at, at + length)
    <3>1. p \in ToSet(buffer) /\ buffer \in ToSet(after.windows) \cup {after.buffer}
      BY <2>2, <2>7
    <3>2. QED
      BY <1>4, <3>1
  <2>11. QED
    BY <2>6, <2>8, <2>9, <2>10 DEF after, length
<1>6. /\ Flushed(packed) \in Seq(Seq(PieceTypes))
      /\ ToSet(Flushed(packed)) \subseteq old
      /\ \A w \in old : w # << >> => w \in ToSet(Flushed(packed))
  BY FlushedWindows DEF old
<1>7. \A w \in ToSet(Flushed(packed)) : Fits(w, size, blocks)
  BY <1>6 DEF AllFit, old
<1>8. \A b, from, to : Shown(packed, b, from, to) => \E w \in ToSet(Flushed(packed)) : Shows(w, b, from, to)
  <2> TAKE b, from, to
  <2> HAVE Shown(packed, b, from, to)
  <2>1. PICK w \in old : Shows(w, b, from, to)
    BY DEF Shown, old
  <2>2. w # << >>
    BY <2>1, ToSetOfEmpty DEF Shows
  <2>3. QED
    BY <1>6, <2>1, <2>2
<1>9. CASE ~(Joined(packed.buffer) + Size(p) + 2 <= size) /\ Size(p) <= size
  <2>1. after = [windows |-> Flushed(packed), buffer |-> <<p>>]
    BY <1>9 DEF PackStep
  <2>2. <<p>> \in Seq(PieceTypes) /\ ToSet(<<p>>) = {p} /\ Joined(<<p>>) = Size(p)
    BY <1>2, OnePiece
  <2>3. Fits(<<p>>, size, blocks)
    BY <1>9, <2>2 DEF Fits
  <2> HIDE DEF after
  <2>4. after \in PackTypes /\ after.windows = Flushed(packed) /\ after.buffer = <<p>>
    BY <1>6, <2>1, <2>2 DEF PackTypes
  <2>5. AllFit(after, size, blocks)
    BY <1>7, <2>3, <2>4 DEF AllFit
  <2>6. \A b, from, to : Shown(packed, b, from, to) => Shown(after, b, from, to)
    BY <1>8, <2>4 DEF Shown
  <2>7. \A at \in Nat : at + length <= p.to => Shown(after, p.block, at, at + length)
    <3>1. p \in ToSet(<<p>>) /\ <<p>> \in ToSet(after.windows) \cup {after.buffer}
      BY <2>2, <2>4
    <3>2. QED
      BY <1>4, <3>1
  <2>8. QED
    BY <2>4, <2>5, <2>6, <2>7 DEF after, length
<1>10. CASE ~(Joined(packed.buffer) + Size(p) + 2 <= size) /\ ~(Size(p) <= size)
  <2> DEFINE split == HardSplit(p, size, overlap)
  <2>1. after = [windows |-> Flushed(packed) \o split, buffer |-> << >>]
    BY <1>10 DEF PackStep
  <2>2. p.to > size
    BY <1>2, <1>10
  <2>3. /\ split \in Seq(Seq(PieceTypes))
        /\ \A w \in ToSet(split) :
              \E q \in PieceTypes : w = <<q>> /\ q.block = p.block /\ Size(q) <= size
        /\ \A at \in Nat : at + PhraseBound(size, overlap) <= p.to =>
              \E w \in ToSet(split) :
                  \E q \in PieceTypes :
                      /\ w = <<q>> /\ q.block = p.block
                      /\ q.from <= at /\ at + PhraseBound(size, overlap) <= q.to
    BY <2>2, HardSplitCovers
  <2> HIDE DEF split, after
  <2>4. ToSet(Flushed(packed) \o split) = ToSet(Flushed(packed)) \cup ToSet(split)
    BY <1>6, <2>3, ToSetOfCat
  <2>5. /\ after \in PackTypes
        /\ ToSet(after.windows) = ToSet(Flushed(packed)) \cup ToSet(split)
        /\ after.buffer = << >>
    <3>1. Flushed(packed) \o split \in Seq(Seq(PieceTypes))
      BY <1>6, <2>3
    <3>2. << >> \in Seq(PieceTypes)
      OBVIOUS
    <3>3. QED
      BY <2>1, <2>4, <3>1, <3>2 DEF PackTypes
  <2>6. \A w \in ToSet(split) : Fits(w, size, blocks)
    <3> TAKE w \in ToSet(split)
    <3>1. PICK q \in PieceTypes : w = <<q>> /\ q.block = p.block /\ Size(q) <= size
      BY <2>3
    <3>2. w \in Seq(PieceTypes) /\ ToSet(w) = {q} /\ Joined(w) = Size(q)
      BY <3>1, OnePiece
    <3>3. QED
      BY <3>1, <3>2 DEF Fits
  <2>7. Fits(<< >>, size, blocks)
    BY JoinedOfAppend, ToSetOfEmpty DEF Fits
  <2>8. AllFit(after, size, blocks)
    BY <1>7, <2>5, <2>6, <2>7 DEF AllFit
  <2>9. \A b, from, to : Shown(packed, b, from, to) => Shown(after, b, from, to)
    BY <1>8, <2>5 DEF Shown
  <2>10. ASSUME NEW at \in Nat, at + length <= p.to
         PROVE  Shown(after, p.block, at, at + length)
    <3>1. length = PhraseBound(size, overlap)
      BY <1>2, <2>2
    <3>2. PICK w \in ToSet(split) :
                  \E q \in PieceTypes :
                      /\ w = <<q>> /\ q.block = p.block
                      /\ q.from <= at /\ at + length <= q.to
      BY <2>3, <2>10, <3>1
    <3>3. PICK q \in PieceTypes :
                      /\ w = <<q>> /\ q.block = p.block
                      /\ q.from <= at /\ at + length <= q.to
      BY <3>2
    <3>4. q \in ToSet(w)
      BY <3>3, ToSetOfOne
    <3>5. Shows(w, p.block, at, at + length)
      BY <3>3, <3>4 DEF Shows
    <3>6. QED
      BY <2>5, <3>5 DEF Shown
  <2>11. QED
    BY <2>5, <2>8, <2>9, <2>10 DEF after, length
<1>11. QED
  BY <1>5, <1>9, <1>10

-----------------------------------------------------------------------------
(* A section's prose, packed.                                              *)

BlocksOf(s) == {s[k].block : k \in 1..Len(s)}

Packings(size, blocks) == {packed \in PackTypes : AllFit(packed, size, blocks)}

\* What has been packed, as far as each paragraph.
LEMMA PackSteps ==
    \A size \in Nat \ {0} : \A overlap \in Nat : \A s \in Seq(WholePieces) :
        \E f :
            /\ \A n \in 0..Len(s) : f[n] \in Packings(size, BlocksOf(s))
            /\ Pack(s, size, overlap) = Flushed(f[Len(s)])
            /\ f[0] = [windows |-> << >>, buffer |-> << >>]
            /\ \A n \in 1..Len(s) : f[n] = PackStep(f[n - 1], s[n], size, overlap)
<1> TAKE size \in Nat \ {0}
<1> TAKE overlap \in Nat
<1> TAKE s \in Seq(WholePieces)
<1>0. size \in Nat \ {0} /\ overlap \in Nat /\ s \in Seq(WholePieces)
  OBVIOUS
<1> DEFINE N == Len(s)
           V == Packings(size, BlocksOf(s))
           zero == [windows |-> << >>, buffer |-> << >>]
           step(n, w) == PackStep(w, s[n], size, overlap)
           body(f) == [n \in 0..N |-> IF n = 0 THEN zero ELSE step(n, f[n - 1])]
           h == [n \in 1..N |-> [w \in V |-> step(n, w)]]
           upTo == CHOOSE f : f = body(f)
<1>1. N \in Nat /\ \A n \in 1..N : s[n] \in WholePieces /\ s[n].block \in BlocksOf(s)
  BY <1>0 DEF BlocksOf
<1>2. \A n \in 1..N : \A w \in V : step(n, w) \in V
  BY <1>0, <1>1, PackStepKeeps DEF Packings
<1>3. zero \in V
  <2>1. << >> \in Seq(Seq(PieceTypes)) /\ << >> \in Seq(PieceTypes)
    OBVIOUS
  <2>2. zero \in PackTypes /\ ToSet(zero.windows) = {} /\ zero.buffer = << >>
    BY <2>1, ToSetOfEmpty DEF PackTypes
  <2>3. Fits(<< >>, size, BlocksOf(s))
    BY <1>0, <2>1, ToSetOfEmpty, JoinedOfAppend DEF Fits
  <2> HIDE DEF zero
  <2>4. QED
    BY <2>2, <2>3 DEF Packings, AllFit
<1> HIDE DEF V, N, step, zero
<1>4. h \in [1..N -> [V -> V]] /\ \A n \in 1..N : \A w \in V : h[n][w] = step(n, w)
  BY <1>2
<1> HIDE DEF h
<1>5. PICK f \in [0..N -> V] : f[0] = zero /\ \A n \in 1..N : f[n] = h[n][f[n - 1]]
  <2>1. N \in Nat /\ h \in [1..N -> [V -> V]]
    BY <1>1, <1>4
  <2>2. QED
    BY <1>3, <2>1, StepByStep
<1>6. f = body(f)
  <2>1. \A n \in 0..N : n # 0 => n \in 1..N /\ n - 1 \in 0..N /\ f[n - 1] \in V
    BY <1>1
  <2>2. \A n \in 0..N : f[n] = IF n = 0 THEN zero ELSE step(n, f[n - 1])
    BY <1>4, <1>5, <2>1
  <2>3. QED
    BY <2>2
<1>7. upTo = body(upTo)
  <2> HIDE DEF body
  <2>1. QED
    BY <1>6
<1>8. Pack(s, size, overlap) = Flushed(upTo[N])
  BY DEF Pack, step, N, zero
<1> HIDE DEF upTo
<1>9. upTo = [n \in 0..N |-> IF n = 0 THEN zero ELSE step(n, upTo[n - 1])]
  BY <1>7
<1>10. upTo[0] = zero /\ \A n \in 1..N : upTo[n] = step(n, upTo[n - 1])
  BY <1>1, <1>9
<1>11. upTo \in [0..N -> V]
  <2>1. upTo = [n \in 0..N |-> upTo[n]]
    BY <1>9
  <2>2. \A n \in 1..N : upTo[n - 1] \in V => upTo[n] \in V
    BY <1>2, <1>10
  <2>3. QED
    BY <1>1, <1>3, <1>10, <2>1, <2>2, StepsAreTyped
<1>12. \A n \in 0..N : upTo[n] \in V
  BY <1>11
<1>13. QED
  BY <1>8, <1>10, <1>12 DEF N, V, zero, step

\* Packing keeps to the size and to the blocks, and cuts no phrase.
LEMMA PackCovers ==
    \A size \in Nat \ {0} : \A overlap \in Nat : \A s \in Seq(WholePieces) :
        /\ Pack(s, size, overlap) \in Seq(Seq(PieceTypes))
        /\ \A w \in ToSet(Pack(s, size, overlap)) : Fits(w, size, BlocksOf(s))
        /\ \A k \in 1..Len(s) : \A at \in Nat :
              at + PhraseLength(s[k].to, size, overlap) <= s[k].to =>
                  \E w \in ToSet(Pack(s, size, overlap)) :
                      Shows(w, s[k].block, at, at + PhraseLength(s[k].to, size, overlap))
<1> TAKE size \in Nat \ {0}
<1> TAKE overlap \in Nat
<1> TAKE s \in Seq(WholePieces)
<1>1. PICK f :
        /\ \A n \in 0..Len(s) : f[n] \in Packings(size, BlocksOf(s))
        /\ Pack(s, size, overlap) = Flushed(f[Len(s)])
        /\ f[0] = [windows |-> << >>, buffer |-> << >>]
        /\ \A n \in 1..Len(s) : f[n] = PackStep(f[n - 1], s[n], size, overlap)
  BY PackSteps, Zenon
<1>2. /\ Len(s) \in Nat
      /\ \A n \in 0..Len(s) : f[n] \in PackTypes /\ AllFit(f[n], size, BlocksOf(s))
      /\ \A n \in 1..Len(s) : s[n] \in WholePieces /\ s[n].block \in BlocksOf(s)
  <2>1. \A n \in 1..Len(s) : s[n] \in WholePieces /\ s[n].block \in BlocksOf(s)
    BY DEF BlocksOf
  <2>2. QED
    BY <1>1, <2>1 DEF Packings
<1> DEFINE length(k) == PhraseLength(s[k].to, size, overlap)
           Covered(n) == \A k \in 1..n : \A at \in Nat :
                            at + length(k) <= s[k].to => Shown(f[n], s[k].block, at, at + length(k))
           I == {n \in Nat : n <= Len(s) => Covered(n)}
<1> HIDE DEF length
<1>3. 0 \in I
  OBVIOUS
<1>4. \A n \in Nat : n \in I => n + 1 \in I
  <2> SUFFICES ASSUME NEW n \in Nat, n \in I, n + 1 <= Len(s)
               PROVE  Covered(n + 1)
    <3> HIDE DEF Covered
    <3>1. QED
      OBVIOUS
  <2>1. n + 1 \in 1..Len(s) /\ (n + 1) - 1 = n /\ n \in 0..Len(s) /\ n <= Len(s)
    BY <1>2
  <2>2. Covered(n)
    BY <2>1
  <2>3. f[n + 1] = PackStep(f[n], s[n + 1], size, overlap)
    BY <1>1, <2>1
  <2>4. /\ \A b, from, to : Shown(f[n], b, from, to) => Shown(f[n + 1], b, from, to)
        /\ \A at \in Nat : at + length(n + 1) <= s[n + 1].to =>
              Shown(f[n + 1], s[n + 1].block, at, at + length(n + 1))
    <3>1. /\ f[n] \in PackTypes /\ s[n + 1] \in WholePieces
          /\ s[n + 1].block \in BlocksOf(s) /\ AllFit(f[n], size, BlocksOf(s))
      BY <1>2, <2>1
    <3> DEFINE acc == f[n]
               p == s[n + 1]
               after == PackStep(acc, p, size, overlap)
    <3> HIDE DEF I, Covered, acc, p
    <3>2. /\ \A b, from, to : Shown(acc, b, from, to) => Shown(after, b, from, to)
          /\ \A at \in Nat : at + PhraseLength(p.to, size, overlap) <= p.to =>
                Shown(after, p.block, at, at + PhraseLength(p.to, size, overlap))
      BY <3>1, PackStepKeeps DEF acc, p
    <3>3. after = f[n + 1]
      BY <2>3 DEF acc, p
    <3> HIDE DEF after
    <3>4. QED
      BY <3>2, <3>3 DEF length, acc, p
  <2> TAKE k \in 1..(n + 1)
  <2> TAKE at \in Nat
  <2> HAVE at + length(k) <= s[k].to
  <2>5. CASE k = n + 1
    BY <2>4, <2>5
  <2>6. CASE k # n + 1
    <3>1. k \in 1..n
      BY <2>6
    <3>2. QED
      BY <2>2, <2>4, <3>1
  <2>7. QED
    BY <2>5, <2>6
<1>5. Covered(Len(s))
  <2>1. Len(s) \in I
    <3> HIDE DEF I
    <3>1. QED
      BY <1>2, <1>3, <1>4, NatInduct
  <2>2. QED
    BY <1>2, <2>1
<1>6. f[Len(s)] \in PackTypes /\ AllFit(f[Len(s)], size, BlocksOf(s))
  BY <1>2
<1>7. /\ Pack(s, size, overlap) \in Seq(Seq(PieceTypes))
      /\ ToSet(Pack(s, size, overlap)) \subseteq ToSet(f[Len(s)].windows) \cup {f[Len(s)].buffer}
      /\ \A w \in ToSet(f[Len(s)].windows) \cup {f[Len(s)].buffer} :
            w # << >> => w \in ToSet(Pack(s, size, overlap))
  BY <1>1, <1>6, FlushedWindows
<1>8. \A w \in ToSet(Pack(s, size, overlap)) : Fits(w, size, BlocksOf(s))
  BY <1>6, <1>7 DEF AllFit
<1>9. ASSUME NEW k \in 1..Len(s), NEW at \in Nat, at + length(k) <= s[k].to
      PROVE  \E w \in ToSet(Pack(s, size, overlap)) : Shows(w, s[k].block, at, at + length(k))
  <2>1. Shown(f[Len(s)], s[k].block, at, at + length(k))
    BY <1>5, <1>9
  <2>2. PICK w \in ToSet(f[Len(s)].windows) \cup {f[Len(s)].buffer} :
          Shows(w, s[k].block, at, at + length(k))
    BY <2>1 DEF Shown
  <2>3. w # << >>
    BY <2>2, ToSetOfEmpty DEF Shows
  <2>4. QED
    BY <1>7, <2>2, <2>3
<1>10. QED
  BY <1>7, <1>8, <1>9 DEF length

-----------------------------------------------------------------------------
(* The glossary entries of a section, batched.                             *)

BatchTypes == [batches : Seq(Seq(PieceTypes)), current : Seq(PieceTypes), length : Nat]

\* How long a batch is, as it is counted.
AsCounted(pieces) == 2 + Total(pieces) + Len(pieces)

\* Entries that share a chunk keep to the size, as they are counted.
Together(b, size, blocks) ==
    /\ b \in Seq(PieceTypes)
    /\ Len(b) > 1 => AsCounted(b) <= size
    /\ \A q \in ToSet(b) : q.block \in blocks

Batched(acc) == ToSet(acc.batches) \cup {acc.current}

Batchings(size, blocks) ==
    {acc \in BatchTypes :
        acc.length = AsCounted(acc.current) /\ \A b \in Batched(acc) : Together(b, size, blocks)}

\* What a batch counts, with one entry more.
LEMMA CountedOfAppend ==
    /\ AsCounted(<< >>) = 2
    /\ \A s \in Seq(PieceTypes) : \A p \in PieceTypes :
          AsCounted(s) \in Nat /\ AsCounted(Append(s, p)) = AsCounted(s) + Counted(p)
<1>1. AsCounted(<< >>) = 2
  BY TotalOfAppend DEF AsCounted
<1>2. ASSUME NEW s \in Seq(PieceTypes), NEW p \in PieceTypes
      PROVE  AsCounted(s) \in Nat /\ AsCounted(Append(s, p)) = AsCounted(s) + Counted(p)
  <2>1. Len(s) \in Nat /\ Len(Append(s, p)) = Len(s) + 1
    OBVIOUS
  <2>2. Total(s) \in Nat /\ Total(Append(s, p)) = Total(s) + Size(p)
    BY TotalOfAppend
  <2>3. Size(p) \in Nat
    BY DEF PieceTypes, Size
  <2>4. QED
    BY <2>1, <2>2, <2>3 DEF AsCounted, Counted
<1>3. QED
  BY <1>1, <1>2

\* A step of batching keeps entries together and loses none.
LEMMA BatchStepKeeps ==
    \A size \in Nat : \A blocks : \A acc \in Batchings(size, blocks) : \A p \in PieceTypes :
        p.block \in blocks =>
            /\ BatchStep(acc, p, size) \in Batchings(size, blocks)
            /\ \A b \in Batched(acc) : \A q \in ToSet(b) :
                  \E c \in Batched(BatchStep(acc, p, size)) : q \in ToSet(c)
            /\ \E c \in Batched(BatchStep(acc, p, size)) : p \in ToSet(c)
<1> TAKE size \in Nat
<1> TAKE blocks
<1> TAKE acc \in Batchings(size, blocks)
<1> TAKE p \in PieceTypes
<1> HAVE p.block \in blocks
<1> DEFINE after == BatchStep(acc, p, size)
<1>1. /\ acc \in BatchTypes
      /\ acc.batches \in Seq(Seq(PieceTypes)) /\ acc.current \in Seq(PieceTypes) /\ acc.length \in Nat
      /\ acc = [batches |-> acc.batches, current |-> acc.current, length |-> acc.length]
      /\ acc.length = AsCounted(acc.current)
      /\ \A b \in Batched(acc) : Together(b, size, blocks)
  BY DEF Batchings, BatchTypes
<1>2. Counted(p) \in Nat
  BY DEF Counted, Size, PieceTypes
<1>3. CASE acc.current # << >> /\ acc.length + Counted(p) > size
  <2>1. after = [batches |-> Append(acc.batches, acc.current), current |-> <<p>>, length |-> 2 + Counted(p)]
    BY <1>3 DEF BatchStep
  <2>2. /\ Append(acc.batches, acc.current) \in Seq(Seq(PieceTypes))
        /\ ToSet(Append(acc.batches, acc.current)) = Batched(acc)
    BY <1>1, ToSetOfAppend DEF Batched
  <2>3. <<p>> \in Seq(PieceTypes) /\ ToSet(<<p>>) = {p} /\ Len(<<p>>) = 1 /\ <<p>> = Append(<< >>, p)
    BY OnePiece
  <2>4. AsCounted(<<p>>) = 2 + Counted(p)
    <3>1. << >> \in Seq(PieceTypes)
      OBVIOUS
    <3>2. QED
      BY <2>3, <3>1, CountedOfAppend
  <2>5. Together(<<p>>, size, blocks)
    BY <2>3 DEF Together
  <2> DEFINE one == <<p>>
             longer == Append(acc.batches, acc.current)
             length == 2 + Counted(p)
  <2> HIDE DEF after
  <2>6. /\ after.batches = longer /\ after.current = one
        /\ after.length = AsCounted(one) /\ after \in BatchTypes
    <3>1. /\ one \in Seq(PieceTypes) /\ longer \in Seq(Seq(PieceTypes))
          /\ length \in Nat /\ length = AsCounted(one)
      BY <1>2, <2>2, <2>3, <2>4
    <3>2. after = [batches |-> longer, current |-> one, length |-> length]
      BY <2>1
    <3> HIDE DEF one, longer, length
    <3>3. QED
      BY <3>1, <3>2 DEF BatchTypes
  <2>7. Batched(after) = Batched(acc) \cup {<<p>>}
    BY <2>2, <2>6 DEF Batched
  <2>8. after \in Batchings(size, blocks)
    BY <1>1, <2>5, <2>6, <2>7 DEF Batchings
  <2>9. p \in ToSet(<<p>>)
    BY <2>3
  <2>10. QED
    BY <2>7, <2>8, <2>9 DEF after
<1>4. CASE ~(acc.current # << >> /\ acc.length + Counted(p) > size)
  <2> DEFINE current == Append(acc.current, p)
  <2>1. after = [batches |-> acc.batches, current |-> current, length |-> acc.length + Counted(p)]
    BY <1>1, <1>4 DEF BatchStep
  <2>2. /\ current \in Seq(PieceTypes) /\ ToSet(current) = ToSet(acc.current) \cup {p}
        /\ Len(current) = Len(acc.current) + 1
    BY <1>1, ToSetOfAppend
  <2>3. AsCounted(current) = acc.length + Counted(p) /\ AsCounted(current) \in Nat
    BY <1>1, <1>2, CountedOfAppend
  <2> HIDE DEF current, after
  <2>4. Len(current) > 1 => AsCounted(current) <= size
    <3>1. Len(current) > 1 => acc.current # << >>
      BY <1>1, <2>2
    <3>2. QED
      BY <1>1, <1>2, <1>4, <2>3, <3>1
  <2>5. acc.current \in Batched(acc) /\ \A q \in ToSet(acc.current) : q.block \in blocks
    BY <1>1 DEF Batched, Together
  <2>6. Together(current, size, blocks)
    BY <2>2, <2>4, <2>5 DEF Together
  <2>7. /\ after.batches = acc.batches /\ after.current = current
        /\ after.length = AsCounted(current) /\ after \in BatchTypes
    BY <1>1, <1>2, <2>1, <2>2, <2>3 DEF BatchTypes
  <2>8. after \in Batchings(size, blocks)
    BY <1>1, <2>6, <2>7 DEF Batchings, Batched
  <2>9. \A b \in Batched(acc) : \A q \in ToSet(b) : \E c \in Batched(after) : q \in ToSet(c)
    BY <2>2, <2>7 DEF Batched
  <2>10. \E c \in Batched(after) : p \in ToSet(c)
    BY <2>2, <2>7 DEF Batched
  <2>11. QED
    BY <2>8, <2>9, <2>10 DEF after
<1>5. QED
  BY <1>3, <1>4

Closed(acc) == IF acc.current = << >> THEN acc.batches ELSE Append(acc.batches, acc.current)

\* What has been batched, as far as each entry.
LEMMA BatchSteps ==
    \A size \in Nat : \A s \in Seq(PieceTypes) :
        \E f :
            /\ \A n \in 0..Len(s) : f[n] \in Batchings(size, BlocksOf(s))
            /\ Batches(s, size) = Closed(f[Len(s)])
            /\ f[0] = [batches |-> << >>, current |-> << >>, length |-> 2]
            /\ \A n \in 1..Len(s) : f[n] = BatchStep(f[n - 1], s[n], size)
<1> TAKE size \in Nat
<1> TAKE s \in Seq(PieceTypes)
<1>0. size \in Nat /\ s \in Seq(PieceTypes)
  OBVIOUS
<1> DEFINE N == Len(s)
           V == Batchings(size, BlocksOf(s))
           zero == [batches |-> << >>, current |-> << >>, length |-> 2]
           step(n, w) == BatchStep(w, s[n], size)
           body(f) == [n \in 0..N |-> IF n = 0 THEN zero ELSE step(n, f[n - 1])]
           h == [n \in 1..N |-> [w \in V |-> step(n, w)]]
           upTo == CHOOSE f : f = body(f)
<1>1. N \in Nat /\ \A n \in 1..N : s[n] \in PieceTypes /\ s[n].block \in BlocksOf(s)
  BY <1>0 DEF BlocksOf
<1>2. \A n \in 1..N : \A w \in V : step(n, w) \in V
  BY <1>0, <1>1, BatchStepKeeps
<1>3. zero \in V
  <2>1. << >> \in Seq(Seq(PieceTypes)) /\ << >> \in Seq(PieceTypes) /\ Len(<< >>) = 0
    OBVIOUS
  <2>2. zero \in BatchTypes /\ Batched(zero) = {<< >>} /\ zero.length = AsCounted(zero.current)
    BY <2>1, ToSetOfEmpty, CountedOfAppend DEF BatchTypes, Batched
  <2>3. Together(<< >>, size, BlocksOf(s))
    BY <2>1, ToSetOfEmpty DEF Together
  <2> HIDE DEF zero
  <2>4. QED
    BY <2>2, <2>3 DEF Batchings
<1> HIDE DEF V, N, step, zero
<1>4. h \in [1..N -> [V -> V]] /\ \A n \in 1..N : \A w \in V : h[n][w] = step(n, w)
  BY <1>2
<1> HIDE DEF h
<1>5. PICK f \in [0..N -> V] : f[0] = zero /\ \A n \in 1..N : f[n] = h[n][f[n - 1]]
  <2>1. N \in Nat /\ h \in [1..N -> [V -> V]]
    BY <1>1, <1>4
  <2>2. QED
    BY <1>3, <2>1, StepByStep
<1>6. f = body(f)
  <2>1. \A n \in 0..N : n # 0 => n \in 1..N /\ n - 1 \in 0..N /\ f[n - 1] \in V
    BY <1>1
  <2>2. \A n \in 0..N : f[n] = IF n = 0 THEN zero ELSE step(n, f[n - 1])
    BY <1>4, <1>5, <2>1
  <2>3. QED
    BY <2>2
<1>7. upTo = body(upTo)
  <2> HIDE DEF body
  <2>1. QED
    BY <1>6
<1>8. Batches(s, size) = IF upTo[N].current = << >> THEN upTo[N].batches ELSE Append(upTo[N].batches, upTo[N].current)
  BY DEF Batches, step, N, zero
<1> HIDE DEF upTo
<1>9. upTo = [n \in 0..N |-> IF n = 0 THEN zero ELSE step(n, upTo[n - 1])]
  BY <1>7
<1>10. upTo[0] = zero /\ \A n \in 1..N : upTo[n] = step(n, upTo[n - 1])
  BY <1>1, <1>9
<1>11. upTo \in [0..N -> V]
  <2>1. upTo = [n \in 0..N |-> upTo[n]]
    BY <1>9
  <2>2. \A n \in 1..N : upTo[n - 1] \in V => upTo[n] \in V
    BY <1>2, <1>10
  <2>3. QED
    BY <1>1, <1>3, <1>10, <2>1, <2>2, StepsAreTyped
<1>12. \A n \in 0..N : upTo[n] \in V
  BY <1>11
<1>13. QED
  BY <1>8, <1>10, <1>12 DEF Closed, N, V, zero, step

\* Batching keeps entries together as it should, and loses none.
LEMMA BatchesCover ==
    \A size \in Nat : \A s \in Seq(PieceTypes) :
        /\ Batches(s, size) \in Seq(Seq(PieceTypes))
        /\ \A b \in ToSet(Batches(s, size)) : Together(b, size, BlocksOf(s))
        /\ \A k \in 1..Len(s) : \E b \in ToSet(Batches(s, size)) : s[k] \in ToSet(b)
<1> TAKE size \in Nat
<1> TAKE s \in Seq(PieceTypes)
<1>1. PICK f :
        /\ \A n \in 0..Len(s) : f[n] \in Batchings(size, BlocksOf(s))
        /\ Batches(s, size) = Closed(f[Len(s)])
        /\ f[0] = [batches |-> << >>, current |-> << >>, length |-> 2]
        /\ \A n \in 1..Len(s) : f[n] = BatchStep(f[n - 1], s[n], size)
  BY BatchSteps, Zenon
<1>2. /\ Len(s) \in Nat
      /\ \A n \in 1..Len(s) : s[n] \in PieceTypes /\ s[n].block \in BlocksOf(s)
  BY DEF BlocksOf
<1> DEFINE Covered(n) == \A k \in 1..n : \E b \in Batched(f[n]) : s[k] \in ToSet(b)
           I == {n \in Nat : n <= Len(s) => Covered(n)}
<1>3. 0 \in I
  OBVIOUS
<1>4. \A n \in Nat : n \in I => n + 1 \in I
  <2> SUFFICES ASSUME NEW n \in Nat, n \in I, n + 1 <= Len(s)
               PROVE  Covered(n + 1)
    <3> HIDE DEF Covered
    <3>1. QED
      OBVIOUS
  <2>1. n + 1 \in 1..Len(s) /\ (n + 1) - 1 = n /\ n \in 0..Len(s) /\ n <= Len(s)
    BY <1>2
  <2>2. Covered(n)
    BY <2>1
  <2> HIDE DEF I, Covered
  <2> DEFINE acc == f[n]
             p == s[n + 1]
             after == BatchStep(acc, p, size)
  <2>3. acc \in Batchings(size, BlocksOf(s)) /\ p \in PieceTypes /\ p.block \in BlocksOf(s)
    BY <1>1, <1>2, <2>1
  <2>4. after = f[n + 1]
    BY <1>1, <2>1
  <2> HIDE DEF acc, p
  <2>5. /\ \A b \in Batched(acc) : \A q \in ToSet(b) : \E c \in Batched(after) : q \in ToSet(c)
        /\ \E c \in Batched(after) : p \in ToSet(c)
    BY <2>3, BatchStepKeeps
  <2> HIDE DEF after
  <2>6. ASSUME NEW k \in 1..(n + 1)
        PROVE  \E b \in Batched(after) : s[k] \in ToSet(b)
    <3>1. CASE k = n + 1
      BY <2>5, <3>1 DEF p
    <3>2. CASE k # n + 1
      <4>1. k \in 1..n
        BY <3>2
      <4>2. PICK b \in Batched(acc) : s[k] \in ToSet(b)
        BY <2>2, <4>1 DEF Covered, acc
      <4>3. QED
        BY <2>5, <4>2
    <3>3. QED
      BY <3>1, <3>2
  <2>7. QED
    BY <2>4, <2>6 DEF Covered
<1>5. Covered(Len(s))
  <2>1. Len(s) \in I
    <3> HIDE DEF I
    <3>1. QED
      BY <1>2, <1>3, <1>4, NatInduct
  <2>2. QED
    BY <1>2, <2>1
<1> DEFINE last == f[Len(s)]
<1>6. /\ last.batches \in Seq(Seq(PieceTypes)) /\ last.current \in Seq(PieceTypes)
      /\ \A b \in Batched(last) : Together(b, size, BlocksOf(s))
  <2>1. last \in Batchings(size, BlocksOf(s))
    BY <1>1, <1>2
  <2> HIDE DEF last
  <2>2. QED
    BY <2>1 DEF Batchings, BatchTypes
<1>7. \A k \in 1..Len(s) : \E b \in Batched(last) : s[k] \in ToSet(b)
  BY <1>5
<1>8. Batches(s, size) = Closed(last)
  BY <1>1
<1> HIDE DEF last, Covered, I
<1>9. /\ Batches(s, size) \in Seq(Seq(PieceTypes))
      /\ ToSet(Batches(s, size)) \subseteq Batched(last)
      /\ \A b \in Batched(last) : b # << >> => b \in ToSet(Batches(s, size))
  <2>1. CASE last.current = << >>
    BY <1>6, <1>8, <2>1 DEF Closed, Batched
  <2>2. CASE last.current # << >>
    <3>1. Batches(s, size) = Append(last.batches, last.current)
      BY <1>8, <2>2 DEF Closed
    <3>2. Batches(s, size) \in Seq(Seq(PieceTypes))
      BY <1>6, <3>1
    <3>3. ToSet(Batches(s, size)) = Batched(last)
      BY <1>6, <3>1, ToSetOfAppend DEF Batched
    <3>4. QED
      BY <3>2, <3>3
  <2>3. QED
    BY <2>1, <2>2
<1>10. ASSUME NEW k \in 1..Len(s)
       PROVE  \E b \in ToSet(Batches(s, size)) : s[k] \in ToSet(b)
  <2>1. PICK b \in Batched(last) : s[k] \in ToSet(b)
    BY <1>7
  <2>2. b # << >>
    BY <2>1, ToSetOfEmpty
  <2>3. QED
    BY <1>9, <2>1, <2>2
<1>11. QED
  BY <1>6, <1>9, <1>10

-----------------------------------------------------------------------------
(* The sections of a document.                                             *)

\* A heading or any other block above one.
LEMMA AboveIsAbove ==
    \A doc : \A i \in Nat : \A h \in HeadingsAbove(doc, i) : h \in Nat /\ h >= 1 /\ h < i
BY DEF HeadingsAbove

\* Below a block that is no heading the headings are the same.
LEMMA AboveSkips ==
    \A doc : \A i \in Nat :
        i >= 1 /\ doc[i].kind # "heading" => HeadingsAbove(doc, i + 1) = HeadingsAbove(doc, i)
<1> TAKE doc
<1> TAKE i \in Nat
<1> HAVE i >= 1 /\ doc[i].kind # "heading"
<1>1. ASSUME NEW h \in HeadingsAbove(doc, i)
      PROVE  h \in HeadingsAbove(doc, i + 1)
  <2>1. h \in 1..(i - 1) /\ doc[h].kind = "heading"
    BY DEF HeadingsAbove
  <2>2. \A other \in (h + 1)..(i - 1) : doc[other].kind = "heading" => doc[other].level > doc[h].level
    BY DEF HeadingsAbove
  <2>3. ASSUME NEW other \in (h + 1)..((i + 1) - 1), doc[other].kind = "heading"
        PROVE  doc[other].level > doc[h].level
    <3>1. other # i
      BY <2>3
    <3>2. other \in (h + 1)..(i - 1)
      BY <2>1, <3>1
    <3>3. QED
      BY <2>2, <2>3, <3>2
  <2>4. h \in 1..((i + 1) - 1)
    BY <2>1
  <2>5. QED
    BY <2>1, <2>3, <2>4 DEF HeadingsAbove
<1>2. ASSUME NEW h \in HeadingsAbove(doc, i + 1)
      PROVE  h \in HeadingsAbove(doc, i)
  <2>1. h \in 1..((i + 1) - 1) /\ doc[h].kind = "heading"
    BY DEF HeadingsAbove
  <2>2. \A other \in (h + 1)..((i + 1) - 1) : doc[other].kind = "heading" => doc[other].level > doc[h].level
    BY DEF HeadingsAbove
  <2>3. h \in 1..(i - 1)
    BY <2>1
  <2>4. \A other \in (h + 1)..(i - 1) : other \in (h + 1)..((i + 1) - 1)
    BY <2>1
  <2>5. QED
    BY <2>1, <2>2, <2>3, <2>4 DEF HeadingsAbove
<1>3. QED
  BY <1>1, <1>2

\* Below a heading stand the heading and those above it that are of a higher rank.
LEMMA AboveEnters ==
    \A doc : \A i \in Nat :
        i >= 1 /\ doc[i].kind = "heading" /\ (\A j \in 1..i : doc[j].level \in Nat) =>
            HeadingsAbove(doc, i + 1) = {h \in HeadingsAbove(doc, i) : doc[h].level < doc[i].level} \cup {i}
<1> TAKE doc
<1> TAKE i \in Nat
<1> HAVE i >= 1 /\ doc[i].kind = "heading" /\ (\A j \in 1..i : doc[j].level \in Nat)
<1>1. ASSUME NEW h \in HeadingsAbove(doc, i), doc[h].level < doc[i].level
      PROVE  h \in HeadingsAbove(doc, i + 1)
  <2>1. h \in 1..(i - 1) /\ doc[h].kind = "heading"
    BY DEF HeadingsAbove
  <2>2. \A other \in (h + 1)..(i - 1) : doc[other].kind = "heading" => doc[other].level > doc[h].level
    BY DEF HeadingsAbove
  <2>3. h \in 1..i /\ i \in 1..i /\ doc[h].level \in Nat /\ doc[i].level \in Nat
    BY <2>1
  <2>4. ASSUME NEW other \in (h + 1)..((i + 1) - 1), doc[other].kind = "heading"
        PROVE  doc[other].level > doc[h].level
    <3>1. CASE other = i
      BY <1>1, <2>3, <3>1
    <3>2. CASE other # i
      <4>1. other \in (h + 1)..(i - 1)
        BY <2>1, <3>2
      <4>2. QED
        BY <2>2, <2>4, <4>1
    <3>3. QED
      BY <3>1, <3>2
  <2>5. h \in 1..((i + 1) - 1)
    BY <2>1
  <2>6. QED
    BY <2>1, <2>4, <2>5 DEF HeadingsAbove
<1>2. i \in HeadingsAbove(doc, i + 1)
  <2>1. i \in 1..((i + 1) - 1) /\ \A other \in (i + 1)..((i + 1) - 1) : FALSE
    OBVIOUS
  <2>2. QED
    BY <2>1 DEF HeadingsAbove
<1>3. ASSUME NEW h \in HeadingsAbove(doc, i + 1), h # i
      PROVE  h \in HeadingsAbove(doc, i) /\ doc[h].level < doc[i].level
  <2>1. h \in 1..((i + 1) - 1) /\ doc[h].kind = "heading"
    BY DEF HeadingsAbove
  <2>2. \A other \in (h + 1)..((i + 1) - 1) : doc[other].kind = "heading" => doc[other].level > doc[h].level
    BY DEF HeadingsAbove
  <2>3. h \in 1..(i - 1) /\ i \in (h + 1)..((i + 1) - 1) /\ h \in 1..i /\ i \in 1..i
    BY <1>3, <2>1
  <2>4. doc[i].level > doc[h].level /\ doc[h].level \in Nat /\ doc[i].level \in Nat
    BY <2>2, <2>3
  <2>5. \A other \in (h + 1)..(i - 1) : other \in (h + 1)..((i + 1) - 1)
    BY <2>1
  <2>6. QED
    BY <2>1, <2>2, <2>3, <2>4, <2>5 DEF HeadingsAbove
<1>4. QED
  BY <1>1, <1>2, <1>3

Docs == Seq(BlockTypes)

\* A path or a stack of headings, from the top.
Ranked(doc, path) ==
    \A m, n \in 1..Len(path) : m < n => path[m] < path[n] /\ doc[path[m]].level < doc[path[n]].level

\* A heading is entered: the path to it.
LEMMA EnterIsAbove ==
    \A doc \in Docs : \A i \in 1..Len(doc) : \A stack \in Seq(Nat) :
        doc[i].kind = "heading" /\ Ranked(doc, stack) /\ ToSet(stack) = HeadingsAbove(doc, i) =>
            /\ Enter(doc, stack, i) \in Seq(Nat)
            /\ Ranked(doc, Enter(doc, stack, i))
            /\ ToSet(Enter(doc, stack, i)) = HeadingsAbove(doc, i + 1)
<1> TAKE doc \in Docs
<1> TAKE i \in 1..Len(doc)
<1> TAKE stack \in Seq(Nat)
<1> HAVE doc[i].kind = "heading" /\ Ranked(doc, stack) /\ ToSet(stack) = HeadingsAbove(doc, i)
<1> DEFINE pops == {h \in 1..(i - 1) : doc[h].level >= doc[i].level}
           stays == {n \in 0..Len(stack) : n = 0 \/ stack[n] \notin pops}
           k == Max(stays)
           kept == SubSeq(stack, 1, k)
           entered == Append(kept, i)
<1>1. Enter(doc, stack, i) = entered
  BY DEF Enter, Popped
<1>2. i \in Nat /\ i >= 1 /\ Len(stack) \in Nat /\ Len(doc) \in Nat /\ \A j \in 1..i : doc[j].level \in Nat
  <2>1. i \in Nat /\ i >= 1 /\ Len(stack) \in Nat /\ Len(doc) \in Nat
    BY DEF Docs
  <2>2. \A j \in 1..i : doc[j] \in BlockTypes
    <3>1. \A j \in 1..i : j \in 1..Len(doc)
      BY <2>1
    <3>2. QED
      BY <3>1 DEF Docs
  <2>3. QED
    BY <2>1, <2>2 DEF BlockTypes
<1>3. k \in 0..Len(stack) /\ (k = 0 \/ stack[k] \notin pops) /\ \A n \in (k + 1)..Len(stack) : stack[n] \in pops
  <2>1. stays \subseteq 0..Len(stack) /\ 0 \in stays
    BY <1>2
  <2>2. k \in stays /\ \A n \in stays : n <= k
    <3> HIDE DEF stays
    <3>1. QED
      BY <1>2, <2>1, GreatestOf
  <2>3. ASSUME NEW n \in (k + 1)..Len(stack)
        PROVE  stack[n] \in pops
    <3>1. k \in 0..Len(stack)
      BY <2>2
    <3>2. n \in 0..Len(stack) /\ ~(n <= k)
      BY <1>2, <3>1
    <3>3. n \notin stays
      BY <2>2, <3>2
    <3>4. QED
      BY <3>2, <3>3
  <2>4. QED
    BY <2>2, <2>3
<1>4. \A n \in 1..Len(stack) : stack[n] \in 1..(i - 1) /\ doc[stack[n]].level \in Nat
  <2> TAKE n \in 1..Len(stack)
  <2>1. stack[n] \in ToSet(stack)
    BY ToSetIs
  <2>2. stack[n] \in Nat /\ stack[n] >= 1 /\ stack[n] < i
    <3> DEFINE h == stack[n]
    <3>1. h \in HeadingsAbove(doc, i) /\ i \in Nat
      BY <1>2, <2>1
    <3> HIDE DEF h
    <3>2. h \in Nat /\ h >= 1 /\ h < i
      BY <3>1, AboveIsAbove
    <3>3. QED
      BY <3>2 DEF h
  <2>3. QED
    BY <1>2, <2>2
<1>5. \A n \in 1..Len(stack) : n <= k <=> doc[stack[n]].level < doc[i].level
  <2> TAKE n \in 1..Len(stack)
  <2>0. doc[i].level \in Nat /\ k \in Nat
    <3>1. doc[i].level \in Nat
      BY <1>2
    <3>2. k \in 0..Len(stack)
      BY <1>3
    <3> HIDE DEF k
    <3>3. QED
      BY <1>2, <3>1, <3>2
  <2> HIDE DEF k
  <2>1. CASE n <= k
    <3>1. k \in 1..Len(stack) /\ stack[k] \notin pops
      <4> HIDE DEF pops
      <4>1. QED
        BY <1>3, <2>0, <2>1
    <3>2. doc[stack[k]].level < doc[i].level
      <4>1. stack[k] \in 1..(i - 1) /\ doc[stack[k]].level \in Nat
        BY <1>4, <3>1
      <4>2. ~(doc[stack[k]].level >= doc[i].level)
        BY <3>1, <4>1
      <4> DEFINE x == doc[stack[k]].level
                 y == doc[i].level
      <4>3. x \in Nat /\ y \in Nat /\ ~(x >= y)
        BY <2>0, <4>1, <4>2
      <4> HIDE DEF x, y
      <4>4. x < y
        BY <4>3
      <4>5. QED
        BY <4>4 DEF x, y
    <3>3. CASE n = k
      BY <2>1, <3>2, <3>3
    <3>4. CASE n < k
      <4>1. doc[stack[n]].level < doc[stack[k]].level
        BY <3>1, <3>4 DEF Ranked
      <4>2. doc[stack[n]].level \in Nat /\ doc[stack[k]].level \in Nat
        BY <1>4, <3>1
      <4>3. doc[stack[n]].level < doc[i].level
        <5> DEFINE x == doc[stack[n]].level
                   y == doc[stack[k]].level
                   z == doc[i].level
        <5>1. x \in Nat /\ y \in Nat /\ z \in Nat /\ x < y /\ y < z
          BY <2>0, <3>2, <4>1, <4>2
        <5> HIDE DEF x, y, z
        <5>2. x < z
          BY <5>1
        <5>3. QED
          BY <5>2 DEF x, y, z
      <4>4. QED
        BY <2>1, <4>3
    <3>5. QED
      BY <2>0, <2>1, <3>3, <3>4
  <2>2. CASE ~(n <= k)
    <3>1. n \in (k + 1)..Len(stack)
      BY <1>2, <2>0, <2>2
    <3>2. stack[n] \in pops
      BY <1>3, <3>1
    <3>3. ~(doc[stack[n]].level < doc[i].level)
      BY <1>4, <2>0, <3>2
    <3>4. QED
      BY <2>2, <3>3
  <2>3. QED
    BY <2>1, <2>2
<1> HIDE DEF k
<1>6. kept \in Seq(Nat) /\ Len(kept) = k /\ \A n \in 1..k : kept[n] = stack[n]
  <2>1. k \in Int /\ k \in Nat /\ k <= Len(stack)
    BY <1>2, <1>3
  <2>2. \A n \in 1..k : stack[n] \in Nat
    BY <1>2, <2>1
  <2>3. /\ kept \in Seq(Nat)
        /\ Len(kept) = IF 1 <= k THEN k - 1 + 1 ELSE 0
        /\ \A n \in 1..(k - 1 + 1) : kept[n] = stack[1 + n - 1]
    BY <2>1, <2>2, SubSeqProperties
  <2>4. k - 1 + 1 = k /\ (~(1 <= k) => k = 0) /\ \A n \in 1..k : 1 + n - 1 = n
    BY <2>1
  <2>5. QED
    BY <2>1, <2>3, <2>4
<1> HIDE DEF kept
<1>7. /\ entered \in Seq(Nat) /\ Len(entered) = k + 1 /\ k \in Nat
      /\ \A n \in 1..k : entered[n] = stack[n] /\ n \in 1..Len(stack)
      /\ entered[k + 1] = i
  <2>1. k \in 0..Len(stack)
    <3> HIDE DEF pops
    <3>1. QED
      BY <1>3
  <2>2. k \in Nat /\ \A n \in 1..k : n \in 1..Len(stack)
    BY <1>2, <2>1
  <2>3. /\ entered \in Seq(Nat) /\ Len(entered) = Len(kept) + 1
        /\ \A n \in 1..Len(kept) : entered[n] = kept[n]
        /\ entered[Len(kept) + 1] = i
    BY <1>2, <1>6
  <2> HIDE DEF entered
  <2>4. QED
    BY <1>6, <2>2, <2>3
<1> HIDE DEF entered
<1>8. Ranked(doc, entered)
  <2> SUFFICES ASSUME NEW m \in 1..(k + 1), NEW n \in 1..(k + 1), m < n
               PROVE  entered[m] < entered[n] /\ doc[entered[m]].level < doc[entered[n]].level
    BY <1>7 DEF Ranked
  <2>1. m \in 1..k
    BY <1>7
  <2>2. CASE n = k + 1
    <3>1. entered[m] = stack[m] /\ entered[n] = i /\ m \in 1..Len(stack) /\ m <= k
      BY <1>7, <2>1, <2>2
    <3>2. QED
      BY <1>2, <1>4, <1>5, <3>1
  <2>3. CASE n # k + 1
    <3>1. n \in 1..k
      BY <1>7, <2>3
    <3>2. QED
      BY <1>7, <2>1, <3>1 DEF Ranked
  <2>4. QED
    BY <2>2, <2>3
<1>9. ToSet(entered) = {h \in ToSet(stack) : doc[h].level < doc[i].level} \cup {i}
  <2>1. ASSUME NEW x \in ToSet(entered), x # i
        PROVE  x \in ToSet(stack) /\ doc[x].level < doc[i].level
    <3>1. PICK n \in 1..(k + 1) : x = entered[n]
      BY <1>7, ToSetIs
    <3>2. n \in 1..k
      BY <1>7, <2>1, <3>1
    <3>3. x = stack[n] /\ n \in 1..Len(stack) /\ n <= k
      BY <1>7, <3>1, <3>2
    <3>4. QED
      BY <1>5, <3>3, ToSetIs
  <2>2. i \in ToSet(entered)
    <3>1. k + 1 \in 1..Len(entered)
      BY <1>7
    <3>2. QED
      BY <1>7, <3>1, ToSetIs
  <2>3. ASSUME NEW x \in ToSet(stack), doc[x].level < doc[i].level
        PROVE  x \in ToSet(entered)
    <3>1. PICK n \in 1..Len(stack) : x = stack[n]
      BY ToSetIs
    <3>2. n <= k
      BY <1>5, <2>3, <3>1
    <3>3. n \in 1..k /\ n \in 1..Len(entered)
      BY <1>7, <3>2
    <3>4. x = entered[n]
      BY <1>7, <3>1, <3>3
    <3>5. QED
      BY <1>7, <3>3, <3>4, ToSetIs
  <2>4. QED
    BY <2>1, <2>2, <2>3
<1>10. ToSet(entered) = HeadingsAbove(doc, i + 1)
  BY <1>2, <1>9, AboveEnters
<1>11. QED
  BY <1>1, <1>7, <1>8, <1>10

SectionTypes == [path : Seq(Nat), body : Seq(Nat)]

SplitTypes == [sections : Seq(SectionTypes), stack : Seq(Nat), body : Seq(Nat)]

\* A section has a body, and a path to it.
IsSection(doc, section) ==
    /\ Ranked(doc, section.path) /\ ToSet(section.path) \subseteq 1..Len(doc)
    /\ \A j \in ToSet(section.body) :
          /\ j \in 1..Len(doc) /\ doc[j].kind # "heading"
          /\ HeadingsAbove(doc, j) = ToSet(section.path)

\* Where the split stands after block i.
SplitAt(doc, split, i) ==
    /\ split \in SplitTypes
    /\ Ranked(doc, split.stack)
    /\ ToSet(split.stack) = HeadingsAbove(doc, i + 1)
    /\ \A j \in ToSet(split.body) :
          /\ j \in 1..i /\ doc[j].kind # "heading"
          /\ HeadingsAbove(doc, j) = HeadingsAbove(doc, i + 1)
    /\ \A section \in ToSet(split.sections) : IsSection(doc, section)
    /\ \A j \in 1..i : doc[j].kind # "heading" =>
          j \in ToSet(split.body) \/ \E section \in ToSet(split.sections) : j \in ToSet(section.body)

\* The stack holds blocks.
LEMMA EnterIsTyped ==
    \A doc : \A stack \in Seq(Nat) : \A i \in Nat : Enter(doc, stack, i) \in Seq(Nat)
<1> TAKE doc
<1> TAKE stack \in Seq(Nat)
<1> TAKE i \in Nat
<1> DEFINE pops == {h \in 1..(i - 1) : doc[h].level >= doc[i].level}
           stays == {n \in 0..Len(stack) : n = 0 \/ stack[n] \notin pops}
           k == Max(stays)
<1>1. Enter(doc, stack, i) = Append(SubSeq(stack, 1, k), i)
  BY DEF Enter, Popped
<1>2. Len(stack) \in Nat /\ stays \subseteq 0..Len(stack) /\ 0 \in stays
  OBVIOUS
<1>3. k \in stays
  <2> HIDE DEF stays
  <2>1. QED
    BY <1>2, GreatestOf
<1>4. k \in 0..Len(stack)
  BY <1>3
<1> HIDE DEF k
<1>5. k \in Int /\ \A n \in 1..k : stack[n] \in Nat
  BY <1>2, <1>4
<1>6. SubSeq(stack, 1, k) \in Seq(Nat)
  BY <1>5, SubSeqProperties
<1>7. QED
  BY <1>1, <1>6

\* What is flushed is sections.
LEMMA FlushIsTyped ==
    \A split \in SplitTypes : Flush(split) \in Seq(SectionTypes)
<1> TAKE split \in SplitTypes
<1>1. split.sections \in Seq(SectionTypes) /\ split.stack \in Seq(Nat) /\ split.body \in Seq(Nat)
  BY DEF SplitTypes
<1>2. [path |-> split.stack, body |-> split.body] \in SectionTypes
  BY <1>1 DEF SectionTypes
<1>3. Append(split.sections, [path |-> split.stack, body |-> split.body]) \in Seq(SectionTypes)
  BY <1>1, <1>2
<1>4. QED
  BY <1>1, <1>3 DEF Flush

\* A step of the split keeps to types.
LEMMA SplitStepIsTyped ==
    \A doc : \A i \in Nat : \A split \in SplitTypes : SplitStep(doc, split, i) \in SplitTypes
<1> TAKE doc
<1> TAKE i \in Nat
<1> TAKE split \in SplitTypes
<1>1. CASE doc[i].kind = "heading"
  <2>1. SplitStep(doc, split, i) = [sections |-> Flush(split), stack |-> Enter(doc, split.stack, i), body |-> << >>]
    BY <1>1 DEF SplitStep
  <2>2. Flush(split) \in Seq(SectionTypes)
    BY FlushIsTyped
  <2>3. Enter(doc, split.stack, i) \in Seq(Nat)
    BY EnterIsTyped DEF SplitTypes
  <2>4. << >> \in Seq(Nat)
    OBVIOUS
  <2>5. QED
    BY <2>1, <2>2, <2>3, <2>4 DEF SplitTypes
<1>2. CASE doc[i].kind # "heading"
  <2>1. SplitStep(doc, split, i) = [split EXCEPT !.body = Append(@, i)]
    BY <1>2 DEF SplitStep
  <2>2. split.body \in Seq(Nat) /\ Append(split.body, i) \in Seq(Nat)
    BY DEF SplitTypes
  <2>3. QED
    BY <2>1, <2>2 DEF SplitTypes
<1>3. QED
  BY <1>1, <1>2

\* What is flushed: sections, which hold every block so far.
LEMMA FlushHolds ==
    \A doc \in Docs : \A i \in 0..Len(doc) : \A split : SplitAt(doc, split, i) =>
        /\ Flush(split) \in Seq(SectionTypes)
        /\ \A section \in ToSet(Flush(split)) : IsSection(doc, section)
        /\ \A j \in 1..i : doc[j].kind # "heading" =>
              \E section \in ToSet(Flush(split)) : j \in ToSet(section.body)
<1> TAKE doc \in Docs
<1> TAKE i \in 0..Len(doc)
<1> TAKE split
<1> HAVE SplitAt(doc, split, i)
<1>1. /\ split \in SplitTypes /\ split.sections \in Seq(SectionTypes)
      /\ split.stack \in Seq(Nat) /\ split.body \in Seq(Nat)
      /\ Ranked(doc, split.stack)
      /\ ToSet(split.stack) = HeadingsAbove(doc, i + 1)
      /\ \A section \in ToSet(split.sections) : IsSection(doc, section)
  BY DEF SplitAt, SplitTypes
<1>2. /\ \A j \in ToSet(split.body) :
            /\ j \in 1..i /\ doc[j].kind # "heading"
            /\ HeadingsAbove(doc, j) = HeadingsAbove(doc, i + 1)
      /\ \A j \in 1..i : doc[j].kind # "heading" =>
            j \in ToSet(split.body) \/ \E section \in ToSet(split.sections) : j \in ToSet(section.body)
  BY DEF SplitAt
<1>3. Flush(split) \in Seq(SectionTypes)
  BY <1>1, FlushIsTyped
<1>4. CASE split.body = << >>
  <2>1. Flush(split) = split.sections
    BY <1>4 DEF Flush
  <2>2. ToSet(split.body) = {}
    BY <1>4, ToSetOfEmpty
  <2>3. QED
    BY <1>1, <1>2, <1>3, <2>1, <2>2
<1>5. CASE split.body # << >>
  <2> DEFINE new == [path |-> split.stack, body |-> split.body]
  <2>1. Flush(split) = Append(split.sections, new) /\ new \in SectionTypes
    BY <1>1, <1>5 DEF Flush, SectionTypes
  <2>2. new.path = split.stack /\ new.body = split.body
    OBVIOUS
  <2> HIDE DEF new
  <2>3. ToSet(Flush(split)) = ToSet(split.sections) \cup {new}
    BY <1>1, <2>1, ToSetOfAppend
  <2>4. IsSection(doc, new)
    <3>1. Len(doc) \in Nat
      BY DEF Docs
    <3>2. \A j \in 1..i : j \in 1..Len(doc)
      BY <3>1
    <3>3. HeadingsAbove(doc, i + 1) \subseteq 1..Len(doc)
      BY <3>1 DEF HeadingsAbove
    <3>4. QED
      BY <1>1, <1>2, <2>2, <3>2, <3>3 DEF IsSection
  <2>5. QED
    BY <1>1, <1>2, <1>3, <2>2, <2>3, <2>4
<1>6. QED
  BY <1>4, <1>5

\* Each block brings the split to where it should stand.
LEMMA SplitStepKeeps ==
    \A doc \in Docs : \A i \in 1..Len(doc) : \A split :
        SplitAt(doc, split, i - 1) => SplitAt(doc, SplitStep(doc, split, i), i)
<1> TAKE doc \in Docs
<1> TAKE i \in 1..Len(doc)
<1> TAKE split
<1> HAVE SplitAt(doc, split, i - 1)
<1> DEFINE after == SplitStep(doc, split, i)
<1>1. /\ i \in Nat /\ i >= 1 /\ i - 1 \in 0..Len(doc) /\ (i - 1) + 1 = i /\ Len(doc) \in Nat
      /\ \A j \in 1..i : doc[j].level \in Nat
  <2>1. i \in Nat /\ i >= 1 /\ i - 1 \in 0..Len(doc) /\ (i - 1) + 1 = i /\ Len(doc) \in Nat
    BY DEF Docs
  <2>2. \A j \in 1..i : doc[j] \in BlockTypes
    <3>1. \A j \in 1..i : j \in 1..Len(doc)
      BY <2>1
    <3>2. QED
      BY <3>1 DEF Docs
  <2>3. QED
    BY <2>1, <2>2 DEF BlockTypes
<1>2. /\ split \in SplitTypes /\ split.sections \in Seq(SectionTypes)
      /\ split.stack \in Seq(Nat) /\ split.body \in Seq(Nat)
      /\ Ranked(doc, split.stack)
      /\ ToSet(split.stack) = HeadingsAbove(doc, i)
      /\ \A section \in ToSet(split.sections) : IsSection(doc, section)
  BY <1>1 DEF SplitAt, SplitTypes
<1>3. /\ \A j \in ToSet(split.body) :
            /\ j \in 1..(i - 1) /\ doc[j].kind # "heading"
            /\ HeadingsAbove(doc, j) = HeadingsAbove(doc, i)
      /\ \A j \in 1..(i - 1) : doc[j].kind # "heading" =>
            j \in ToSet(split.body) \/ \E section \in ToSet(split.sections) : j \in ToSet(section.body)
  BY <1>1 DEF SplitAt
<1>4. after \in SplitTypes
  BY <1>1, <1>2, SplitStepIsTyped
<1>5. CASE doc[i].kind = "heading"
  <2>1. after = [sections |-> Flush(split), stack |-> Enter(doc, split.stack, i), body |-> << >>]
    BY <1>5 DEF SplitStep
  <2>2. /\ Ranked(doc, Enter(doc, split.stack, i))
        /\ ToSet(Enter(doc, split.stack, i)) = HeadingsAbove(doc, i + 1)
    BY <1>2, <1>5, EnterIsAbove
  <2>3. /\ \A section \in ToSet(Flush(split)) : IsSection(doc, section)
        /\ \A j \in 1..(i - 1) : doc[j].kind # "heading" =>
              \E section \in ToSet(Flush(split)) : j \in ToSet(section.body)
    BY <1>1, FlushHolds
  <2> HIDE DEF after
  <2>4. /\ after.sections = Flush(split) /\ after.stack = Enter(doc, split.stack, i)
        /\ after.body = << >> /\ ToSet(after.body) = {}
    BY <2>1, ToSetOfEmpty
  <2>5. \A j \in 1..i : doc[j].kind # "heading" => j \in 1..(i - 1)
    <3> TAKE j \in 1..i
    <3> HAVE doc[j].kind # "heading"
    <3>1. j # i
      BY <1>5
    <3>2. QED
      BY <1>1, <3>1
  <2>6. QED
    BY <1>4, <2>2, <2>3, <2>4, <2>5 DEF SplitAt, after
<1>6. CASE doc[i].kind # "heading"
  <2>1. after = [split EXCEPT !.body = Append(@, i)]
    BY <1>6 DEF SplitStep
  <2>2. /\ after.sections = split.sections /\ after.stack = split.stack
        /\ after.body = Append(split.body, i)
    <3>1. split \in [sections : Seq(SectionTypes), stack : Seq(Nat), body : Seq(Nat)]
      BY <1>2 DEF SplitTypes
    <3> HIDE DEF after
    <3>2. QED
      BY <2>1, <3>1
  <2>3. ToSet(after.body) = ToSet(split.body) \cup {i}
    <3>1. ToSet(Append(split.body, i)) = ToSet(split.body) \cup {i}
      <4> DEFINE body == split.body
      <4>1. body \in Seq(Nat) /\ i \in Nat
        BY <1>1, <1>2
      <4> HIDE DEF body
      <4>2. ToSet(Append(body, i)) = ToSet(body) \cup {i}
        BY <4>1, ToSetOfAppend
      <4>3. QED
        BY <4>2 DEF body
    <3> HIDE DEF after
    <3>2. QED
      BY <2>2, <3>1
  <2>4. HeadingsAbove(doc, i + 1) = HeadingsAbove(doc, i)
    BY <1>1, <1>6, AboveSkips
  <2> HIDE DEF after
  <2>5. \A j \in ToSet(after.body) :
            /\ j \in 1..i /\ doc[j].kind # "heading"
            /\ HeadingsAbove(doc, j) = HeadingsAbove(doc, i + 1)
    <3>1. \A j \in 1..(i - 1) : j \in 1..i
      BY <1>1
    <3>2. i \in 1..i
      BY <1>1
    <3>3. QED
      BY <1>3, <1>6, <2>3, <2>4, <3>1, <3>2
  <2>6. \A j \in 1..i : doc[j].kind # "heading" =>
            j \in ToSet(after.body) \/ \E section \in ToSet(after.sections) : j \in ToSet(section.body)
    <3> TAKE j \in 1..i
    <3> HAVE doc[j].kind # "heading"
    <3>1. CASE j = i
      BY <2>3, <3>1
    <3>2. CASE j # i
      <4>1. j \in 1..(i - 1)
        BY <1>1, <3>2
      <4>2. QED
        BY <1>3, <2>2, <2>3, <4>1
    <3>3. QED
      BY <3>1, <3>2
  <2>7. QED
    BY <1>2, <1>4, <2>2, <2>4, <2>5, <2>6 DEF SplitAt, after
<1>7. QED
  BY <1>5, <1>6

\* Where the split stands, as far as each block.
LEMMA SplitSteps ==
    \A doc \in Docs :
        \E f :
            /\ \A n \in 0..Len(doc) : f[n] \in SplitTypes
            /\ Sections(doc) = Flush(f[Len(doc)])
            /\ f[0] = [sections |-> << >>, stack |-> << >>, body |-> << >>]
            /\ \A n \in 1..Len(doc) : f[n] = SplitStep(doc, f[n - 1], n)
<1> TAKE doc \in Docs
<1>0. doc \in Docs
  OBVIOUS
<1> DEFINE N == Len(doc)
           V == SplitTypes
           zero == [sections |-> << >>, stack |-> << >>, body |-> << >>]
           step(n, w) == SplitStep(doc, w, n)
           body(f) == [n \in 0..N |-> IF n = 0 THEN zero ELSE step(n, f[n - 1])]
           h == [n \in 1..N |-> [w \in V |-> step(n, w)]]
           upTo == CHOOSE f : f = body(f)
<1>1. N \in Nat
  BY <1>0 DEF Docs
<1>2. \A n \in 1..N : \A w \in V : step(n, w) \in V
  <2>1. \A n \in 1..N : n \in Nat
    BY <1>1
  <2>2. QED
    BY <2>1, SplitStepIsTyped
<1>3. zero \in V
  <2>1. << >> \in Seq(SectionTypes) /\ << >> \in Seq(Nat)
    OBVIOUS
  <2>2. QED
    BY <2>1 DEF SplitTypes
<1> HIDE DEF V, N, step, zero
<1>4. h \in [1..N -> [V -> V]] /\ \A n \in 1..N : \A w \in V : h[n][w] = step(n, w)
  BY <1>2
<1> HIDE DEF h
<1>5. PICK f \in [0..N -> V] : f[0] = zero /\ \A n \in 1..N : f[n] = h[n][f[n - 1]]
  <2>1. N \in Nat /\ h \in [1..N -> [V -> V]]
    BY <1>1, <1>4
  <2>2. QED
    BY <1>3, <2>1, StepByStep
<1>6. f = body(f)
  <2>1. \A n \in 0..N : n # 0 => n \in 1..N /\ n - 1 \in 0..N /\ f[n - 1] \in V
    BY <1>1
  <2>2. \A n \in 0..N : f[n] = IF n = 0 THEN zero ELSE step(n, f[n - 1])
    BY <1>4, <1>5, <2>1
  <2>3. QED
    BY <2>2
<1>7. upTo = body(upTo)
  <2> HIDE DEF body
  <2>1. QED
    BY <1>6
<1>8. Sections(doc) = Flush(upTo[N])
  BY DEF Sections, step, N, zero
<1> HIDE DEF upTo
<1>9. upTo = [n \in 0..N |-> IF n = 0 THEN zero ELSE step(n, upTo[n - 1])]
  BY <1>7
<1>10. upTo[0] = zero /\ \A n \in 1..N : upTo[n] = step(n, upTo[n - 1])
  BY <1>1, <1>9
<1>11. upTo \in [0..N -> V]
  <2>1. upTo = [n \in 0..N |-> upTo[n]]
    BY <1>9
  <2>2. \A n \in 1..N : upTo[n - 1] \in V => upTo[n] \in V
    BY <1>2, <1>10
  <2>3. QED
    BY <1>1, <1>3, <1>10, <2>1, <2>2, StepsAreTyped
<1>12. \A n \in 0..N : upTo[n] \in V
  BY <1>11
<1>13. QED
  BY <1>8, <1>10, <1>12 DEF N, V, zero, step

\* Every block that is no heading is in a section, under the headings above it.
LEMMA SectionsHold ==
    \A doc \in Docs :
        /\ Sections(doc) \in Seq(SectionTypes)
        /\ \A section \in ToSet(Sections(doc)) : IsSection(doc, section)
        /\ \A j \in 1..Len(doc) : doc[j].kind # "heading" =>
              \E section \in ToSet(Sections(doc)) : j \in ToSet(section.body)
<1> TAKE doc \in Docs
<1>1. PICK f :
        /\ \A n \in 0..Len(doc) : f[n] \in SplitTypes
        /\ Sections(doc) = Flush(f[Len(doc)])
        /\ f[0] = [sections |-> << >>, stack |-> << >>, body |-> << >>]
        /\ \A n \in 1..Len(doc) : f[n] = SplitStep(doc, f[n - 1], n)
  BY SplitSteps, Zenon
<1>2. Len(doc) \in Nat
  BY DEF Docs
<1> DEFINE I == {n \in Nat : n <= Len(doc) => SplitAt(doc, f[n], n)}
<1>3. 0 \in I
  <2>1. f[0].sections = << >> /\ f[0].stack = << >> /\ f[0].body = << >>
    BY <1>1
  <2>2. ToSet(<< >>) = {} /\ Ranked(doc, << >>)
    BY ToSetOfEmpty DEF Ranked
  <2>3. HeadingsAbove(doc, 0 + 1) = {}
    BY DEF HeadingsAbove
  <2>4. f[0] \in SplitTypes
    BY <1>1, <1>2
  <2>5. SplitAt(doc, f[0], 0)
    BY <2>1, <2>2, <2>3, <2>4 DEF SplitAt
  <2>6. QED
    BY <2>5
<1>4. \A n \in Nat : n \in I => n + 1 \in I
  <2> SUFFICES ASSUME NEW n \in Nat, n \in I, n + 1 <= Len(doc)
               PROVE  SplitAt(doc, f[n + 1], n + 1)
    BY <1>2
  <2>1. n + 1 \in 1..Len(doc) /\ (n + 1) - 1 = n /\ n <= Len(doc)
    BY <1>2
  <2>2. SplitAt(doc, f[n], n)
    BY <2>1
  <2>3. f[n + 1] = SplitStep(doc, f[n], n + 1)
    BY <1>1, <2>1
  <2>4. SplitAt(doc, f[n], (n + 1) - 1)
    BY <2>1, <2>2
  <2> HIDE DEF I
  <2>5. SplitAt(doc, SplitStep(doc, f[n], n + 1), n + 1)
    BY <2>1, <2>4, SplitStepKeeps
  <2>6. QED
    BY <2>3, <2>5
<1>5. SplitAt(doc, f[Len(doc)], Len(doc))
  <2>1. Len(doc) \in I
    <3> HIDE DEF I
    <3>1. QED
      BY <1>2, <1>3, <1>4, NatInduct
  <2>2. QED
    BY <1>2, <2>1
<1>6. QED
  <2>1. Len(doc) \in 0..Len(doc)
    BY <1>2
  <2>2. QED
    BY <1>1, <1>5, <2>1, FlushHolds

-----------------------------------------------------------------------------
(* The chunks of a section.                                                *)

ChunkTypes == [kind : {"table", "prose", "glossary"}, path : Seq(Nat), pieces : Seq(PieceTypes)]

\* What is put in front of a window has a length.
LEMMA PrefixIsNat ==
    \A doc \in Docs : \A path \in Seq(Nat) : ToSet(path) \subseteq 1..Len(doc) => Prefix(doc, path) \in Nat
<1> TAKE doc \in Docs
<1> TAKE path \in Seq(Nat)
<1> HAVE ToSet(path) \subseteq 1..Len(doc)
<1> DEFINE titles == [n \in 1..Len(path) |-> [block |-> path[n], from |-> 0, to |-> doc[path[n]].title]]
<1>1. \A h \in 1..Len(doc) : doc[h].title \in Nat
  <2>1. \A h \in 1..Len(doc) : doc[h] \in BlockTypes
    BY DEF Docs
  <2>2. QED
    BY <2>1 DEF BlockTypes
<1>2. Len(path) \in Nat /\ \A n \in 1..Len(path) : path[n] \in Nat /\ path[n] \in 1..Len(doc)
  BY ToSetIs
<1>3. \A n \in 1..Len(path) : [block |-> path[n], from |-> 0, to |-> doc[path[n]].title] \in PieceTypes
  BY <1>1, <1>2 DEF PieceTypes
<1>4. titles \in Seq(PieceTypes)
  BY <1>2, <1>3
<1>5. Prefix(doc, path) = IF path = << >> THEN 0 ELSE Total(titles) + 3 * (Len(path) - 1) + 2
  BY DEF Prefix
<1> HIDE DEF titles
<1>6. Total(titles) \in Nat
  BY <1>4, TotalOfAppend
<1>7. path # << >> => Len(path) >= 1
  OBVIOUS
<1>8. QED
  BY <1>2, <1>5, <1>6, <1>7

\* Windows and batches that fit keep to the size when they are stored.
LEMMA StoredSizes ==
    \A doc : \A size \in Nat : \A chunk \in ChunkTypes :
        /\ chunk.kind = "table" => KeepsToSize(doc, chunk, size)
        /\ chunk.kind = "prose" /\ Prefix(doc, chunk.path) \in Nat /\ Joined(chunk.pieces) <= size
           => KeepsToSize(doc, chunk, size)
        /\ chunk.kind = "glossary" /\ (Len(chunk.pieces) > 1 => AsCounted(chunk.pieces) <= size)
           => KeepsToSize(doc, chunk, size)
<1> TAKE doc
<1> TAKE size \in Nat
<1> TAKE chunk \in ChunkTypes
<1> DEFINE pieces == chunk.pieces
           before == Prefix(doc, chunk.path)
<1>1. pieces \in Seq(PieceTypes)
  BY DEF ChunkTypes
<1> HIDE DEF pieces, before
<1>2. Len(pieces) \in Nat /\ Total(pieces) \in Nat /\ Joined(pieces) \in Nat
  BY <1>1, TotalOfAppend, JoinedOfAppend
<1>3. ASSUME chunk.kind = "table"
      PROVE  KeepsToSize(doc, chunk, size)
  BY <1>3 DEF KeepsToSize
<1>4. ASSUME chunk.kind = "prose", before \in Nat, Joined(pieces) <= size
      PROVE  KeepsToSize(doc, chunk, size)
  <2>1. Written(doc, chunk) = before + Joined(pieces)
    BY <1>4 DEF Written, pieces, before
  <2>2. before + Joined(pieces) <= size + before
    BY <1>2, <1>4
  <2>3. QED
    BY <1>4, <2>1, <2>2 DEF KeepsToSize, before
<1>5. ASSUME chunk.kind = "glossary", Len(pieces) > 1 => AsCounted(pieces) <= size
      PROVE  KeepsToSize(doc, chunk, size)
  <2>1. Written(doc, chunk) = 2 + Total(pieces) + 2 * (Len(pieces) - 1)
    BY <1>5 DEF Written, pieces
  <2>2. Len(pieces) > 1 => 2 + Total(pieces) + 2 * (Len(pieces) - 1) <= size + Len(pieces) - 2
    BY <1>2, <1>5 DEF AsCounted
  <2>3. QED
    BY <1>5, <2>1, <2>2 DEF KeepsToSize, pieces
<1>6. QED
  BY <1>3, <1>4, <1>5 DEF pieces, before

\* What is kept of a table: stretches of it, each kept cell among them.
LEMMA KeptCellsAre ==
    \A doc \in Docs : \A i \in 1..Len(doc) :
        /\ KeptCells(doc, i) \in Seq(PieceTypes)
        /\ \A q \in ToSet(KeptCells(doc, i)) : q.block = i
        /\ \A cell \in ToSet(doc[i].cells) : Kept(doc[i], cell) => Shows(KeptCells(doc, i), i, cell.from, cell.to)
<1> TAKE doc \in Docs
<1> TAKE i \in 1..Len(doc)
<1> DEFINE cells == doc[i].cells
           wanted == {cell \in ToSet(cells) : Kept(doc[i], cell)}
           kept == Among(cells, wanted)
           piece(n) == [block |-> i, from |-> kept[n].from, to |-> kept[n].to]
           all == KeptCells(doc, i)
<1>1. cells \in Seq(CellTypes) /\ i \in Nat
  <2>1. doc[i] \in BlockTypes /\ i \in Nat
    BY DEF Docs
  <2>2. QED
    BY <2>1 DEF BlockTypes
<1>2. all = [n \in 1..Len(kept) |-> piece(n)]
  BY DEF KeptCells
<1>3. \A cell \in wanted : cell \in ToSet(cells)
  OBVIOUS
<1>4. \A cell \in ToSet(cells) : Kept(doc[i], cell) => cell \in wanted
  OBVIOUS
<1> HIDE DEF cells, wanted
<1>5. /\ kept \in Seq(CellTypes)
      /\ \A n \in 1..Len(cells) : cells[n] \in wanted => \E m \in 1..Len(kept) : kept[m] = cells[n]
  BY <1>1, AmongPicks
<1> HIDE DEF kept
<1>6. Len(kept) \in Nat /\ \A n \in 1..Len(kept) : kept[n] \in CellTypes
  BY <1>5
<1>7. \A n \in 1..Len(kept) : piece(n) \in PieceTypes
  BY <1>1, <1>6 DEF PieceTypes, CellTypes
<1>8. all \in Seq(PieceTypes) /\ Len(all) = Len(kept) /\ \A n \in 1..Len(kept) : all[n] = piece(n)
  BY <1>2, <1>6, <1>7
<1> HIDE DEF all
<1>9. ASSUME NEW q \in ToSet(all)
      PROVE  q.block = i
  <2>1. PICK n \in 1..Len(all) : q = all[n]
    BY <1>8, ToSetIs
  <2>2. q = piece(n)
    BY <1>8, <2>1
  <2>3. piece(n).block = i
    OBVIOUS
  <2>4. QED
    BY <2>2, <2>3
<1>10. ASSUME NEW cell \in ToSet(cells), Kept(doc[i], cell)
       PROVE  Shows(all, i, cell.from, cell.to)
  <2>1. PICK n \in 1..Len(cells) : cell = cells[n]
    BY <1>1, ToSetIs
  <2>2. PICK m \in 1..Len(kept) : kept[m] = cell
    BY <1>4, <1>5, <1>10, <2>1
  <2>3. all[m] = piece(m) /\ all[m] \in ToSet(all)
    BY <1>8, <2>2, ToSetIs
  <2>4. cell.from \in Nat /\ cell.to \in Nat
    BY <1>6, <2>2 DEF CellTypes
  <2>5. all[m].block = i /\ all[m].from <= cell.from /\ cell.to <= all[m].to
    BY <2>2, <2>3, <2>4
  <2>6. QED
    BY <2>3, <2>5 DEF Shows
<1>11. QED
  BY <1>8, <1>9, <1>10 DEF all, cells

\* The chunks of one kind of a section are whole blocks of its body.
LEMMA OfKindIs ==
    \A doc \in Docs : \A section \in SectionTypes : IsSection(doc, section) => \A kind :
        /\ OfKind(doc, section, kind) \in Seq(WholePieces)
        /\ BlocksOf(OfKind(doc, section, kind)) \subseteq ToSet(section.body)
        /\ \A j \in ToSet(section.body) : doc[j].kind = kind =>
              \E k \in 1..Len(OfKind(doc, section, kind)) :
                  /\ OfKind(doc, section, kind)[k].block = j
                  /\ OfKind(doc, section, kind)[k].to = doc[j].length
<1> TAKE doc \in Docs
<1> TAKE section \in SectionTypes
<1> HAVE IsSection(doc, section)
<1> TAKE kind
<1> DEFINE wanted == {i \in 1..Len(doc) : doc[i].kind = kind}
           found == Among(section.body, wanted)
           of == OfKind(doc, section, kind)
<1>1. /\ section.body \in Seq(Nat)
      /\ \A j \in ToSet(section.body) : j \in 1..Len(doc)
      /\ \A j \in 1..Len(doc) : doc[j].length \in Nat /\ j \in Nat
  <2>1. section.body \in Seq(Nat)
    BY DEF SectionTypes
  <2>2. \A j \in ToSet(section.body) : j \in 1..Len(doc)
    BY DEF IsSection
  <2>3. \A j \in 1..Len(doc) : doc[j] \in BlockTypes /\ j \in Nat
    BY DEF Docs
  <2>4. \A j \in 1..Len(doc) : doc[j].length \in Nat
    BY <2>3 DEF BlockTypes
  <2>5. QED
    BY <2>1, <2>2, <2>3, <2>4
<1>2. /\ found \in Seq(Nat)
      /\ \A m \in 1..Len(found) : found[m] \in wanted /\ \E n \in 1..Len(section.body) : found[m] = section.body[n]
      /\ \A n \in 1..Len(section.body) : section.body[n] \in wanted =>
            \E m \in 1..Len(found) : found[m] = section.body[n]
  <2> DEFINE body == section.body
  <2>1. body \in Seq(Nat)
    BY <1>1
  <2> HIDE DEF wanted, body
  <2>2. Among(body, wanted) \in Seq(Nat)
    BY <2>1, AmongPicks
  <2>3. \A m \in 1..Len(Among(body, wanted)) :
            Among(body, wanted)[m] \in wanted /\ \E n \in 1..Len(body) : Among(body, wanted)[m] = body[n]
    BY <2>1, AmongPicks
  <2>4. \A n \in 1..Len(body) : body[n] \in wanted =>
            \E m \in 1..Len(Among(body, wanted)) : Among(body, wanted)[m] = body[n]
    BY <2>1, AmongPicks
  <2>5. QED
    BY <2>2, <2>3, <2>4 DEF body
<1>3. of = [n \in 1..Len(found) |-> Whole(doc, found[n])]
  BY DEF OfKind
<1>4. \A j \in 1..Len(doc) :
        /\ Whole(doc, j) \in WholePieces
        /\ Whole(doc, j).block = j /\ Whole(doc, j).to = doc[j].length
  BY <1>1 DEF Whole, WholePieces, PieceTypes
<1>5. \A m \in 1..Len(found) : found[m] \in ToSet(section.body) /\ found[m] \in 1..Len(doc)
  BY <1>1, <1>2, ToSetIs
<1>6. \A j \in ToSet(section.body) : doc[j].kind = kind => \E m \in 1..Len(found) : found[m] = j
  <2> TAKE j \in ToSet(section.body)
  <2> HAVE doc[j].kind = kind
  <2>1. j \in wanted
    BY <1>1
  <2>2. PICK n \in 1..Len(section.body) : j = section.body[n]
    BY <1>1, ToSetIs
  <2> HIDE DEF wanted, found
  <2>3. QED
    BY <1>2, <2>1, <2>2
<1> HIDE DEF found, of
<1>7. of \in Seq(WholePieces) /\ Len(of) = Len(found) /\ \A n \in 1..Len(found) : of[n] = Whole(doc, found[n])
  <2>1. Len(found) \in Nat
    BY <1>2
  <2>2. \A n \in 1..Len(found) : Whole(doc, found[n]) \in WholePieces
    BY <1>4, <1>5
  <2>3. QED
    BY <1>3, <2>1, <2>2
<1>8. BlocksOf(of) \subseteq ToSet(section.body)
  <2>1. \A n \in 1..Len(found) : of[n].block = found[n]
    BY <1>4, <1>5, <1>7
  <2>2. QED
    BY <1>5, <1>7, <2>1 DEF BlocksOf
<1>9. \A j \in ToSet(section.body) : doc[j].kind = kind =>
        \E k \in 1..Len(of) : of[k].block = j /\ of[k].to = doc[j].length
  <2> TAKE j \in ToSet(section.body)
  <2> HAVE doc[j].kind = kind
  <2>1. PICK m \in 1..Len(found) : found[m] = j
    BY <1>6
  <2>2. of[m] = Whole(doc, j) /\ m \in 1..Len(of) /\ j \in 1..Len(doc)
    BY <1>1, <1>7, <2>1
  <2>3. QED
    BY <1>4, <2>2
<1>10. QED
  BY <1>7, <1>8, <1>9 DEF of

\* What stands in the body of a section stands in its section.
LEMMA StandsInItsSection ==
    \A doc \in Docs : \A section \in SectionTypes : IsSection(doc, section) =>
        \A chunk \in ChunkTypes :
            /\ \A q \in ToSet(chunk.pieces) : q.block \in ToSet(section.body)
            /\ chunk.kind = "prose" => chunk.path = section.path
            => InItsSection(doc, chunk)
<1> TAKE doc \in Docs
<1> TAKE section \in SectionTypes
<1> HAVE IsSection(doc, section)
<1> TAKE chunk \in ChunkTypes
<1> HAVE /\ \A q \in ToSet(chunk.pieces) : q.block \in ToSet(section.body)
         /\ chunk.kind = "prose" => chunk.path = section.path
<1> DEFINE blocks == {chunk.pieces[n].block : n \in DOMAIN chunk.pieces}
<1>1. \A i \in blocks : i \in ToSet(section.body)
  BY DEF ToSet
<1> HIDE DEF blocks
<1>2. \A i \in blocks : HeadingsAbove(doc, i) = ToSet(section.path)
  BY <1>1 DEF IsSection
<1>3. ASSUME chunk.kind = "prose"
      PROVE  /\ \A i \in blocks : ToSet(chunk.path) = HeadingsAbove(doc, i)
             /\ \A m, n \in DOMAIN chunk.path : m < n => chunk.path[m] < chunk.path[n]
  <2>1. chunk.path = section.path /\ DOMAIN section.path = 1..Len(section.path)
    BY <1>3 DEF SectionTypes
  <2>2. QED
    BY <1>2, <2>1 DEF IsSection, Ranked
<1>4. QED
  BY <1>2, <1>3 DEF InItsSection, blocks

\* Chunks of one kind, under one path.
Chunks(kind, path, ws) == [n \in 1..Len(ws) |-> Chunk(kind, path, ws[n])]

\* Every phrase of a block stands uncut in one of the chunks.
Tells(doc, chunks, j, size, overlap) ==
    \A at \in Nat : at + PhraseLength(doc[j].length, size, overlap) <= doc[j].length =>
        \E c \in ToSet(chunks) : Shows(c.pieces, j, at, at + PhraseLength(doc[j].length, size, overlap))

\* They are chunks of that kind and path, one for each of the windows.
LEMMA ChunksAre ==
    \A kind \in {"table", "prose", "glossary"} : \A path \in Seq(Nat) : \A ws \in Seq(Seq(PieceTypes)) :
        /\ Chunks(kind, path, ws) \in Seq(ChunkTypes)
        /\ \A c \in ToSet(Chunks(kind, path, ws)) :
              c.kind = kind /\ c.path = path /\ c.pieces \in ToSet(ws)
        /\ \A w \in ToSet(ws) : \E c \in ToSet(Chunks(kind, path, ws)) : c.pieces = w
<1> TAKE kind \in {"table", "prose", "glossary"}
<1> TAKE path \in Seq(Nat)
<1> TAKE ws \in Seq(Seq(PieceTypes))
<1> DEFINE of(n) == Chunk(kind, path, ws[n])
           all == Chunks(kind, path, ws)
<1>1. Len(ws) \in Nat /\ \A n \in 1..Len(ws) : ws[n] \in Seq(PieceTypes) /\ ws[n] \in ToSet(ws)
  <2>1. \A n \in 1..Len(ws) : ws[n] \in ToSet(ws)
    BY ToSetIs
  <2>2. QED
    BY <2>1
<1>2. /\ \A n \in 1..Len(ws) : of(n) \in ChunkTypes
      /\ \A n \in 1..Len(ws) : of(n).kind = kind /\ of(n).path = path /\ of(n).pieces = ws[n]
  BY <1>1 DEF Chunk, ChunkTypes
<1>3. all = [n \in 1..Len(ws) |-> of(n)]
  BY DEF Chunks
<1> HIDE DEF of, all
<1>4. all \in Seq(ChunkTypes) /\ Len(all) = Len(ws) /\ \A n \in 1..Len(ws) : all[n] = of(n)
  BY <1>1, <1>2, <1>3
<1>5. ASSUME NEW c \in ToSet(all)
      PROVE  c.kind = kind /\ c.path = path /\ c.pieces \in ToSet(ws)
  <2>1. PICK n \in 1..Len(all) : c = all[n]
    BY <1>4, ToSetIs
  <2>2. n \in 1..Len(ws) /\ c = of(n)
    BY <1>4, <2>1
  <2>3. QED
    BY <1>1, <1>2, <2>2
<1>6. ASSUME NEW w \in ToSet(ws)
      PROVE  \E c \in ToSet(all) : c.pieces = w
  <2>1. PICK n \in 1..Len(ws) : w = ws[n]
    BY ToSetIs
  <2>2. all[n] \in ToSet(all)
    BY <1>4, <2>1, ToSetIs
  <2>3. all[n].pieces = w
    BY <1>2, <1>4, <2>1
  <2>4. QED
    BY <2>2, <2>3
<1>7. QED
  BY <1>4, <1>5, <1>6 DEF all

\* A block that is whole in a chunk is told by it.
LEMMA WholeTells ==
    \A length \in Nat : \A size \in Nat \ {0} : \A overlap \in Nat : \A w : \A p \in WholePieces :
        p \in ToSet(w) /\ p.to = length =>
            \A at \in Nat : at + PhraseLength(length, size, overlap) <= length =>
                Shows(w, p.block, at, at + PhraseLength(length, size, overlap))
<1> TAKE length \in Nat
<1> TAKE size \in Nat \ {0}
<1> TAKE overlap \in Nat
<1> TAKE w
<1> TAKE p \in WholePieces
<1> HAVE p \in ToSet(w) /\ p.to = length
<1>1. p.from = 0
  BY DEF WholePieces
<1>2. QED
  BY <1>1 DEF Shows

\* Every cell of a table that is kept is uncut in one of the chunks.
TellsCells(doc, chunks, j) ==
    \A cell \in ToSet(doc[j].cells) : Kept(doc[j], cell) =>
        \E c \in ToSet(chunks) : Shows(c.pieces, j, cell.from, cell.to)

\* The tables of a section: each is a chunk of what is kept of its cells.
LEMMA TablesHold ==
    \A doc \in Docs : \A s \in Seq(WholePieces) :
        (\A n \in 1..Len(s) : s[n].block \in 1..Len(doc)) =>
            /\ [n \in 1..Len(s) |-> Chunk("table", << >>, KeptCells(doc, s[n].block))] \in Seq(ChunkTypes)
            /\ \A c \in ToSet([n \in 1..Len(s) |-> Chunk("table", << >>, KeptCells(doc, s[n].block))]) :
                  c.kind = "table" /\ \A q \in ToSet(c.pieces) : q.block \in BlocksOf(s)
            /\ \A k \in 1..Len(s) :
                  TellsCells(doc, [n \in 1..Len(s) |-> Chunk("table", << >>, KeptCells(doc, s[n].block))], s[k].block)
<1> TAKE doc \in Docs
<1> TAKE s \in Seq(WholePieces)
<1> HAVE \A n \in 1..Len(s) : s[n].block \in 1..Len(doc)
<1> DEFINE ws == [n \in 1..Len(s) |-> KeptCells(doc, s[n].block)]
           all == [n \in 1..Len(s) |-> Chunk("table", << >>, KeptCells(doc, s[n].block))]
           kind == "table"
           none == << >>
<1>1. Len(s) \in Nat /\ \A n \in 1..Len(s) : s[n].block \in BlocksOf(s)
  BY DEF BlocksOf
<1>2. ASSUME NEW n \in 1..Len(s)
      PROVE  /\ KeptCells(doc, s[n].block) \in Seq(PieceTypes)
             /\ \A q \in ToSet(KeptCells(doc, s[n].block)) : q.block = s[n].block
             /\ \A cell \in ToSet(doc[s[n].block].cells) : Kept(doc[s[n].block], cell) =>
                   Shows(KeptCells(doc, s[n].block), s[n].block, cell.from, cell.to)
  <2> DEFINE i == s[n].block
  <2>1. i \in 1..Len(doc)
    OBVIOUS
  <2> HIDE DEF i
  <2>2. /\ KeptCells(doc, i) \in Seq(PieceTypes)
        /\ \A q \in ToSet(KeptCells(doc, i)) : q.block = i
        /\ \A cell \in ToSet(doc[i].cells) : Kept(doc[i], cell) => Shows(KeptCells(doc, i), i, cell.from, cell.to)
    BY <2>1, KeptCellsAre
  <2>3. QED
    BY <2>2 DEF i
<1>3. ws \in Seq(Seq(PieceTypes)) /\ Len(ws) = Len(s) /\ \A n \in 1..Len(s) : ws[n] = KeptCells(doc, s[n].block)
  BY <1>1, <1>2
<1>4. Chunks(kind, none, ws) = all
  <2>1. Chunks(kind, none, ws) = [n \in 1..Len(ws) |-> Chunk("table", << >>, ws[n])]
    BY DEF Chunks
  <2> HIDE DEF ws
  <2>2. QED
    BY <1>3, <2>1
<1>5. none \in Seq(Nat) /\ kind \in {"table", "prose", "glossary"}
  OBVIOUS
<1> HIDE DEF ws, all, none
<1>6. /\ all \in Seq(ChunkTypes)
      /\ \A c \in ToSet(all) : c.kind = "table" /\ c.pieces \in ToSet(ws)
      /\ \A w \in ToSet(ws) : \E c \in ToSet(all) : c.pieces = w
  <2> HIDE DEF kind
  <2>1. /\ Chunks(kind, none, ws) \in Seq(ChunkTypes)
        /\ \A c \in ToSet(Chunks(kind, none, ws)) :
              c.kind = kind /\ c.path = none /\ c.pieces \in ToSet(ws)
        /\ \A w \in ToSet(ws) : \E c \in ToSet(Chunks(kind, none, ws)) : c.pieces = w
    BY <1>3, <1>5, ChunksAre
  <2>2. QED
    BY <1>4, <2>1 DEF kind
<1>7. ASSUME NEW c \in ToSet(all)
      PROVE  c.kind = "table" /\ \A q \in ToSet(c.pieces) : q.block \in BlocksOf(s)
  <2> DEFINE w == c.pieces
  <2>0. w \in ToSet(ws)
    BY <1>6
  <2> HIDE DEF w
  <2>1. PICK n \in 1..Len(ws) : w = ws[n]
    BY <1>3, <2>0, ToSetIs
  <2>2. n \in 1..Len(s) /\ c.pieces = KeptCells(doc, s[n].block)
    BY <1>3, <2>1 DEF w
  <2>3. QED
    BY <1>1, <1>2, <1>6, <2>2
<1>8. ASSUME NEW k \in 1..Len(s)
      PROVE  TellsCells(doc, all, s[k].block)
  <2>1. ws[k] \in ToSet(ws)
    BY <1>3, ToSetIs
  <2>2. PICK c \in ToSet(all) : c.pieces = KeptCells(doc, s[k].block)
    BY <1>3, <1>6, <2>1
  <2>3. QED
    BY <1>2, <2>2 DEF TellsCells
<1>9. QED
  BY <1>6, <1>7, <1>8 DEF all

\* The windows of a section's prose.
LEMMA ProseHolds ==
    \A size \in Nat \ {0} : \A overlap \in Nat : \A path \in Seq(Nat) : \A s \in Seq(WholePieces) :
        /\ Chunks("prose", path, Pack(s, size, overlap)) \in Seq(ChunkTypes)
        /\ \A c \in ToSet(Chunks("prose", path, Pack(s, size, overlap))) :
              /\ c.kind = "prose" /\ c.path = path /\ Joined(c.pieces) <= size
              /\ \A q \in ToSet(c.pieces) : q.block \in BlocksOf(s)
        /\ \A k \in 1..Len(s) : \A at \in Nat :
              at + PhraseLength(s[k].to, size, overlap) <= s[k].to =>
                  \E c \in ToSet(Chunks("prose", path, Pack(s, size, overlap))) :
                      Shows(c.pieces, s[k].block, at, at + PhraseLength(s[k].to, size, overlap))
<1> TAKE size \in Nat \ {0}
<1> TAKE overlap \in Nat
<1> TAKE path \in Seq(Nat)
<1> TAKE s \in Seq(WholePieces)
<1> DEFINE ws == Pack(s, size, overlap)
           kind == "prose"
           length(k) == PhraseLength(s[k].to, size, overlap)
<1>1. /\ ws \in Seq(Seq(PieceTypes))
      /\ \A w \in ToSet(ws) : Fits(w, size, BlocksOf(s))
      /\ \A k \in 1..Len(s) : \A at \in Nat : at + length(k) <= s[k].to =>
            \E w \in ToSet(ws) : Shows(w, s[k].block, at, at + length(k))
  BY PackCovers
<1>2. kind \in {"table", "prose", "glossary"}
  OBVIOUS
<1> HIDE DEF ws, kind, length
<1> DEFINE all == Chunks(kind, path, ws)
<1>3. /\ all \in Seq(ChunkTypes)
      /\ \A c \in ToSet(all) : c.kind = kind /\ c.path = path /\ c.pieces \in ToSet(ws)
      /\ \A w \in ToSet(ws) : \E c \in ToSet(all) : c.pieces = w
  BY <1>1, <1>2, ChunksAre
<1> HIDE DEF all
<1>4. \A c \in ToSet(all) :
        /\ c.kind = kind /\ c.path = path /\ Joined(c.pieces) <= size
        /\ \A q \in ToSet(c.pieces) : q.block \in BlocksOf(s)
  BY <1>1, <1>3 DEF Fits
<1>5. \A k \in 1..Len(s) : \A at \in Nat : at + length(k) <= s[k].to =>
        \E c \in ToSet(all) : Shows(c.pieces, s[k].block, at, at + length(k))
  <2> TAKE k \in 1..Len(s)
  <2> TAKE at \in Nat
  <2> HAVE at + length(k) <= s[k].to
  <2>1. PICK w \in ToSet(ws) : Shows(w, s[k].block, at, at + length(k))
    BY <1>1
  <2>2. PICK c \in ToSet(all) : c.pieces = w
    BY <1>3
  <2>3. QED
    BY <2>1, <2>2
<1>6. QED
  BY <1>3, <1>4, <1>5 DEF all, kind, ws, length

\* The batches of a section's glossary.
LEMMA GlossaryHolds ==
    \A size \in Nat \ {0} : \A s \in Seq(WholePieces) :
        /\ Chunks("glossary", << >>, Batches(s, size)) \in Seq(ChunkTypes)
        /\ \A c \in ToSet(Chunks("glossary", << >>, Batches(s, size))) :
              /\ c.kind = "glossary" /\ (Len(c.pieces) > 1 => AsCounted(c.pieces) <= size)
              /\ \A q \in ToSet(c.pieces) : q.block \in BlocksOf(s)
        /\ \A k \in 1..Len(s) :
              \E c \in ToSet(Chunks("glossary", << >>, Batches(s, size))) : s[k] \in ToSet(c.pieces)
<1> TAKE size \in Nat \ {0}
<1> TAKE s \in Seq(WholePieces)
<1> DEFINE ws == Batches(s, size)
           kind == "glossary"
           none == << >>
<1>0. s \in Seq(PieceTypes)
  BY DEF WholePieces
<1>1. /\ ws \in Seq(Seq(PieceTypes))
      /\ \A w \in ToSet(ws) : Together(w, size, BlocksOf(s))
      /\ \A k \in 1..Len(s) : \E w \in ToSet(ws) : s[k] \in ToSet(w)
  BY <1>0, BatchesCover
<1>2. kind \in {"table", "prose", "glossary"} /\ none \in Seq(Nat)
  OBVIOUS
<1> HIDE DEF ws, kind, none
<1> DEFINE all == Chunks(kind, none, ws)
<1>3. /\ all \in Seq(ChunkTypes)
      /\ \A c \in ToSet(all) : c.kind = kind /\ c.path = none /\ c.pieces \in ToSet(ws)
      /\ \A w \in ToSet(ws) : \E c \in ToSet(all) : c.pieces = w
  BY <1>1, <1>2, ChunksAre
<1> HIDE DEF all
<1>4. \A c \in ToSet(all) :
        /\ c.kind = kind /\ (Len(c.pieces) > 1 => AsCounted(c.pieces) <= size)
        /\ \A q \in ToSet(c.pieces) : q.block \in BlocksOf(s)
  BY <1>1, <1>3 DEF Together
<1>5. \A k \in 1..Len(s) : \E c \in ToSet(all) : s[k] \in ToSet(c.pieces)
  <2> TAKE k \in 1..Len(s)
  <2>1. PICK w \in ToSet(ws) : s[k] \in ToSet(w)
    BY <1>1
  <2>2. PICK c \in ToSet(all) : c.pieces = w
    BY <1>3
  <2>3. QED
    BY <2>1, <2>2
<1>6. QED
  BY <1>3, <1>4, <1>5 DEF all, kind, none, ws

\* The chunks of a section stand in it, keep to the size and tell all of it.
LEMMA SectionChunksHold ==
    \A size \in Nat \ {0} : \A overlap \in Nat : \A doc \in Docs : \A section \in SectionTypes :
        IsSection(doc, section) =>
            /\ SectionChunks(doc, section, size, overlap) \in Seq(ChunkTypes)
            /\ \A c \in ToSet(SectionChunks(doc, section, size, overlap)) :
                  InItsSection(doc, c) /\ KeepsToSize(doc, c, size)
            /\ \A j \in ToSet(section.body) :
                  /\ doc[j].kind = "table" => TellsCells(doc, SectionChunks(doc, section, size, overlap), j)
                  /\ doc[j].kind # "table" => Tells(doc, SectionChunks(doc, section, size, overlap), j, size, overlap)
<1> TAKE size \in Nat \ {0}
<1> TAKE overlap \in Nat
<1> TAKE doc \in Docs
<1> TAKE section \in SectionTypes
<1> HAVE IsSection(doc, section)
<1> DEFINE of(kind) == OfKind(doc, section, kind)
           ts == of("table")
           ps == of("prose")
           gs == of("glossary")
           tables == [n \in 1..Len(ts) |-> Chunk("table", << >>, KeptCells(doc, ts[n].block))]
           proses == Chunks("prose", section.path, Pack(ps, size, overlap))
           glossaries == Chunks("glossary", << >>, Batches(gs, size))
           all == SectionChunks(doc, section, size, overlap)
<1>1. all = tables \o proses \o glossaries
  BY DEF SectionChunks, Chunks
<1>2. ASSUME NEW kind
      PROVE  /\ of(kind) \in Seq(WholePieces)
             /\ BlocksOf(of(kind)) \subseteq ToSet(section.body)
             /\ \A j \in ToSet(section.body) : doc[j].kind = kind =>
                   \E k \in 1..Len(of(kind)) : of(kind)[k].block = j /\ of(kind)[k].to = doc[j].length
  BY OfKindIs
<1>3. /\ section.path \in Seq(Nat) /\ section.body \in Seq(Nat)
      /\ \A j \in ToSet(section.body) :
            /\ j \in 1..Len(doc)
            /\ doc[j].kind \in {"prose", "table", "glossary"} /\ doc[j].length \in Nat
  <2>1. \A j \in ToSet(section.body) : j \in 1..Len(doc) /\ doc[j].kind # "heading"
    BY DEF IsSection
  <2>2. \A j \in 1..Len(doc) : doc[j] \in BlockTypes
    BY DEF Docs
  <2>3. \A j \in 1..Len(doc) : doc[j].kind \in {"heading", "prose", "table", "glossary"} /\ doc[j].length \in Nat
    BY <2>2 DEF BlockTypes
  <2>4. QED
    BY <2>1, <2>3 DEF SectionTypes
<1>4. /\ ts \in Seq(WholePieces) /\ BlocksOf(ts) \subseteq ToSet(section.body)
      /\ \A j \in ToSet(section.body) : doc[j].kind = "table" =>
            \E k \in 1..Len(ts) : ts[k].block = j /\ ts[k].to = doc[j].length
  BY <1>2
<1>5. /\ ps \in Seq(WholePieces) /\ BlocksOf(ps) \subseteq ToSet(section.body)
      /\ \A j \in ToSet(section.body) : doc[j].kind = "prose" =>
            \E k \in 1..Len(ps) : ps[k].block = j /\ ps[k].to = doc[j].length
  BY <1>2
<1>6. /\ gs \in Seq(WholePieces) /\ BlocksOf(gs) \subseteq ToSet(section.body)
      /\ \A j \in ToSet(section.body) : doc[j].kind = "glossary" =>
            \E k \in 1..Len(gs) : gs[k].block = j /\ gs[k].to = doc[j].length
  BY <1>2
<1> HIDE DEF ts, ps, gs, all
<1>7. /\ tables \in Seq(ChunkTypes)
      /\ \A c \in ToSet(tables) : c.kind = "table" /\ \A q \in ToSet(c.pieces) : q.block \in BlocksOf(ts)
      /\ \A k \in 1..Len(ts) : TellsCells(doc, tables, ts[k].block)
  <2>1. \A n \in 1..Len(ts) : ts[n].block \in 1..Len(doc)
    BY <1>3, <1>4 DEF BlocksOf
  <2>2. QED
    BY <1>4, <2>1, TablesHold
<1>8. /\ proses \in Seq(ChunkTypes)
      /\ \A c \in ToSet(proses) :
            /\ c.kind = "prose" /\ c.path = section.path /\ Joined(c.pieces) <= size
            /\ \A q \in ToSet(c.pieces) : q.block \in BlocksOf(ps)
      /\ \A k \in 1..Len(ps) : \A at \in Nat :
            at + PhraseLength(ps[k].to, size, overlap) <= ps[k].to =>
                \E c \in ToSet(proses) :
                    Shows(c.pieces, ps[k].block, at, at + PhraseLength(ps[k].to, size, overlap))
  <2> DEFINE path == section.path
  <2>1. path \in Seq(Nat)
    BY <1>3
  <2> HIDE DEF path
  <2>2. /\ Chunks("prose", path, Pack(ps, size, overlap)) \in Seq(ChunkTypes)
        /\ \A c \in ToSet(Chunks("prose", path, Pack(ps, size, overlap))) :
              /\ c.kind = "prose" /\ c.path = path /\ Joined(c.pieces) <= size
              /\ \A q \in ToSet(c.pieces) : q.block \in BlocksOf(ps)
        /\ \A k \in 1..Len(ps) : \A at \in Nat :
              at + PhraseLength(ps[k].to, size, overlap) <= ps[k].to =>
                  \E c \in ToSet(Chunks("prose", path, Pack(ps, size, overlap))) :
                      Shows(c.pieces, ps[k].block, at, at + PhraseLength(ps[k].to, size, overlap))
    BY <1>5, <2>1, ProseHolds
  <2>3. QED
    BY <2>2 DEF path
<1>9. /\ glossaries \in Seq(ChunkTypes)
      /\ \A c \in ToSet(glossaries) :
            /\ c.kind = "glossary" /\ (Len(c.pieces) > 1 => AsCounted(c.pieces) <= size)
            /\ \A q \in ToSet(c.pieces) : q.block \in BlocksOf(gs)
      /\ \A k \in 1..Len(gs) : \E c \in ToSet(glossaries) : gs[k] \in ToSet(c.pieces)
  BY <1>6, GlossaryHolds
<1> HIDE DEF tables, proses, glossaries
<1>10. /\ all \in Seq(ChunkTypes)
       /\ ToSet(all) = ToSet(tables) \cup ToSet(proses) \cup ToSet(glossaries)
  <2> DEFINE both == tables \o proses
  <2>1. both \in Seq(ChunkTypes) /\ ToSet(both) = ToSet(tables) \cup ToSet(proses)
    BY <1>7, <1>8, ToSetOfCat
  <2>2. all = both \o glossaries
    BY <1>1
  <2> HIDE DEF both
  <2>3. all \in Seq(ChunkTypes) /\ ToSet(all) = ToSet(both) \cup ToSet(glossaries)
    BY <1>9, <2>1, <2>2, ToSetOfCat
  <2>4. QED
    BY <2>1, <2>3
<1>11. \A c \in ToSet(all) : c \in ChunkTypes
  BY <1>10, ToSetIsTyped
<1>12. ASSUME NEW c \in ToSet(all)
       PROVE  InItsSection(doc, c) /\ KeepsToSize(doc, c, size)
  <2>1. \A q \in ToSet(c.pieces) : q.block \in ToSet(section.body)
    BY <1>4, <1>5, <1>6, <1>7, <1>8, <1>9, <1>10
  <2>2. c.kind = "prose" => c.path = section.path
    BY <1>7, <1>8, <1>9, <1>10
  <2>3. InItsSection(doc, c)
    BY <1>11, <2>1, <2>2, StandsInItsSection
  <2>4. KeepsToSize(doc, c, size)
    <3>1. CASE c \in ToSet(tables)
      BY <1>7, <1>11, <3>1, StoredSizes
    <3>2. CASE c \in ToSet(proses)
      <4>1. ToSet(section.path) \subseteq 1..Len(doc)
        BY DEF IsSection
      <4> DEFINE path == section.path
      <4>2. Prefix(doc, path) \in Nat
        <5>1. path \in Seq(Nat) /\ ToSet(path) \subseteq 1..Len(doc)
          BY <1>3, <4>1
        <5> HIDE DEF path
        <5>2. QED
          BY <5>1, PrefixIsNat
      <4>3. QED
        BY <1>8, <1>11, <3>2, <4>2, StoredSizes
    <3>3. CASE c \in ToSet(glossaries)
      BY <1>9, <1>11, <3>3, StoredSizes
    <3>4. QED
      BY <1>10, <3>1, <3>2, <3>3
  <2>5. QED
    BY <2>3, <2>4
<1>13. ASSUME NEW j \in ToSet(section.body), doc[j].kind # "table"
       PROVE  Tells(doc, all, j, size, overlap)
  <2> DEFINE whole == doc[j].length
             length == PhraseLength(whole, size, overlap)
  <2>1. whole \in Nat
    BY <1>3
  <2> HIDE DEF whole
  <2>2. ASSUME NEW p \in WholePieces, p.block = j, p.to = whole, NEW c \in ToSet(all), p \in ToSet(c.pieces),
               NEW at \in Nat, at + length <= whole
        PROVE  \E d \in ToSet(all) : Shows(d.pieces, j, at, at + length)
    <3> DEFINE w == c.pieces
    <3>1. p \in ToSet(w)
      BY <2>2
    <3> HIDE DEF w
    <3>2. Shows(w, p.block, at, at + length)
      BY <2>1, <2>2, <3>1, WholeTells
    <3>3. QED
      BY <2>2, <3>2 DEF w
  <2>3. ASSUME NEW at \in Nat, at + length <= whole
        PROVE  \E c \in ToSet(all) : Shows(c.pieces, j, at, at + length)
    <3>2. CASE doc[j].kind = "glossary"
      <4>1. PICK k \in 1..Len(gs) : gs[k].block = j /\ gs[k].to = whole
        BY <1>6, <3>2 DEF whole
      <4>2. PICK c \in ToSet(glossaries) : gs[k] \in ToSet(c.pieces)
        BY <1>9
      <4>3. gs[k] \in WholePieces /\ c \in ToSet(all)
        BY <1>6, <1>10
      <4> HIDE DEF length
      <4>4. QED
        BY <2>2, <2>3, <4>1, <4>2, <4>3
    <3>3. CASE doc[j].kind = "prose"
      <4>1. PICK k \in 1..Len(ps) : ps[k].block = j /\ ps[k].to = whole
        BY <1>5, <3>3 DEF whole
      <4>2. PICK c \in ToSet(proses) : Shows(c.pieces, j, at, at + length)
        BY <1>8, <2>3, <4>1
      <4>3. QED
        BY <1>10, <4>2
    <3>4. QED
      BY <1>3, <1>13, <3>2, <3>3
  <2>4. QED
    BY <2>3 DEF Tells, whole
<1>14. ASSUME NEW j \in ToSet(section.body), doc[j].kind = "table"
       PROVE  TellsCells(doc, all, j)
  <2>1. PICK k \in 1..Len(ts) : ts[k].block = j
    BY <1>4, <1>14
  <2>2. TellsCells(doc, tables, j)
    BY <1>7, <2>1
  <2>3. ToSet(tables) \subseteq ToSet(all)
    BY <1>10
  <2>4. QED
    BY <2>2, <2>3 DEF TellsCells
<1>15. QED
  BY <1>10, <1>12, <1>13, <1>14 DEF all

\* The chunks so far stand in their sections and keep to the size.
Standing(doc, size) ==
    {chunks \in Seq(ChunkTypes) : \A c \in ToSet(chunks) : InItsSection(doc, c) /\ KeepsToSize(doc, c, size)}

\* What has been chunked, as far as each section.
LEMMA ChunkSteps ==
    \A size \in Nat \ {0} : \A overlap \in Nat : \A doc \in Docs :
        \E f :
            /\ \A n \in 0..Len(Sections(doc)) : f[n] \in Standing(doc, size)
            /\ StructuralChunks(doc, size, overlap) = f[Len(Sections(doc))]
            /\ f[0] = << >>
            /\ \A n \in 1..Len(Sections(doc)) : f[n] = f[n - 1] \o SectionChunks(doc, Sections(doc)[n], size, overlap)
<1> TAKE size \in Nat \ {0}
<1> TAKE overlap \in Nat
<1> TAKE doc \in Docs
<1>0. size \in Nat \ {0} /\ overlap \in Nat /\ doc \in Docs
  OBVIOUS
<1> DEFINE N == Len(Sections(doc))
           V == Standing(doc, size)
           zero == << >>
           step(n, w) == w \o SectionChunks(doc, Sections(doc)[n], size, overlap)
           body(f) == [n \in 0..N |-> IF n = 0 THEN zero ELSE step(n, f[n - 1])]
           h == [n \in 1..N |-> [w \in V |-> step(n, w)]]
           upTo == CHOOSE f : f = body(f)
<1>01. Sections(doc) \in Seq(SectionTypes) /\ \A section \in ToSet(Sections(doc)) : IsSection(doc, section)
  BY <1>0, SectionsHold
<1>1. /\ N \in Nat
      /\ \A n \in 1..N : Sections(doc)[n] \in SectionTypes /\ IsSection(doc, Sections(doc)[n])
  <2> DEFINE all == Sections(doc)
  <2>1. all \in Seq(SectionTypes)
    BY <1>01
  <2> HIDE DEF all
  <2>2. Len(all) \in Nat /\ \A n \in 1..Len(all) : all[n] \in SectionTypes /\ all[n] \in ToSet(all)
    BY <2>1, ToSetIs
  <2>3. QED
    BY <1>01, <2>2 DEF all
<1>2. \A n \in 1..N : \A w \in V : step(n, w) \in V
  <2> TAKE n \in 1..N
  <2> TAKE w \in V
  <2> DEFINE section == Sections(doc)[n]
  <2>1. section \in SectionTypes /\ IsSection(doc, section)
    BY <1>1
  <2> HIDE DEF section
  <2> DEFINE more == SectionChunks(doc, section, size, overlap)
  <2>2. more \in Seq(ChunkTypes) /\ \A c \in ToSet(more) : InItsSection(doc, c) /\ KeepsToSize(doc, c, size)
    BY <1>0, <2>1, SectionChunksHold
  <2>3. w \in Seq(ChunkTypes) /\ \A c \in ToSet(w) : InItsSection(doc, c) /\ KeepsToSize(doc, c, size)
    BY DEF Standing
  <2>4. step(n, w) = w \o more
    BY DEF section
  <2> HIDE DEF more, step
  <2>5. step(n, w) \in Seq(ChunkTypes) /\ ToSet(step(n, w)) = ToSet(w) \cup ToSet(more)
    BY <2>2, <2>3, <2>4, ToSetOfCat
  <2>6. QED
    BY <2>2, <2>3, <2>5 DEF Standing
<1>3. zero \in V
  <2>1. << >> \in Seq(ChunkTypes)
    OBVIOUS
  <2>2. QED
    BY <2>1, ToSetOfEmpty DEF Standing
<1> HIDE DEF V, N, step, zero
<1>4. h \in [1..N -> [V -> V]] /\ \A n \in 1..N : \A w \in V : h[n][w] = step(n, w)
  BY <1>2
<1> HIDE DEF h
<1>5. PICK f \in [0..N -> V] : f[0] = zero /\ \A n \in 1..N : f[n] = h[n][f[n - 1]]
  <2>1. N \in Nat /\ h \in [1..N -> [V -> V]]
    BY <1>1, <1>4
  <2>2. QED
    BY <1>3, <2>1, StepByStep
<1>6. f = body(f)
  <2>1. \A n \in 0..N : n # 0 => n \in 1..N /\ n - 1 \in 0..N /\ f[n - 1] \in V
    BY <1>1
  <2>2. \A n \in 0..N : f[n] = IF n = 0 THEN zero ELSE step(n, f[n - 1])
    BY <1>4, <1>5, <2>1
  <2>3. QED
    BY <2>2
<1>7. upTo = body(upTo)
  <2> HIDE DEF body
  <2>1. QED
    BY <1>6
<1>8. StructuralChunks(doc, size, overlap) = upTo[N]
  BY DEF StructuralChunks, step, N, zero
<1> HIDE DEF upTo
<1>9. upTo = [n \in 0..N |-> IF n = 0 THEN zero ELSE step(n, upTo[n - 1])]
  BY <1>7
<1>10. upTo[0] = zero /\ \A n \in 1..N : upTo[n] = step(n, upTo[n - 1])
  BY <1>1, <1>9
<1>11. upTo \in [0..N -> V]
  <2>1. upTo = [n \in 0..N |-> upTo[n]]
    BY <1>9
  <2>2. \A n \in 1..N : upTo[n - 1] \in V => upTo[n] \in V
    BY <1>2, <1>10
  <2>3. QED
    BY <1>1, <1>3, <1>10, <2>1, <2>2, StepsAreTyped
<1>12. \A n \in 0..N : upTo[n] \in V
  BY <1>11
<1>13. QED
  BY <1>8, <1>10, <1>12 DEF N, V, zero, step

\* The chunks of the structural chunker stand in their sections, are longer than
\* the size by no more than KeepsToSize has it when they are stored, and tell all
\* of the document but the cells of its tables that are dropped (StructuralChunker).
THEOREM StructuralChunksHold ==
    \A size \in Nat \ {0} : \A overlap \in Nat : \A doc \in Docs :
        /\ StructuralChunks(doc, size, overlap) \in Seq(ChunkTypes)
        /\ \A c \in ToSet(StructuralChunks(doc, size, overlap)) : InItsSection(doc, c) /\ KeepsToSize(doc, c, size)
        /\ \A j \in 1..Len(doc) :
              /\ doc[j].kind = "table" => TellsCells(doc, StructuralChunks(doc, size, overlap), j)
              /\ doc[j].kind \in {"prose", "glossary"} =>
                    Tells(doc, StructuralChunks(doc, size, overlap), j, size, overlap)
<1> TAKE size \in Nat \ {0}
<1> TAKE overlap \in Nat
<1> TAKE doc \in Docs
<1> DEFINE sections == Sections(doc)
           of(n) == SectionChunks(doc, sections[n], size, overlap)
           N == Len(sections)
           all == StructuralChunks(doc, size, overlap)
<1>1. PICK f :
        /\ \A n \in 0..N : f[n] \in Standing(doc, size)
        /\ all = f[N]
        /\ f[0] = << >>
        /\ \A n \in 1..N : f[n] = f[n - 1] \o of(n)
  BY ChunkSteps, Zenon
<1>2. /\ sections \in Seq(SectionTypes) /\ \A section \in ToSet(sections) : IsSection(doc, section)
      /\ \A j \in 1..Len(doc) : doc[j].kind # "heading" =>
            \E section \in ToSet(sections) : j \in ToSet(section.body)
  BY SectionsHold
<1> HIDE DEF sections, all
<1>3. N \in Nat /\ \A n \in 1..N : sections[n] \in SectionTypes /\ sections[n] \in ToSet(sections)
  BY <1>2, ToSetIs
<1> HIDE DEF N
<1>4. \A n \in 1..N :
        /\ of(n) \in Seq(ChunkTypes)
        /\ \A j \in ToSet(sections[n].body) :
              /\ doc[j].kind = "table" => TellsCells(doc, of(n), j)
              /\ doc[j].kind # "table" => Tells(doc, of(n), j, size, overlap)
  <2> TAKE n \in 1..N
  <2> DEFINE section == sections[n]
  <2>1. section \in SectionTypes /\ IsSection(doc, section)
    BY <1>2, <1>3
  <2> HIDE DEF section
  <2>2. /\ SectionChunks(doc, section, size, overlap) \in Seq(ChunkTypes)
        /\ \A j \in ToSet(section.body) :
              /\ doc[j].kind = "table" => TellsCells(doc, SectionChunks(doc, section, size, overlap), j)
              /\ doc[j].kind # "table" => Tells(doc, SectionChunks(doc, section, size, overlap), j, size, overlap)
    BY <2>1, SectionChunksHold
  <2>3. QED
    BY <2>2 DEF section
<1>5. \A n \in 0..N : f[n] \in Seq(ChunkTypes)
  BY <1>1 DEF Standing
<1> HIDE DEF of
<1>6. \A n \in 1..N : ToSet(f[n]) = ToSet(f[n - 1]) \cup ToSet(of(n))
  <2> TAKE n \in 1..N
  <2> DEFINE before == f[n - 1]
             more == of(n)
  <2>1. before \in Seq(ChunkTypes) /\ more \in Seq(ChunkTypes) /\ f[n] = before \o more
    <3>1. n - 1 \in 0..N
      BY <1>3
    <3>2. before \in Seq(ChunkTypes)
      BY <1>5, <3>1
    <3>3. more \in Seq(ChunkTypes)
      BY <1>4
    <3>4. f[n] = before \o more
      BY <1>1
    <3>5. QED
      BY <3>2, <3>3, <3>4
  <2> HIDE DEF before, more
  <2>2. ToSet(before \o more) = ToSet(before) \cup ToSet(more)
    BY <2>1, ToSetOfCat
  <2>3. QED
    BY <2>1, <2>2 DEF before, more
<1> DEFINE I == {n \in Nat : n <= N => \A m \in 1..n : ToSet(of(m)) \subseteq ToSet(f[n])}
<1>7. 0 \in I
  OBVIOUS
<1>8. \A n \in Nat : n \in I => n + 1 \in I
  <2> SUFFICES ASSUME NEW n \in Nat, n \in I, n + 1 <= N, NEW m \in 1..(n + 1)
               PROVE  ToSet(of(m)) \subseteq ToSet(f[n + 1])
    OBVIOUS
  <2>1. n + 1 \in 1..N /\ (n + 1) - 1 = n /\ n <= N
    BY <1>3
  <2>2. ToSet(f[n + 1]) = ToSet(f[n]) \cup ToSet(of(n + 1))
    BY <1>6, <2>1
  <2>3. m = n + 1 \/ m \in 1..n
    OBVIOUS
  <2>4. m \in 1..n => ToSet(of(m)) \subseteq ToSet(f[n])
    BY <2>1
  <2> HIDE DEF I
  <2>5. QED
    BY <2>2, <2>3, <2>4
<1>9. \A m \in 1..N : ToSet(of(m)) \subseteq ToSet(all)
  <2>1. N \in I
    <3> HIDE DEF I
    <3>1. QED
      BY <1>3, <1>7, <1>8, NatInduct
  <2>2. QED
    BY <1>1, <1>3, <2>1
<1> HIDE DEF I
<1>10. all \in Seq(ChunkTypes) /\ \A c \in ToSet(all) : InItsSection(doc, c) /\ KeepsToSize(doc, c, size)
  <2>1. all \in Standing(doc, size)
    BY <1>1, <1>3
  <2>2. QED
    BY <2>1 DEF Standing
<1>11. ASSUME NEW j \in 1..Len(doc), doc[j].kind # "heading"
       PROVE  /\ doc[j].kind = "table" => TellsCells(doc, all, j)
              /\ doc[j].kind # "table" => Tells(doc, all, j, size, overlap)
  <2>1. PICK section \in ToSet(sections) : j \in ToSet(section.body)
    BY <1>2, <1>11
  <2>2. PICK n \in 1..N : section = sections[n]
    BY <1>2, ToSetIs DEF N
  <2>3. /\ doc[j].kind = "table" => TellsCells(doc, of(n), j)
        /\ doc[j].kind # "table" => Tells(doc, of(n), j, size, overlap)
    BY <1>4, <2>1, <2>2
  <2>4. ToSet(of(n)) \subseteq ToSet(all)
    BY <1>9
  <2>5. QED
    BY <2>3, <2>4 DEF Tells, TellsCells
<1>12. QED
  BY <1>10, <1>11 DEF all

\* The chunks of the paragraph chunker keep to the size and tell all of the
\* document (ParagraphChunker).
THEOREM ParagraphChunksHold ==
    \A size \in Nat \ {0} : \A overlap \in Nat : \A doc \in Docs :
        /\ ParagraphChunks(doc, size, overlap) \in Seq(ChunkTypes)
        /\ \A c \in ToSet(ParagraphChunks(doc, size, overlap)) : KeepsToSize(doc, c, size)
        /\ \A j \in 1..Len(doc) : Tells(doc, ParagraphChunks(doc, size, overlap), j, size, overlap)
<1> TAKE size \in Nat \ {0}
<1> TAKE overlap \in Nat
<1> TAKE doc \in Docs
<1> DEFINE s == [i \in 1..Len(doc) |-> Whole(doc, i)]
           none == << >>
           all == ParagraphChunks(doc, size, overlap)
<1>1. Len(doc) \in Nat /\ \A i \in 1..Len(doc) : i \in Nat /\ doc[i].length \in Nat
  <2>1. Len(doc) \in Nat /\ \A i \in 1..Len(doc) : doc[i] \in BlockTypes
    BY DEF Docs
  <2>2. QED
    BY <2>1 DEF BlockTypes
<1>2. \A i \in 1..Len(doc) :
        Whole(doc, i) \in WholePieces /\ Whole(doc, i).block = i /\ Whole(doc, i).to = doc[i].length
  BY <1>1 DEF Whole, WholePieces, PieceTypes
<1>3. s \in Seq(WholePieces) /\ Len(s) = Len(doc)
      /\ \A i \in 1..Len(doc) : s[i].block = i /\ s[i].to = doc[i].length
  BY <1>1, <1>2
<1>4. none \in Seq(Nat) /\ Prefix(doc, none) \in Nat
  BY DEF Prefix
<1>5. all = Chunks("prose", none, Pack(s, size, overlap))
  BY DEF ParagraphChunks, Chunks
<1> HIDE DEF s, none, all
<1>6. /\ all \in Seq(ChunkTypes)
      /\ \A c \in ToSet(all) : c.kind = "prose" /\ c.path = none /\ Joined(c.pieces) <= size
      /\ \A k \in 1..Len(s) : \A at \in Nat :
            at + PhraseLength(s[k].to, size, overlap) <= s[k].to =>
                \E c \in ToSet(all) : Shows(c.pieces, s[k].block, at, at + PhraseLength(s[k].to, size, overlap))
  <2>1. /\ Chunks("prose", none, Pack(s, size, overlap)) \in Seq(ChunkTypes)
        /\ \A c \in ToSet(Chunks("prose", none, Pack(s, size, overlap))) :
              /\ c.kind = "prose" /\ c.path = none /\ Joined(c.pieces) <= size
              /\ \A q \in ToSet(c.pieces) : q.block \in BlocksOf(s)
        /\ \A k \in 1..Len(s) : \A at \in Nat :
              at + PhraseLength(s[k].to, size, overlap) <= s[k].to =>
                  \E c \in ToSet(Chunks("prose", none, Pack(s, size, overlap))) :
                      Shows(c.pieces, s[k].block, at, at + PhraseLength(s[k].to, size, overlap))
    BY <1>3, <1>4, ProseHolds
  <2>2. QED
    BY <1>5, <2>1
<1>7. \A c \in ToSet(all) : KeepsToSize(doc, c, size)
  <2>1. \A c \in ToSet(all) : c \in ChunkTypes
    BY <1>6, ToSetIsTyped
  <2>2. QED
    BY <1>4, <1>6, <2>1, StoredSizes
<1>8. \A j \in 1..Len(doc) : Tells(doc, all, j, size, overlap)
  BY <1>3, <1>6 DEF Tells
<1>9. QED
  BY <1>6, <1>7, <1>8 DEF all

-----------------------------------------------------------------------------
(* What the chunks of a text say of it.                                    *)

Chunkers == {"structural", "paragraph"}

\* The chunks of a text, by the chunker.
LEMMA ChunksOfIs ==
    \A choice \in Chunkers : \A t \in Texts :
        /\ DOMAIN ChunksOf = Chunkers /\ DOMAIN ChunksOf[choice] = Texts
        /\ Blocks[t] \in Docs /\ ChunkSize \in Nat \ {0} /\ Overlap \in Nat
        /\ choice = "structural" => ChunksOf[choice][t] = StructuralChunks(Blocks[t], ChunkSize, Overlap)
        /\ choice = "paragraph" => ChunksOf[choice][t] = ParagraphChunks(Blocks[t], ChunkSize, Overlap)
<1> TAKE choice \in Chunkers
<1> TAKE t \in Texts
<1>1. Blocks[t] \in Docs /\ ChunkSize \in Nat \ {0} /\ Overlap \in Nat
  BY IngestionAssumption DEF Docs
<1>2. QED
  BY <1>1 DEF ChunksOf, Chunkers

\* They are what the chunkers promise.
LEMMA ChunksOfHold ==
    \A choice \in Chunkers : \A t \in Texts :
        /\ ChunksOf[choice][t] \in Seq(ChunkTypes)
        /\ DOMAIN ChunksOf[choice][t] \subseteq Nat
        /\ \A n \in DOMAIN ChunksOf[choice][t] :
              /\ choice = "structural" => InItsSection(Blocks[t], ChunksOf[choice][t][n])
              /\ KeepsToSize(Blocks[t], ChunksOf[choice][t][n], ChunkSize)
        /\ \A j \in 1..Len(Blocks[t]) : Blocks[t][j].kind # "heading" =>
              IF choice = "structural" /\ Blocks[t][j].kind = "table"
              THEN TellsCells(Blocks[t], ChunksOf[choice][t], j)
              ELSE Tells(Blocks[t], ChunksOf[choice][t], j, ChunkSize, Overlap)
<1> TAKE choice \in Chunkers
<1> TAKE t \in Texts
<1> DEFINE doc == Blocks[t]
           all == ChunksOf[choice][t]
<1>1. /\ doc \in Docs /\ ChunkSize \in Nat \ {0} /\ Overlap \in Nat
      /\ choice = "structural" => all = StructuralChunks(doc, ChunkSize, Overlap)
      /\ choice = "paragraph" => all = ParagraphChunks(doc, ChunkSize, Overlap)
  BY ChunksOfIs
<1> HIDE DEF doc, all
<1>2. /\ StructuralChunks(doc, ChunkSize, Overlap) \in Seq(ChunkTypes)
      /\ \A c \in ToSet(StructuralChunks(doc, ChunkSize, Overlap)) :
            InItsSection(doc, c) /\ KeepsToSize(doc, c, ChunkSize)
      /\ \A j \in 1..Len(doc) :
            /\ doc[j].kind = "table" => TellsCells(doc, StructuralChunks(doc, ChunkSize, Overlap), j)
            /\ doc[j].kind \in {"prose", "glossary"} =>
                  Tells(doc, StructuralChunks(doc, ChunkSize, Overlap), j, ChunkSize, Overlap)
  BY <1>1, StructuralChunksHold
<1>3. /\ ParagraphChunks(doc, ChunkSize, Overlap) \in Seq(ChunkTypes)
      /\ \A c \in ToSet(ParagraphChunks(doc, ChunkSize, Overlap)) : KeepsToSize(doc, c, ChunkSize)
      /\ \A j \in 1..Len(doc) : Tells(doc, ParagraphChunks(doc, ChunkSize, Overlap), j, ChunkSize, Overlap)
  BY <1>1, ParagraphChunksHold
<1>4. (choice = "structural" \/ choice = "paragraph") /\ (choice = "paragraph" => choice # "structural")
  BY DEF Chunkers
<1>5. all \in Seq(ChunkTypes)
  BY <1>1, <1>2, <1>3, <1>4
<1>6. \A c \in ToSet(all) : (choice = "structural" => InItsSection(doc, c)) /\ KeepsToSize(doc, c, ChunkSize)
  BY <1>1, <1>2, <1>3, <1>4
<1>7. ASSUME NEW j \in 1..Len(doc), doc[j].kind # "heading"
      PROVE  IF choice = "structural" /\ doc[j].kind = "table" THEN TellsCells(doc, all, j)
             ELSE Tells(doc, all, j, ChunkSize, Overlap)
  <2>1. doc[j] \in BlockTypes
    BY <1>1 DEF Docs
  <2>2. doc[j].kind \in {"prose", "table", "glossary"}
    BY <1>7, <2>1 DEF BlockTypes
  <2>3. CASE choice = "paragraph"
    BY <1>1, <1>3, <1>4, <2>3
  <2>4. CASE choice = "structural" /\ doc[j].kind = "table"
    BY <1>1, <1>2, <2>4
  <2>5. CASE choice = "structural" /\ doc[j].kind # "table"
    BY <1>1, <1>2, <2>2, <2>5
  <2>6. QED
    BY <1>4, <2>3, <2>4, <2>5
<1>8. DOMAIN all = 1..Len(all) /\ Len(all) \in Nat /\ \A n \in 1..Len(all) : all[n] \in ToSet(all)
  BY <1>5, ToSetIs
<1>9. QED
  BY <1>5, <1>6, <1>7, <1>8 DEF doc, all

\* Every chunk is faithful.
LEMMA AllFaithful ==
    \A choice \in Chunkers : \A t \in Texts :
        /\ Faithful[choice][t] = DOMAIN ChunksOf[choice][t]
        /\ Sized[choice][t] = DOMAIN ChunksOf[choice][t]
<1> TAKE choice \in Chunkers
<1> TAKE t \in Texts
<1>1. /\ DOMAIN ChunksOf = Chunkers
      /\ \A n \in DOMAIN ChunksOf[choice][t] :
            /\ choice = "structural" => InItsSection(Blocks[t], ChunksOf[choice][t][n])
            /\ KeepsToSize(Blocks[t], ChunksOf[choice][t][n], ChunkSize)
  BY ChunksOfHold, ChunksOfIs
<1>2. Faithful[choice][t] =
        {n \in DOMAIN ChunksOf[choice][t] :
            choice = "structural" => InItsSection(Blocks[t], ChunksOf[choice][t][n])}
  BY <1>1 DEF Faithful
<1>3. Sized[choice][t] =
        {n \in DOMAIN ChunksOf[choice][t] : KeepsToSize(Blocks[t], ChunksOf[choice][t][n], ChunkSize)}
  BY <1>1 DEF Sized
<1>4. QED
  BY <1>1, <1>2, <1>3

\* Every phrase is found in a chunk.
LEMMA AllFound ==
    \A choice \in Chunkers : \A t \in Texts :
        /\ \A n \in DOMAIN ChunksOf[choice][t] : FoundIn[choice][t][n] \subseteq Phrases[choice][t]
        /\ \A phrase \in Phrases[choice][t] :
              \E n \in DOMAIN ChunksOf[choice][t] : phrase \in FoundIn[choice][t][n]
<1> TAKE choice \in Chunkers
<1> TAKE t \in Texts
<1> DEFINE all == ChunksOf[choice][t]
           doc == Blocks[t]
           table(i) == choice = "structural" /\ doc[i].kind = "table"
           length(i) == PhraseLength(doc[i].length, ChunkSize, Overlap)
<1>1. /\ DOMAIN ChunksOf = Chunkers /\ doc \in Docs
      /\ all \in Seq(ChunkTypes)
      /\ \A j \in 1..Len(doc) : doc[j].kind # "heading" =>
            IF table(j) THEN TellsCells(doc, all, j) ELSE Tells(doc, all, j, ChunkSize, Overlap)
  BY ChunksOfHold, ChunksOfIs
<1>2. DOMAIN doc = 1..Len(doc) /\ DOMAIN all = 1..Len(all)
  BY <1>1 DEF Docs
<1>3. \A n \in DOMAIN all :
        FoundIn[choice][t][n] =
            {phrase \in Phrases[choice][t] : Shows(all[n].pieces, phrase.block, phrase.from, phrase.to)}
  BY <1>1 DEF FoundIn, Shows
<1>4. ASSUME NEW phrase \in Phrases[choice][t]
      PROVE  \E i \in DOMAIN doc :
                /\ doc[i].kind # "heading"
                /\ phrase \in IF table(i) THEN CellsOf(doc, i) ELSE PhrasesOf(doc, i)
  <2>1. Phrases[choice][t] =
            UNION {IF choice = "structural" /\ Blocks[t][i].kind = "table"
                   THEN CellsOf(Blocks[t], i) ELSE PhrasesOf(Blocks[t], i) :
                       i \in {j \in DOMAIN Blocks[t] : Blocks[t][j].kind # "heading"}}
    BY <1>1 DEF Phrases
  <2>2. QED
    BY <2>1
<1>5. ASSUME NEW phrase \in Phrases[choice][t]
      PROVE  \E n \in DOMAIN all : phrase \in FoundIn[choice][t][n]
  <2>1. PICK i \in DOMAIN doc :
                /\ doc[i].kind # "heading"
                /\ phrase \in IF table(i) THEN CellsOf(doc, i) ELSE PhrasesOf(doc, i)
    BY <1>4
  <2>2. i \in 1..Len(doc)
    BY <1>2
  <2>3. \E c \in ToSet(all) : Shows(c.pieces, phrase.block, phrase.from, phrase.to)
    <3>1. CASE table(i)
      <4>1. TellsCells(doc, all, i)
        BY <1>1, <2>1, <2>2, <3>1
      <4>2. PICK cell \in ToSet(doc[i].cells) :
              /\ cell.row = 0 \/ HasItsColumn(doc[i], cell)
              /\ phrase = [block |-> i, from |-> cell.from, to |-> cell.to]
        BY <2>1, <3>1 DEF CellsOf
      <4>3. Kept(doc[i], cell)
        <5> DEFINE header == doc[i].header
        <5>1. header \in Seq(STRING) /\ DOMAIN header = 1..Len(header)
          <6>1. doc[i] \in BlockTypes
            BY <1>1, <2>2 DEF Docs
          <6>2. QED
            BY <6>1 DEF BlockTypes
        <5>2. ASSUME HasItsColumn(doc[i], cell)
              PROVE  /\ cell.column \in DOMAIN header
                     /\ \A later \in DOMAIN header : later > cell.column => header[later] # header[cell.column]
          <6>1. /\ cell.column \in DOMAIN header
                /\ \A other \in DOMAIN header : header[other] = header[cell.column] => other = cell.column
            BY <5>2 DEF HasItsColumn
          <6> HIDE DEF header
          <6>2. QED
            BY <5>1, <6>1
        <5>3. QED
          BY <4>2, <5>2 DEF Kept
      <4>4. phrase.block = i /\ phrase.from = cell.from /\ phrase.to = cell.to
        BY <4>2
      <4> HIDE DEF all, doc
      <4>5. QED
        BY <4>1, <4>3, <4>4 DEF TellsCells
    <3>2. CASE ~table(i)
      <4>1. Tells(doc, all, i, ChunkSize, Overlap)
        BY <1>1, <2>1, <2>2, <3>2
      <4>2. phrase \in PhrasesOf(doc, i)
        BY <2>1, <3>2
      <4>3. PICK at \in 0..(doc[i].length - length(i)) : phrase = [block |-> i, from |-> at, to |-> at + length(i)]
        BY <4>2 DEF PhrasesOf, PhraseLength
      <4>4. doc[i].length \in Nat /\ length(i) \in Nat
        <5>1. doc[i] \in BlockTypes
          BY <1>1, <2>2 DEF Docs
        <5>2. doc[i].length \in Nat
          BY <5>1 DEF BlockTypes
        <5>3. PhraseBound(ChunkSize, Overlap) \in Nat
          <6>1. ChunkSize \in Nat \ {0} /\ Overlap \in Nat
            BY ChunksOfIs
          <6>2. QED
            BY <6>1 DEF PhraseBound, Larger, Smaller
        <5>4. QED
          BY <5>2, <5>3 DEF PhraseLength, Smaller
      <4>5. at \in Nat /\ at + length(i) <= doc[i].length
        <5> HIDE DEF length, doc
        <5>1. QED
          BY <4>4
      <4>6. phrase.block = i /\ phrase.from = at /\ phrase.to = at + length(i)
        BY <4>3
      <4>7. PICK c \in ToSet(all) : Shows(c.pieces, i, at, at + length(i))
        BY <4>1, <4>5 DEF Tells
      <4> HIDE DEF length
      <4>8. QED
        BY <4>6, <4>7
    <3>3. QED
      BY <3>1, <3>2
  <2>4. PICK c \in ToSet(all) : Shows(c.pieces, phrase.block, phrase.from, phrase.to)
    BY <2>3
  <2>5. PICK n \in 1..Len(all) : c = all[n]
    <3> HIDE DEF all
    <3>1. QED
      BY <1>1, ToSetIs
  <2> HIDE DEF all, length
  <2>6. phrase \in FoundIn[choice][t][n]
    BY <1>2, <1>3, <2>4, <2>5
  <2>7. QED
    BY <1>2, <2>6
<1>6. \A n \in DOMAIN all : FoundIn[choice][t][n] \subseteq Phrases[choice][t]
  BY <1>3
<1>7. QED
  BY <1>5, <1>6

-----------------------------------------------------------------------------
(* The inductive invariant of Ingestion.                                   *)

FileIds == UNION {ToSet(Names[f]) : f \in ToSet(Paths)}
Ids == FileIds \cup ToSet(UploadIds)

DocTypes == [id : FileIds, text : Texts]

Loading == [at : {"scan", "embed"}, files : Seq(ToSet(Paths)), docs : Seq(DocTypes),
            tags : Tags, keeps : BOOLEAN, joined : BOOLEAN]
Listing == [at : {"batch"}, files : Seq(ToSet(Paths)), tags : Tags]
Adding == [at : {"single"}, files : Seq(ToSet(Paths)), tags : Tags, text : Texts]

Jobs == {Idle} \cup Loading \cup Listing \cup Adding

IngestTypeOK ==
    /\ strategy \in Chunkers
    /\ disk \in [ToSet(Paths) -> Texts \cup {Absent}]
    /\ rows \subseteq [doc : Ids, index : Nat, text : Texts, tags : Tags]
    /\ job \in [Workers -> Jobs]
    /\ uploads \in 0..Len(UploadIds)
    /\ indexed \subseteq [id : Ids, text : Texts]
    /\ mixed \in BOOLEAN

\* The documents of a load are named apart, and there is a name left for each of
\* the files to come; the corpus is empty unless rows were kept or put there since.
LoadHolds(state, corpus) ==
    /\ Len(state.docs) + Len(state.files) <= Len(Paths)
    /\ \A m, n \in 1..Len(state.docs) : state.docs[m].id = state.docs[n].id => m = n
    /\ ~state.keeps /\ ~state.joined => corpus = {}

LoadsHold == \A w \in Workers : job[w].at \in {"scan", "embed"} => LoadHolds(job[w], CorpusRows)

\* A row has its chunk, and an id that has been drawn if it is an upload's.
RowsHold ==
    \A row \in rows :
        /\ row.index \in DOMAIN ChunksOf[strategy][row.text]
        /\ IsUpload(row.doc) => \E n \in 1..uploads : row.doc = UploadIds[n]

\* Each chunk of an added document has its row.
AllRowsAdded ==
    ~mixed => \A doc \in indexed : \A n \in DOMAIN ChunksOf[strategy][doc.text] :
        \E row \in rows : row.doc = doc.id /\ row.text = doc.text /\ row.index = n

IngestInv == IngestTypeOK /\ LoadsHold /\ RowsHold /\ AllRowsAdded /\ CorpusIsOneLoad

\* What the code's callers give it.
LEMMA NamesAre ==
    /\ Paths \in Seq(ToSet(Paths))
    /\ \A f \in ToSet(Paths) :
          /\ Names[f] \in Seq(ToSet(Names[f]))
          /\ \A m, n \in 1..Len(Names[f]) : Names[f][m] = Names[f][n] => m = n
          /\ Len(Names[f]) >= Len(Paths)
          /\ ToSet(Names[f]) \subseteq FileIds
    /\ \A id \in FileIds : ~IsUpload(id)
    /\ UploadIds \in Seq(ToSet(UploadIds))
    /\ \A m, n \in 1..Len(UploadIds) : UploadIds[m] = UploadIds[n] => m = n
    /\ Absent \notin Texts
<1>1. /\ Paths \in Seq(ToSet(Paths)) /\ UploadIds \in Seq(ToSet(UploadIds)) /\ Absent \notin Texts
      /\ \A f \in ToSet(Paths) :
            /\ Names[f] \in Seq(ToSet(Names[f])) /\ IsInjective(Names[f])
            /\ Len(Names[f]) >= Len(Paths) /\ ToSet(UploadIds) \cap ToSet(Names[f]) = {}
      /\ IsInjective(UploadIds)
  BY IngestionAssumption
<1>2. \A f \in ToSet(Paths) : DOMAIN Names[f] = 1..Len(Names[f])
  BY <1>1
<1>3. DOMAIN UploadIds = 1..Len(UploadIds)
  BY <1>1
<1>4. \A f \in ToSet(Paths) : ToSet(Names[f]) \subseteq FileIds
  BY DEF FileIds
<1>5. \A f \in ToSet(Paths) : \A m, n \in 1..Len(Names[f]) : Names[f][m] = Names[f][n] => m = n
  BY <1>1, <1>2 DEF IsInjective
<1>6. \A m, n \in 1..Len(UploadIds) : UploadIds[m] = UploadIds[n] => m = n
  BY <1>1, <1>3 DEF IsInjective
<1>7. \A id \in FileIds : ~IsUpload(id)
  BY <1>1 DEF FileIds, IsUpload
<1>8. QED
  BY <1>1, <1>4, <1>5, <1>6, <1>7

\* A file gets a name of its own for as long as there are fewer documents than
\* names (_unique_id).
THEOREM UniqueIdIsNew ==
    \A f \in ToSet(Paths) : \A docs \in Seq(DocTypes) : Len(docs) < Len(Names[f]) =>
        /\ UniqueId(f, {d.id : d \in ToSet(docs)}) \in ToSet(Names[f])
        /\ \A m \in 1..Len(docs) : docs[m].id # UniqueId(f, {d.id : d \in ToSet(docs)})
<1> TAKE f \in ToSet(Paths)
<1> TAKE docs \in Seq(DocTypes)
<1> HAVE Len(docs) < Len(Names[f])
<1> DEFINE names == Names[f]
           used == {d.id : d \in ToSet(docs)}
           free == {n \in DOMAIN names : names[n] \notin used}
<1>1. /\ names \in Seq(ToSet(names)) /\ Len(names) \in Nat /\ DOMAIN names = 1..Len(names)
      /\ \A m, n \in 1..Len(names) : names[m] = names[n] => m = n
      /\ Len(docs) \in Nat /\ Len(docs) < Len(names)
  BY NamesAre
<1>2. \A id : id \in used <=> \E m \in 1..Len(docs) : docs[m].id = id
  <2>1. \A d : d \in ToSet(docs) <=> \E m \in 1..Len(docs) : d = docs[m]
    BY ToSetIs
  <2>2. QED
    BY <2>1
<1> HIDE DEF names, used
<1>3. free # {}
  <2> SUFFICES ASSUME free = {}
               PROVE  FALSE
    OBVIOUS
  <2> DEFINE held == [n \in 1..Len(names) |-> CHOOSE m \in 1..Len(docs) : docs[m].id = names[n]]
  <2>1. \A n \in 1..Len(names) : \E m \in 1..Len(docs) : docs[m].id = names[n]
    BY <1>1, <1>2
  <2>2. \A n \in 1..Len(names) : held[n] \in 1..Len(docs) /\ docs[held[n]].id = names[n]
    BY <2>1
  <2>3. held \in [1..Len(names) -> 1..Len(docs)]
    BY <2>2
  <2> DEFINE S == 1..Len(names)
             T == 1..Len(docs)
  <2>4. IsFiniteSet(S) /\ Cardinality(S) = Len(names)
    <3>1. 1 \in Int /\ Len(names) \in Int /\ Len(names) >= 0
      BY <1>1
    <3>2. IsFiniteSet(S) /\ Cardinality(S) = IF 1 > Len(names) THEN 0 ELSE Len(names) - 1 + 1
      BY <3>1, FS_Interval
    <3>3. QED
      BY <3>1, <3>2
  <2>5. IsFiniteSet(T) /\ Cardinality(T) = Len(docs)
    <3>1. 1 \in Int /\ Len(docs) \in Int /\ Len(docs) >= 0
      BY <1>1
    <3>2. IsFiniteSet(T) /\ Cardinality(T) = IF 1 > Len(docs) THEN 0 ELSE Len(docs) - 1 + 1
      BY <3>1, FS_Interval
    <3>3. QED
      BY <3>1, <3>2
  <2>6. Cardinality(T) < Cardinality(S)
    BY <1>1, <2>4, <2>5
  <2>7. held \in [S -> T]
    BY <2>3
  <2>8. \A n \in S : n \in 1..Len(names)
    OBVIOUS
  <2> HIDE DEF held, S, T
  <2>9. PICK m, n \in S : m # n /\ held[m] = held[n]
    BY <2>4, <2>5, <2>6, <2>7, FS_PigeonHole
  <2>10. QED
    BY <1>1, <2>2, <2>9, <2>8
<1>4. free \subseteq Nat
  BY <1>1
<1>5. Min(free) \in free
  <2> HIDE DEF free
  <2>1. QED
    BY <1>3, <1>4, LeastOf
<1>6. UniqueId(f, used) = names[Min(free)]
  BY DEF UniqueId, names
<1>7. Min(free) \in 1..Len(names) /\ names[Min(free)] \notin used
  BY <1>1, <1>5
<1> HIDE DEF free
<1>8. names[Min(free)] \in ToSet(names)
  BY <1>1, <1>7, ToSetIs
<1>9. QED
  BY <1>2, <1>6, <1>7, <1>8 DEF names, used

\* The row of each chunk.
LEMMA RowsOfIs ==
    \A doc, tags, row :
        row \in RowsOf(doc, tags) <=>
            \E n \in DOMAIN ChunksOf[strategy][doc.text] :
                row = [doc |-> doc.id, index |-> n, text |-> doc.text, tags |-> tags]
BY DEF RowsOf

\* The files of a load.
LEMMA FilesAre ==
    \A wanted : disk \in [ToSet(Paths) -> Texts \cup {Absent}] =>
        /\ Among(Present, wanted) \in Seq(ToSet(Paths))
        /\ Len(Among(Present, wanted)) <= Len(Paths)
<1> TAKE wanted
<1> DEFINE all == Paths
           F == ToSet(Paths)
           present == {f \in F : disk[f] # Absent}
<1>1. all \in Seq(F)
  BY NamesAre
<1> HIDE DEF all, F, present
<1>2. Among(all, present) \in Seq(F) /\ Len(Among(all, present)) <= Len(all)
  BY <1>1, AmongPicks
<1>3. Present = Among(all, present)
  BY DEF Present, all, F, present
<1> DEFINE here == Present
<1>4. here \in Seq(F) /\ Len(here) <= Len(all)
  BY <1>2, <1>3
<1> HIDE DEF here
<1>5. Among(here, wanted) \in Seq(F) /\ Len(Among(here, wanted)) <= Len(here)
  BY <1>4, AmongPicks
<1>6. Len(Among(here, wanted)) \in Nat /\ Len(here) \in Nat /\ Len(all) \in Nat
  BY <1>1, <1>4, <1>5
<1>7. QED
  BY <1>4, <1>5, <1>6 DEF here, all, F

\* What a worker is doing, by where it is.
LEMMA JobIs ==
    IngestTypeOK => \A w \in Workers :
        /\ job[w] \in Jobs
        /\ job[w].at \in {"scan", "embed"} => job[w] \in Loading
        /\ job[w].at = "batch" => job[w] \in Listing
        /\ job[w].at = "single" => job[w] \in Adding
<1> HAVE IngestTypeOK
<1> TAKE w \in Workers
<1> DEFINE state == job[w]
<1>1. state \in Jobs
  BY DEF IngestTypeOK
<1> HIDE DEF state
<1>2. CASE state = Idle
  BY <1>2 DEF Idle, Jobs, state
<1>3. CASE state \in Loading
  BY <1>3 DEF Loading, Jobs, state
<1>4. CASE state \in Listing
  BY <1>4 DEF Listing, Jobs, state
<1>5. CASE state \in Adding
  BY <1>5 DEF Adding, Jobs, state
<1>6. QED
  BY <1>1, <1>2, <1>3, <1>4, <1>5 DEF Jobs

\* The rows and what is said of them stay as they are.
LEMMA RowsStay ==
    RowsHold /\ AllRowsAdded /\ CorpusIsOneLoad /\ UNCHANGED <<strategy, rows, uploads, indexed, mixed>> =>
        RowsHold' /\ AllRowsAdded' /\ CorpusIsOneLoad' /\ CorpusRows' = CorpusRows
<1> HAVE RowsHold /\ AllRowsAdded /\ CorpusIsOneLoad /\ UNCHANGED <<strategy, rows, uploads, indexed, mixed>>
<1>1. /\ strategy' = strategy /\ rows' = rows /\ uploads' = uploads
      /\ indexed' = indexed /\ mixed' = mixed
  OBVIOUS
<1>2. RowsHold'
  BY <1>1 DEF RowsHold
<1>3. AllRowsAdded'
  BY <1>1 DEF AllRowsAdded
<1>4. CorpusRows' = CorpusRows
  BY <1>1 DEF CorpusRows
<1>5. \A d, tags : RowsOf(d, tags)' = RowsOf(d, tags)
  BY <1>1 DEF RowsOf
<1>6. CorpusIsOneLoad'
  BY <1>1, <1>4 DEF CorpusIsOneLoad, RowsOf
<1>7. QED
  BY <1>2, <1>3, <1>4, <1>6

\* A step that only changes what one worker is doing.
LEMMA ContinueKeepsInv ==
    \A w \in Workers : \A state \in Jobs :
        /\ IngestInv
        /\ Continue(w, state)
        /\ state.at \in {"scan", "embed"} => LoadHolds(state, CorpusRows)
        /\ UNCHANGED <<strategy, disk, rows, uploads, indexed, mixed>>
        => IngestInv'
<1> TAKE w \in Workers
<1> TAKE state \in Jobs
<1> HAVE /\ IngestInv
         /\ Continue(w, state)
         /\ state.at \in {"scan", "embed"} => LoadHolds(state, CorpusRows)
         /\ UNCHANGED <<strategy, disk, rows, uploads, indexed, mixed>>
<1>1. /\ RowsHold' /\ AllRowsAdded' /\ CorpusIsOneLoad' /\ CorpusRows' = CorpusRows
  BY RowsStay DEF IngestInv
<1>2. job \in [Workers -> Jobs]
  BY DEF IngestInv, IngestTypeOK
<1>3. /\ job' \in [Workers -> Jobs] /\ job'[w] = state
      /\ \A v \in Workers : v # w => job'[v] = job[v]
  BY <1>2 DEF Continue
<1>4. IngestTypeOK'
  BY <1>3 DEF IngestInv, IngestTypeOK
<1>5. LoadsHold'
  <2> SUFFICES ASSUME NEW v \in Workers, job'[v].at \in {"scan", "embed"}
               PROVE  LoadHolds(job'[v], CorpusRows)
    BY <1>1 DEF LoadsHold, LoadHolds
  <2>1. CASE v = w
    BY <1>3, <2>1
  <2>2. CASE v # w
    BY <1>3, <2>2 DEF IngestInv, LoadsHold
  <2>3. QED
    BY <2>1, <2>2
<1>6. QED
  BY <1>1, <1>4, <1>5 DEF IngestInv

\* A worker that is done.
LEMMA IdleIsJob == Idle \in Jobs /\ Idle.at \notin {"scan", "embed"}
BY DEF Idle, Jobs

\* A call fails.
LEMMA FailKeepsInv == \A w \in Workers : IngestInv /\ Fail(w) => IngestInv'
<1> TAKE w \in Workers
<1> HAVE IngestInv /\ Fail(w)
<1>1. Continue(w, Idle) /\ UNCHANGED <<strategy, disk, rows, uploads, indexed, mixed>>
  BY DEF Fail
<1>2. QED
  BY <1>1, IdleIsJob, ContinueKeepsInv

\* A batch is done.
LEMMA BatchReturnsKeepsInv == \A w \in Workers : IngestInv /\ BatchReturns(w) => IngestInv'
<1> TAKE w \in Workers
<1> HAVE IngestInv /\ BatchReturns(w)
<1>1. Continue(w, Idle) /\ UNCHANGED <<strategy, disk, rows, uploads, indexed, mixed>>
  BY DEF BatchReturns
<1>2. QED
  BY <1>1, IdleIsJob, ContinueKeepsInv

\* A batch begins.
LEMMA ListFilesKeepsInv ==
    \A w \in Workers : \A tags \in Tags : IngestInv /\ ListFiles(w, tags) => IngestInv'
<1> TAKE w \in Workers
<1> TAKE tags \in Tags
<1> HAVE IngestInv /\ ListFiles(w, tags)
<1> DEFINE files == Among(Present, Listed)
           state == [at |-> "batch", files |-> files, tags |-> tags]
<1>1. Continue(w, state) /\ UNCHANGED <<strategy, disk, rows, uploads, indexed, mixed>>
  BY DEF ListFiles
<1>2. files \in Seq(ToSet(Paths))
  BY FilesAre DEF IngestInv, IngestTypeOK
<1> HIDE DEF files
<1>3. state \in Listing /\ state.at = "batch"
  BY <1>2 DEF Listing
<1> HIDE DEF state
<1>4. state \in Jobs
  BY <1>3 DEF Jobs
<1>5. QED
  BY <1>1, <1>3, <1>4, ContinueKeepsInv

\* A file of a batch is read, skipped or ends it.
LEMMA ReadListedKeepsInv == \A w \in Workers : IngestInv /\ ReadListed(w) => IngestInv'
<1> TAKE w \in Workers
<1> HAVE IngestInv /\ ReadListed(w)
<1> DEFINE old == job[w]
           f == Head(old.files)
           rest == [old EXCEPT !.files = Tail(@)]
           single == [at |-> "single", files |-> Tail(old.files), tags |-> old.tags, text |-> disk[f]]
<1>1. old \in Listing /\ old.files # << >>
  BY JobIs DEF ReadListed, IngestInv
<1>2. /\ old = [at |-> "batch", files |-> old.files, tags |-> old.tags]
      /\ old.files \in Seq(ToSet(Paths)) /\ old.tags \in Tags
  BY <1>1 DEF Listing
<1>3. f \in ToSet(Paths) /\ Tail(old.files) \in Seq(ToSet(Paths))
  <2> DEFINE files == old.files
             F == ToSet(Paths)
  <2>1. files \in Seq(F) /\ files # << >>
    BY <1>1, <1>2
  <2> HIDE DEF files, F
  <2>2. Head(files) \in F /\ Tail(files) \in Seq(F)
    BY <2>1
  <2>3. QED
    BY <2>2 DEF files, F
<1>4. disk[f] \in Texts \cup {Absent}
  BY <1>3 DEF IngestInv, IngestTypeOK
<1>5. rest = [at |-> "batch", files |-> Tail(old.files), tags |-> old.tags]
  <2> DEFINE files == old.files
             tags == old.tags
  <2>1. old = [at |-> "batch", files |-> files, tags |-> tags]
    BY <1>2
  <2>2. old.files = files
    OBVIOUS
  <2> HIDE DEF old, files, tags
  <2>3. rest = [old EXCEPT !.files = Tail(files)]
    BY <2>2
  <2> HIDE DEF rest
  <2>4. rest = [at |-> "batch", files |-> Tail(files), tags |-> tags]
    BY <2>1, <2>3
  <2>5. QED
    BY <2>4 DEF files, tags
<1>6. /\ \/ Continue(w, Idle)
         \/ Continue(w, rest)
         \/ disk[f] # Absent /\ Continue(w, single)
      /\ UNCHANGED <<strategy, disk, rows, uploads, indexed, mixed>>
  BY DEF ReadListed
<1> HIDE DEF rest, f
<1>7. rest \in Jobs /\ rest.at = "batch"
  BY <1>2, <1>3, <1>5 DEF Jobs, Listing
<1>8. disk[f] # Absent => single \in Jobs /\ single.at = "single"
  BY <1>2, <1>3, <1>4 DEF Jobs, Adding
<1> HIDE DEF single, old
<1>9. CASE Continue(w, Idle)
  BY <1>6, <1>9, IdleIsJob, ContinueKeepsInv
<1>10. CASE Continue(w, rest)
  BY <1>6, <1>7, <1>10, ContinueKeepsInv
<1>11. CASE disk[f] # Absent /\ Continue(w, single)
  BY <1>6, <1>8, <1>11, ContinueKeepsInv
<1>12. QED
  BY <1>6, <1>9, <1>10, <1>11

\* A load's record, by its fields.
LEMMA LoadingIs ==
    \A state \in Loading :
        /\ state.files \in Seq(ToSet(Paths)) /\ state.docs \in Seq(DocTypes) /\ state.tags \in Tags
        /\ state.keeps \in BOOLEAN /\ state.joined \in BOOLEAN
BY DEF Loading

\* A load goes on: the file read is named apart from those before it.
LEMMA ScanKeepsInv == \A w \in Workers : IngestInv /\ Scan(w) => IngestInv'
<1> TAKE w \in Workers
<1> HAVE IngestInv /\ Scan(w)
<1> DEFINE old == job[w]
           files == old.files
           docs == old.docs
           F == ToSet(Paths)
           f == Head(files)
           used == {d.id : d \in ToSet(docs)}
           doc == [id |-> UniqueId(f, used), text |-> disk[f]]
           next == [old EXCEPT !.files = Tail(@), !.docs = Append(@, doc)]
           skip == [old EXCEPT !.files = Tail(@)]
<1>1. old \in Loading /\ old.at = "scan" /\ files # << >>
  BY JobIs DEF Scan, IngestInv
<1>2. /\ files \in Seq(F) /\ docs \in Seq(DocTypes) /\ old.tags \in Tags
      /\ old.keeps \in BOOLEAN /\ old.joined \in BOOLEAN
  BY <1>1, LoadingIs
<1>3. LoadHolds(old, CorpusRows)
  BY <1>1 DEF IngestInv, LoadsHold
<1>4. /\ \/ Continue(w, Idle)
         \/ Continue(w, skip)
         \/ disk[f] # Absent /\ Continue(w, next)
      /\ UNCHANGED <<strategy, disk, rows, uploads, indexed, mixed>>
  BY DEF Scan
<1>5. CASE Continue(w, Idle)
  BY <1>4, <1>5, IdleIsJob, ContinueKeepsInv
<1>6. CASE disk[f] # Absent /\ Continue(w, next)
  <2>1. f \in F /\ Tail(files) \in Seq(F) /\ Len(files) \in Nat \ {0} /\ Len(Tail(files)) = Len(files) - 1
    <3> HIDE DEF files, F
    <3>1. QED
      BY <1>1, <1>2
  <2>2. disk[f] \in Texts
    <3>1. disk \in [F -> Texts \cup {Absent}]
      BY DEF IngestInv, IngestTypeOK
    <3> HIDE DEF f, F
    <3>2. QED
      BY <1>6, <2>1, <3>1
  <2>3. /\ Len(docs) \in Nat /\ Len(docs) + Len(files) <= Len(Paths) /\ Len(Paths) \in Nat
        /\ \A m, n \in 1..Len(docs) : docs[m].id = docs[n].id => m = n
        /\ (~old.keeps /\ ~old.joined => CorpusRows = {})
    <3>1. Len(Paths) \in Nat
      BY NamesAre
    <3>2. Len(docs) \in Nat
      BY <1>2
    <3>3. QED
      BY <1>3, <3>1, <3>2 DEF LoadHolds
  <2>4. Len(Names[f]) \in Nat /\ Len(Names[f]) >= Len(Paths) /\ ToSet(Names[f]) \subseteq FileIds
    <3> HIDE DEF f
    <3>1. QED
      BY <2>1, NamesAre
  <2>5. Len(docs) < Len(Names[f])
    <3> HIDE DEF f, files, docs, old
    <3>1. QED
      BY <2>1, <2>3, <2>4
  <2>6. UniqueId(f, used) \in ToSet(Names[f]) /\ \A m \in 1..Len(docs) : docs[m].id # UniqueId(f, used)
    <3> HIDE DEF f, docs, F
    <3>1. QED
      BY <1>2, <2>1, <2>5, UniqueIdIsNew DEF F
  <2>7. doc \in DocTypes /\ \A m \in 1..Len(docs) : docs[m].id # doc.id
    <3> DEFINE id == UniqueId(f, used)
               text == disk[f]
    <3>1. id \in FileIds /\ text \in Texts /\ \A m \in 1..Len(docs) : docs[m].id # id
      BY <2>2, <2>4, <2>6
    <3>2. doc = [id |-> id, text |-> text]
      OBVIOUS
    <3> HIDE DEF id, text, doc
    <3>3. QED
      BY <3>1, <3>2 DEF DocTypes
  <2> DEFINE tail == Tail(files)
             longer == Append(docs, doc)
  <2>8. next = [at |-> "scan", files |-> tail, docs |-> longer, tags |-> old.tags, keeps |-> old.keeps, joined |-> old.joined]
    <3> DEFINE tags == old.tags
               keeps == old.keeps
               joined == old.joined
    <3> HIDE DEF doc
    <3>1. old = [at |-> "scan", files |-> files, docs |-> docs, tags |-> tags, keeps |-> keeps, joined |-> joined]
      BY <1>1 DEF Loading
    <3>2. next = [old EXCEPT !.files = tail, !.docs = longer]
      OBVIOUS
    <3> HIDE DEF old, files, docs, tags, keeps, joined, next, tail, longer
    <3>3. next = [at |-> "scan", files |-> tail, docs |-> longer, tags |-> tags, keeps |-> keeps, joined |-> joined]
      BY <3>1, <3>2
    <3>4. QED
      BY <3>3 DEF tags, keeps, joined
  <2> HIDE DEF old, files, docs, doc, next, f, F, used
  <2>9. /\ longer \in Seq(DocTypes) /\ Len(longer) = Len(docs) + 1
        /\ \A m \in 1..Len(docs) : longer[m] = docs[m]
        /\ longer[Len(docs) + 1] = doc
    BY <1>2, <2>7
  <2>10. tail \in Seq(ToSet(Paths))
    BY <2>1 DEF F
  <2>11. Len(longer) + Len(tail) <= Len(Paths)
    BY <2>1, <2>3, <2>9
  <2>12. \A m, n \in 1..Len(longer) : longer[m].id = longer[n].id => m = n
    <3> TAKE m, n \in 1..Len(longer)
    <3> HAVE longer[m].id = longer[n].id
    <3>1. m \in 1..Len(docs) \/ m = Len(docs) + 1
      BY <2>3, <2>9
    <3>2. n \in 1..Len(docs) \/ n = Len(docs) + 1
      BY <2>3, <2>9
    <3>3. QED
      BY <2>3, <2>7, <2>9, <3>1, <3>2
  <2> HIDE DEF longer, tail
  <2>13. next \in Loading
    BY <1>2, <2>8, <2>9, <2>10 DEF Loading
  <2>14. next.docs = longer /\ next.files = tail /\ next.keeps = old.keeps /\ next.joined = old.joined
    BY <2>8
  <2>15. LoadHolds(next, CorpusRows)
    <3>1. Len(next.docs) + Len(next.files) <= Len(Paths)
      BY <2>11, <2>14
    <3>2. \A m, n \in 1..Len(next.docs) : next.docs[m].id = next.docs[n].id => m = n
      BY <2>12, <2>14
    <3>3. ~next.keeps /\ ~next.joined => CorpusRows = {}
      <4>1. ~old.keeps /\ ~old.joined => CorpusRows = {}
        BY <2>3
      <4>2. next.keeps = old.keeps /\ next.joined = old.joined
        BY <2>14
      <4>3. QED
        BY <4>1, <4>2, Zenon
    <3>4. QED
      BY <3>1, <3>2, <3>3 DEF LoadHolds
  <2>16. next \in Jobs
    BY <2>13 DEF Jobs
  <2>17. QED
    BY <1>4, <1>6, <2>15, <2>16, ContinueKeepsInv
<1>7. CASE Continue(w, skip)
  <2> DEFINE tail == Tail(files)
             tags == old.tags
             keeps == old.keeps
             joined == old.joined
  <2>1. tail \in Seq(F) /\ Len(files) \in Nat \ {0} /\ Len(tail) = Len(files) - 1
    <3> HIDE DEF files, F
    <3>1. QED
      BY <1>1, <1>2
  <2>2. skip = [at |-> "scan", files |-> tail, docs |-> docs, tags |-> tags, keeps |-> keeps, joined |-> joined]
    <3>1. old = [at |-> "scan", files |-> files, docs |-> docs, tags |-> tags, keeps |-> keeps, joined |-> joined]
      BY <1>1 DEF Loading
    <3>2. skip = [old EXCEPT !.files = tail]
      OBVIOUS
    <3> HIDE DEF old, files, docs, tags, keeps, joined, skip, tail
    <3>3. QED
      BY <3>1, <3>2
  <2>3. docs \in Seq(DocTypes) /\ tags \in Tags /\ keeps \in BOOLEAN /\ joined \in BOOLEAN
    BY <1>2
  <2>4. /\ Len(docs) + Len(files) <= Len(Paths)
        /\ \A m, n \in 1..Len(docs) : docs[m].id = docs[n].id => m = n
        /\ ~keeps /\ ~joined => CorpusRows = {}
    BY <1>3 DEF LoadHolds
  <2>5. Len(Paths) \in Nat /\ Len(docs) \in Nat
    <3>1. Len(Paths) \in Nat
      BY NamesAre
    <3>2. QED
      BY <2>3, <3>1
  <2> HIDE DEF old, files, docs, tags, keeps, joined, skip, tail, F
  <2>6. skip \in Loading
    BY <2>1, <2>2, <2>3 DEF Loading, F
  <2>7. skip.docs = docs /\ skip.files = tail /\ skip.keeps = keeps /\ skip.joined = joined
    BY <2>2
  <2>8. Len(docs) + Len(tail) <= Len(Paths)
    BY <2>1, <2>4, <2>5
  <2>9. LoadHolds(skip, CorpusRows)
    <3>1. Len(skip.docs) + Len(skip.files) <= Len(Paths)
      BY <2>7, <2>8
    <3>2. \A m, n \in 1..Len(skip.docs) : skip.docs[m].id = skip.docs[n].id => m = n
      BY <2>4, <2>7
    <3>3. ~skip.keeps /\ ~skip.joined => CorpusRows = {}
      BY <2>4, <2>7, Zenon
    <3>4. QED
      BY <3>1, <3>2, <3>3 DEF LoadHolds
  <2>10. skip \in Jobs
    BY <2>6 DEF Jobs
  <2>11. QED
    BY <1>4, <1>7, <2>9, <2>10, ContinueKeepsInv
<1>8. QED
  BY <1>4, <1>5, <1>6, <1>7

\* A load is chunked, or ends.
LEMMA ChunkedKeepsInv == \A w \in Workers : IngestInv /\ Chunked(w) => IngestInv'
<1> TAKE w \in Workers
<1> HAVE IngestInv /\ Chunked(w)
<1> DEFINE old == job[w]
           next == [old EXCEPT !.at = "embed"]
<1>1. old \in Loading /\ old.at = "scan"
  BY JobIs DEF Chunked, IngestInv
<1>2. LoadHolds(old, CorpusRows)
  BY <1>1 DEF IngestInv, LoadsHold
<1>3. /\ Continue(w, Idle) \/ Continue(w, next)
      /\ UNCHANGED <<strategy, disk, rows, uploads, indexed, mixed>>
  BY DEF Chunked
<1> HIDE DEF old
<1>4. /\ next \in Loading
      /\ next.docs = old.docs /\ next.files = old.files /\ next.keeps = old.keeps /\ next.joined = old.joined
  BY <1>1 DEF Loading
<1> HIDE DEF next
<1>5. LoadHolds(next, CorpusRows) /\ next \in Jobs
  BY <1>2, <1>4 DEF LoadHolds, Jobs
<1>6. CASE Continue(w, Idle)
  BY <1>3, <1>6, IdleIsJob, ContinueKeepsInv
<1>7. CASE Continue(w, next)
  BY <1>3, <1>5, <1>7, ContinueKeepsInv
<1>8. QED
  BY <1>3, <1>6, <1>7

\* A file is edited.
LEMMA EditKeepsInv ==
    \A f \in ToSet(Paths) : \A text \in Texts \cup {Absent} : IngestInv /\ Edit(f, text) => IngestInv'
<1> TAKE f \in ToSet(Paths)
<1> TAKE text \in Texts \cup {Absent}
<1> HAVE IngestInv /\ Edit(f, text)
<1>1. /\ disk' = [disk EXCEPT ![f] = text] /\ disk \in [ToSet(Paths) -> Texts \cup {Absent}]
      /\ UNCHANGED <<strategy, rows, job, uploads, indexed, mixed>>
  BY DEF Edit, IngestInv, IngestTypeOK
<1>2. disk' \in [ToSet(Paths) -> Texts \cup {Absent}]
  BY <1>1
<1>3. IngestTypeOK'
  BY <1>1, <1>2 DEF IngestInv, IngestTypeOK
<1>4. RowsHold' /\ AllRowsAdded' /\ CorpusIsOneLoad' /\ CorpusRows' = CorpusRows
  BY <1>1, RowsStay DEF IngestInv
<1>5. LoadsHold'
  BY <1>1, <1>4 DEF IngestInv, LoadsHold, LoadHolds
<1>6. QED
  BY <1>3, <1>4, <1>5 DEF IngestInv

\* The collection is dropped, or not, and a load begins.
LEMMA ResetKeepsInv ==
    \A w \in Workers : \A reset \in BOOLEAN : \A tags \in Tags :
        IngestInv /\ Reset(w, reset, tags) => IngestInv'
<1> TAKE w \in Workers
<1> TAKE reset \in BOOLEAN
<1> TAKE tags \in Tags
<1> HAVE IngestInv /\ Reset(w, reset, tags)
<1> DEFINE files == Among(Present, Scanned)
           state == [at |-> "scan", files |-> files, docs |-> << >>, tags |-> tags,
                     keeps |-> ~reset, joined |-> FALSE]
<1>1. /\ Continue(w, state) /\ UNCHANGED <<strategy, disk, uploads>>
      /\ rows' = IF reset THEN {} ELSE rows
      /\ indexed' = IF reset THEN {} ELSE indexed
      /\ mixed' = (mixed /\ ~reset)
  BY DEF Reset
<1>2. files \in Seq(ToSet(Paths)) /\ Len(files) <= Len(Paths) /\ Len(files) \in Nat
  <2>1. files \in Seq(ToSet(Paths)) /\ Len(files) <= Len(Paths)
    BY FilesAre DEF IngestInv, IngestTypeOK
  <2>2. QED
    BY <2>1
<1> HIDE DEF files
<1>3. state \in Loading /\ state.docs = << >> /\ state.files = files /\ state.keeps = ~reset /\ state.joined = FALSE
  <2> DEFINE keeps == ~reset
             none == << >>
  <2>1. none \in Seq(DocTypes) /\ "scan" \in {"scan", "embed"}
    OBVIOUS
  <2>2. keeps \in BOOLEAN
    OBVIOUS
  <2> HIDE DEF keeps, none
  <2>3. state = [at |-> "scan", files |-> files, docs |-> none, tags |-> tags, keeps |-> keeps, joined |-> FALSE]
    BY DEF keeps, none
  <2> HIDE DEF state
  <2>4. state \in Loading /\ state.docs = none /\ state.files = files /\ state.keeps = keeps /\ state.joined = FALSE
    BY <1>2, <2>1, <2>2, <2>3 DEF Loading
  <2>5. QED
    BY <2>4 DEF keeps, none
<1> HIDE DEF state
<1>4. state \in Jobs
  BY <1>3 DEF Jobs
<1>5. ASSUME NEW corpus, reset => corpus = {}
      PROVE  LoadHolds(state, corpus)
  <2>1. Len(state.docs) + Len(state.files) <= Len(Paths)
    <3>1. Len(state.docs) = 0
      BY <1>3
    <3>2. Len(state.files) = Len(files)
      BY <1>3
    <3>3. QED
      BY <1>2, <3>1, <3>2
  <2>2. \A m, n \in 1..Len(state.docs) : state.docs[m].id = state.docs[n].id => m = n
    BY <1>3
  <2>3. ~state.keeps => reset
    BY <1>3
  <2>4. QED
    BY <1>5, <2>1, <2>2, <2>3 DEF LoadHolds
<1>6. CASE ~reset
  <2>1. UNCHANGED <<strategy, disk, rows, uploads, indexed, mixed>>
    <3>1. mixed \in BOOLEAN
      BY DEF IngestInv, IngestTypeOK
    <3>2. QED
      BY <1>1, <1>6, <3>1
  <2>2. LoadHolds(state, CorpusRows)
    BY <1>6, <1>5
  <2>3. QED
    BY <1>1, <1>4, <2>1, <2>2, ContinueKeepsInv
<1>7. CASE reset
  <2>1. rows' = {} /\ indexed' = {} /\ mixed' = FALSE
    BY <1>1, <1>7
  <2>2. RowsHold' /\ AllRowsAdded' /\ CorpusRows' = {}
    BY <2>1 DEF RowsHold, AllRowsAdded, CorpusRows
  <2>3. CorpusIsOneLoad'
    <3>1. \E t : t \in Tags
      BY DEF Tags
    <3>2. QED
      BY <2>1, <2>2, <3>1 DEF CorpusIsOneLoad
  <2>4. job \in [Workers -> Jobs]
    BY DEF IngestInv, IngestTypeOK
  <2>5. /\ job' \in [Workers -> Jobs] /\ job'[w] = state
        /\ \A v \in Workers : v # w => job'[v] = job[v]
    BY <1>1, <1>4, <2>4 DEF Continue
  <2>6. IngestTypeOK'
    BY <1>1, <2>1, <2>5 DEF IngestInv, IngestTypeOK
  <2>7. LoadsHold'
    <3> SUFFICES ASSUME NEW v \in Workers, job'[v].at \in {"scan", "embed"}
                 PROVE  LoadHolds(job'[v], {})
      BY <2>2 DEF LoadsHold, LoadHolds
    <3>1. CASE v = w
      <4>1. LoadHolds(state, {})
        BY <1>5
      <4>2. QED
        BY <2>5, <3>1, <4>1
    <3>2. CASE v # w
      BY <2>5, <3>2 DEF IngestInv, LoadsHold, LoadHolds
    <3>3. QED
      BY <3>1, <3>2
  <2>8. QED
    BY <2>2, <2>3, <2>6, <2>7 DEF IngestInv
<1>8. QED
  BY <1>6, <1>7

\* What is added: the rows of the documents that the store has no id of.
LEMMA AddRowsIs ==
    \A docs, tags : IngestTypeOK /\ tags \in Tags /\ docs \subseteq [id : Ids, text : Texts] /\ AddRows(docs, tags) =>
        /\ rows' \subseteq [doc : Ids, index : Nat, text : Texts, tags : Tags]
        /\ indexed' = indexed \cup docs /\ indexed' \subseteq [id : Ids, text : Texts]
        /\ rows \subseteq rows'
        /\ \A row \in rows' : row \in rows \/ \E d \in docs : row \in RowsOf(d, tags)
        /\ \A d \in docs : (\A r \in rows : r.doc # d.id) => RowsOf(d, tags) \subseteq rows'
<1> TAKE docs, tags
<1> HAVE IngestTypeOK /\ tags \in Tags /\ docs \subseteq [id : Ids, text : Texts] /\ AddRows(docs, tags)
<1>1. /\ rows' = rows \cup {row \in UNION {RowsOf(d, tags) : d \in docs} : ~Known(row)}
      /\ indexed' = indexed \cup docs
  BY DEF AddRows
<1>2. /\ strategy \in Chunkers /\ rows \subseteq [doc : Ids, index : Nat, text : Texts, tags : Tags]
      /\ indexed \subseteq [id : Ids, text : Texts]
  BY DEF IngestTypeOK
<1>3. ASSUME NEW d \in docs, NEW row \in RowsOf(d, tags)
      PROVE  row \in [doc : Ids, index : Nat, text : Texts, tags : Tags] /\ row.doc = d.id
  <2>1. d.id \in Ids /\ d.text \in Texts
    OBVIOUS
  <2>2. PICK n \in DOMAIN ChunksOf[strategy][d.text] :
            row = [doc |-> d.id, index |-> n, text |-> d.text, tags |-> tags]
    BY RowsOfIs
  <2>3. n \in Nat
    BY <1>2, <2>1, ChunksOfHold
  <2>4. QED
    BY <2>1, <2>2, <2>3
<1>4. rows' \subseteq [doc : Ids, index : Nat, text : Texts, tags : Tags]
  BY <1>1, <1>2, <1>3
<1>5. \A row \in rows' : row \in rows \/ \E d \in docs : row \in RowsOf(d, tags)
  BY <1>1
<1>6. ASSUME NEW d \in docs, \A r \in rows : r.doc # d.id, NEW row \in RowsOf(d, tags)
      PROVE  row \in rows'
  <2>1. ~Known(row)
    BY <1>3, <1>6 DEF Known
  <2>2. QED
    BY <1>1, <2>1
<1>7. QED
  BY <1>1, <1>2, <1>4, <1>5, <1>6

\* Documents that are new to the store: what is added has its chunks, and all of them.
LEMMA AddRowsHolds ==
    \A docs, tags :
        /\ IngestInv /\ tags \in Tags /\ docs \subseteq [id : Ids, text : Texts] /\ AddRows(docs, tags)
        /\ strategy' = strategy /\ uploads' \in Nat /\ uploads <= uploads'
        /\ \A d \in docs : IsUpload(d.id) => \E n \in 1..uploads' : d.id = UploadIds[n]
        /\ ~mixed' => ~mixed /\ \A d \in docs : \A r \in rows : r.doc # d.id
        => RowsHold' /\ AllRowsAdded'
<1> TAKE docs, tags
<1> HAVE /\ IngestInv /\ tags \in Tags /\ docs \subseteq [id : Ids, text : Texts] /\ AddRows(docs, tags)
         /\ strategy' = strategy /\ uploads' \in Nat /\ uploads <= uploads'
         /\ \A d \in docs : IsUpload(d.id) => \E n \in 1..uploads' : d.id = UploadIds[n]
         /\ ~mixed' => ~mixed /\ \A d \in docs : \A r \in rows : r.doc # d.id
<1>1. IngestTypeOK /\ RowsHold /\ AllRowsAdded
  BY DEF IngestInv
<1>2. /\ indexed' = indexed \cup docs /\ rows \subseteq rows'
      /\ \A row \in rows' : row \in rows \/ \E d \in docs : row \in RowsOf(d, tags)
      /\ \A d \in docs : (\A r \in rows : r.doc # d.id) => RowsOf(d, tags) \subseteq rows'
  BY <1>1, AddRowsIs
<1>3. uploads \in Nat /\ uploads' \in Nat /\ uploads <= uploads'
  BY <1>1, NamesAre DEF IngestTypeOK
<1>4. ASSUME NEW row \in rows'
      PROVE  /\ row.index \in DOMAIN ChunksOf[strategy][row.text]
             /\ IsUpload(row.doc) => \E n \in 1..uploads' : row.doc = UploadIds[n]
  <2>1. CASE row \in rows
    <3>1. row.index \in DOMAIN ChunksOf[strategy][row.text]
      BY <1>1, <2>1 DEF RowsHold
    <3>2. IsUpload(row.doc) => \E n \in 1..uploads : row.doc = UploadIds[n]
      BY <1>1, <2>1 DEF RowsHold
    <3>3. \A n \in 1..uploads : n \in 1..uploads'
      BY <1>3
    <3>4. QED
      BY <3>1, <3>2, <3>3
  <2>2. ASSUME NEW d \in docs, row \in RowsOf(d, tags)
        PROVE  /\ row.index \in DOMAIN ChunksOf[strategy][row.text]
               /\ IsUpload(row.doc) => \E n \in 1..uploads' : row.doc = UploadIds[n]
    <3>1. PICK n \in DOMAIN ChunksOf[strategy][d.text] :
              row = [doc |-> d.id, index |-> n, text |-> d.text, tags |-> tags]
      BY <2>2, RowsOfIs
    <3>2. row.index = n /\ row.text = d.text /\ row.doc = d.id
      BY <3>1
    <3>3. QED
      BY <3>2
  <2>3. QED
    BY <1>2, <2>1, <2>2
<1>5. RowsHold'
  BY <1>4 DEF RowsHold, IsUpload
<1>6. ASSUME ~mixed', NEW doc \in indexed', NEW n \in DOMAIN ChunksOf[strategy][doc.text]
      PROVE  \E row \in rows' : row.doc = doc.id /\ row.text = doc.text /\ row.index = n
  <2>1. CASE doc \in indexed
    <3>1. \E row \in rows : row.doc = doc.id /\ row.text = doc.text /\ row.index = n
      BY <1>1, <1>6, <2>1 DEF AllRowsAdded
    <3>2. QED
      BY <1>2, <3>1
  <2>2. CASE doc \in docs
    <3> DEFINE row == [doc |-> doc.id, index |-> n, text |-> doc.text, tags |-> tags]
    <3>1. row \in RowsOf(doc, tags)
      BY RowsOfIs
    <3>2. row \in rows'
      BY <1>2, <1>6, <2>2, <3>1
    <3>3. row.doc = doc.id /\ row.text = doc.text /\ row.index = n
      OBVIOUS
    <3>4. QED
      BY <3>2, <3>3
  <2>3. QED
    BY <1>2, <2>1, <2>2
<1>7. AllRowsAdded'
  BY <1>6 DEF AllRowsAdded
<1>8. QED
  BY <1>5, <1>7

\* A load ends: its documents are new to a corpus that is not mixed.
LEMMA AddCorpusKeepsInv == \A w \in Workers : IngestInv /\ AddCorpus(w) => IngestInv'
<1> TAKE w \in Workers
<1> HAVE IngestInv /\ AddCorpus(w)
<1> DEFINE old == job[w]
           docs == ToSet(old.docs)
           tags == old.tags
<1>1. IngestTypeOK /\ LoadsHold /\ RowsHold /\ AllRowsAdded /\ CorpusIsOneLoad
  BY DEF IngestInv
<1>2. old \in Loading /\ old.at = "embed"
  BY <1>1, JobIs DEF AddCorpus
<1>3. LoadHolds(old, CorpusRows)
  BY <1>1, <1>2 DEF LoadsHold
<1>4. /\ tags \in Tags /\ old.joined \in BOOLEAN /\ old.keeps \in BOOLEAN
      /\ \A d \in docs : d \in DocTypes
  <2>1. old.docs \in Seq(DocTypes)
    BY <1>2, LoadingIs
  <2>2. \A d \in ToSet(old.docs) : d \in DocTypes
    <3> DEFINE s == old.docs
    <3> HIDE DEF s
    <3>1. s \in Seq(DocTypes)
      BY <2>1 DEF s
    <3>2. \A d \in ToSet(s) : d \in DocTypes
      BY <3>1, ToSetIsTyped
    <3>3. QED
      BY <3>2 DEF s
  <2>3. QED
    BY <1>2, <2>2, LoadingIs
<1>5. /\ AddRows(docs, tags)
      /\ mixed' = (mixed \/ old.joined \/ (old.keeps /\ CorpusRows # {}))
      /\ job' = Joining(w)
      /\ UNCHANGED <<strategy, disk, uploads>>
  BY DEF AddCorpus
<1> HIDE DEF docs, tags
<1>6. /\ docs \subseteq [id : Ids, text : Texts]
      /\ \A d \in docs : d.id \in FileIds /\ ~IsUpload(d.id)
  <2>1. \A d \in docs : d \in [id : Ids, text : Texts] /\ d.id \in FileIds
    BY <1>4 DEF DocTypes, Ids
  <2>2. QED
    BY <2>1, NamesAre
<1>7. uploads \in Nat /\ uploads' = uploads /\ mixed \in BOOLEAN
  BY <1>1, <1>5, NamesAre DEF IngestTypeOK
<1>8. ~mixed' => ~mixed /\ CorpusRows = {}
  BY <1>3, <1>4, <1>5, <1>7 DEF LoadHolds
<1>9. CorpusRows = {} => \A d \in docs : \A r \in rows : r.doc # d.id
  BY <1>6 DEF CorpusRows
<1>10. RowsHold' /\ AllRowsAdded'
  <2>1. /\ strategy' = strategy /\ uploads' \in Nat /\ uploads <= uploads'
        /\ \A d \in docs : IsUpload(d.id) => \E n \in 1..uploads' : d.id = UploadIds[n]
        /\ ~mixed' => ~mixed /\ \A d \in docs : \A r \in rows : r.doc # d.id
    BY <1>5, <1>6, <1>7, <1>8, <1>9
  <2>2. QED
    BY <1>4, <1>5, <1>6, <2>1, AddRowsHolds
<1>11. /\ rows' \subseteq [doc : Ids, index : Nat, text : Texts, tags : Tags]
       /\ indexed' = indexed \cup docs /\ indexed' \subseteq [id : Ids, text : Texts]
       /\ rows \subseteq rows'
       /\ \A row \in rows' : row \in rows \/ \E d \in docs : row \in RowsOf(d, tags)
       /\ \A d \in docs : (\A r \in rows : r.doc # d.id) => RowsOf(d, tags) \subseteq rows'
  BY <1>1, <1>4, <1>5, <1>6, AddRowsIs
<1>12. CorpusIsOneLoad'
  <2> SUFFICES ASSUME ~mixed'
               PROVE  CorpusRows' = UNION {RowsOf(d, tags) : d \in {d \in indexed' : ~IsUpload(d.id)}}
    <3>1. strategy' = strategy
      BY <1>5
    <3>2. QED
      BY <1>4, <3>1 DEF CorpusIsOneLoad, RowsOf, IsUpload
  <2>1. ~mixed /\ CorpusRows = {} /\ \A d \in docs : \A r \in rows : r.doc # d.id
    BY <1>8, <1>9
  <2>2. \A d \in indexed : ~IsUpload(d.id) => RowsOf(d, tags) = {}
    <3>1. PICK t \in Tags : CorpusRows = UNION {RowsOf(d, t) : d \in {d \in indexed : ~IsUpload(d.id)}}
      BY <1>1, <2>1 DEF CorpusIsOneLoad
    <3>2. \A d \in indexed : ~IsUpload(d.id) => RowsOf(d, t) = {}
      BY <2>1, <3>1
    <3>3. QED
      BY <3>2 DEF RowsOf
  <2>3. \A d \in docs : \A row \in RowsOf(d, tags) : row.doc = d.id
    BY RowsOfIs
  <2>4. CorpusRows' = {row \in rows' : ~IsUpload(row.doc)}
    BY DEF CorpusRows, IsUpload
  <2>5. \A row \in rows : row \notin CorpusRows'
    BY <2>1, <2>4 DEF CorpusRows
  <2>6. ASSUME NEW row \in CorpusRows'
        PROVE  row \in UNION {RowsOf(d, tags) : d \in {d \in indexed' : ~IsUpload(d.id)}}
    BY <1>6, <1>11, <2>4, <2>5, <2>6
  <2>7. ASSUME NEW d \in indexed', ~IsUpload(d.id), NEW row \in RowsOf(d, tags)
        PROVE  row \in CorpusRows'
    <3>1. d \in docs
      BY <1>11, <2>2, <2>7
    <3>2. row \in rows' /\ row.doc = d.id
      BY <1>11, <2>1, <2>3, <2>7, <3>1
    <3>3. QED
      BY <2>4, <2>7, <3>2
  <2>8. QED
    BY <2>6, <2>7
<1>13. job' \in [Workers -> Jobs] /\ \A v \in Workers :
         \/ job'[v] = Idle
         \/ job'[v].at \in {"scan", "embed"} /\ job[v].at \in {"scan", "embed"} /\ job'[v].joined
            /\ job'[v].docs = job[v].docs /\ job'[v].files = job[v].files
         \/ job'[v] = job[v] /\ job[v].at \notin {"scan", "embed"}
  <2> DEFINE after(v) == IF v = w THEN Idle
                         ELSE IF job[v].at \in {"scan", "embed"} THEN [job[v] EXCEPT !.joined = TRUE]
                         ELSE job[v]
  <2>1. job' = [v \in Workers |-> after(v)]
    BY <1>5 DEF Joining
  <2>2. ASSUME NEW v \in Workers
        PROVE  /\ after(v) \in Jobs
               /\ \/ after(v) = Idle
                  \/ after(v).at \in {"scan", "embed"} /\ job[v].at \in {"scan", "embed"} /\ after(v).joined
                     /\ after(v).docs = job[v].docs /\ after(v).files = job[v].files
                  \/ after(v) = job[v] /\ job[v].at \notin {"scan", "embed"}
    <3>1. CASE v = w
      BY <3>1, IdleIsJob
    <3>2. CASE v # w /\ job[v].at \in {"scan", "embed"}
      <4> DEFINE state == job[v]
                 next == [state EXCEPT !.joined = TRUE]
      <4>1. state \in Loading /\ after(v) = next
        BY <1>1, <3>2, JobIs
      <4> HIDE DEF state
      <4>2. next \in Loading /\ next.joined = TRUE /\ next.docs = state.docs /\ next.files = state.files
        BY <4>1 DEF Loading
      <4>3. next.at = state.at
        BY <4>1 DEF Loading
      <4> HIDE DEF next, after
      <4>4. QED
        BY <3>2, <4>1, <4>2, <4>3 DEF Jobs, state
    <3>3. CASE v # w /\ job[v].at \notin {"scan", "embed"}
      BY <1>1, <3>3, JobIs
    <3>4. QED
      BY <3>1, <3>2, <3>3
  <2> HIDE DEF after
  <2>3. \A v \in Workers : job'[v] = after(v)
    BY <2>1
  <2>4. job' \in [Workers -> Jobs]
    BY <2>1, <2>2
  <2>5. QED
    BY <2>2, <2>3, <2>4
<1>14. IngestTypeOK'
  <2>1. mixed' \in BOOLEAN
    BY <1>5
  <2>2. /\ strategy' \in Chunkers /\ disk' \in [ToSet(Paths) -> Texts \cup {Absent}]
        /\ uploads' \in 0..Len(UploadIds)
    BY <1>1, <1>5 DEF IngestTypeOK
  <2>3. QED
    BY <1>11, <1>13, <2>1, <2>2 DEF IngestTypeOK
<1>15. LoadsHold'
  <2> SUFFICES ASSUME NEW v \in Workers, job'[v].at \in {"scan", "embed"}
               PROVE  LoadHolds(job'[v], CorpusRows')
    BY DEF LoadsHold, LoadHolds
  <2>1. /\ job[v].at \in {"scan", "embed"} /\ job'[v].joined
        /\ job'[v].docs = job[v].docs /\ job'[v].files = job[v].files
    BY <1>13, IdleIsJob
  <2>2. LoadHolds(job[v], CorpusRows)
    BY <1>1, <2>1 DEF LoadsHold
  <2>3. QED
    BY <2>1, <2>2 DEF LoadHolds
<1>16. QED
  BY <1>10, <1>12, <1>14, <1>15 DEF IngestInv

\* A document is added under an id that no row has.
LEMMA IngestSingleKeepsInv == \A w \in Workers : IngestInv /\ IngestSingle(w) => IngestInv'
<1> TAKE w \in Workers
<1> HAVE IngestInv /\ IngestSingle(w)
<1> DEFINE old == job[w]
           id == UploadIds[uploads + 1]
           doc == [id |-> id, text |-> old.text]
           tags == old.tags
           rest == [at |-> "batch", files |-> old.files, tags |-> tags]
<1>1. IngestTypeOK /\ LoadsHold /\ RowsHold /\ AllRowsAdded /\ CorpusIsOneLoad
  BY DEF IngestInv
<1>2. old \in Adding
  BY <1>1, JobIs DEF IngestSingle
<1>3. old.text \in Texts /\ tags \in Tags /\ old.files \in Seq(ToSet(Paths))
  BY <1>2 DEF Adding
<1>4. uploads < Len(UploadIds) /\ uploads \in 0..Len(UploadIds) /\ Len(UploadIds) \in Nat
  <2>1. Len(UploadIds) \in Nat
    BY NamesAre
  <2>2. uploads < Len(UploadIds) /\ uploads \in 0..Len(UploadIds)
    BY <1>1 DEF IngestSingle, IngestTypeOK
  <2>3. QED
    BY <2>1, <2>2
<1>5. /\ \/ Continue(w, Idle) /\ UNCHANGED <<rows, indexed, uploads>>
         \/ AddRows({doc}, tags) /\ uploads' = uploads + 1 /\ Continue(w, rest)
      /\ UNCHANGED <<strategy, disk, mixed>>
  BY DEF IngestSingle
<1>6. CASE Continue(w, Idle) /\ UNCHANGED <<rows, indexed, uploads>>
  <2>1. UNCHANGED <<strategy, disk, rows, uploads, indexed, mixed>>
    BY <1>5, <1>6
  <2>2. QED
    BY <1>6, <2>1, IdleIsJob, ContinueKeepsInv
<1>7. CASE AddRows({doc}, tags) /\ uploads' = uploads + 1 /\ Continue(w, rest)
  <2>1. uploads + 1 \in 1..Len(UploadIds) /\ uploads' \in 0..Len(UploadIds) /\ uploads' \in Nat /\ uploads <= uploads'
    BY <1>4, <1>7
  <2>2. id \in ToSet(UploadIds) /\ id \in Ids /\ IsUpload(id)
    <3>1. id \in ToSet(UploadIds)
      BY <2>1, NamesAre, ToSetIs
    <3>2. QED
      BY <3>1 DEF Ids, IsUpload
  <2>3. \A r \in rows : r.doc # id
    <3> SUFFICES ASSUME NEW r \in rows, r.doc = id
                 PROVE  FALSE
      OBVIOUS
    <3>1. PICK n \in 1..uploads : id = UploadIds[n]
      BY <1>1, <2>2 DEF RowsHold
    <3>2. n \in 1..Len(UploadIds) /\ n # uploads + 1
      BY <1>4
    <3>3. QED
      BY <2>1, <3>1, <3>2, NamesAre
  <2> HIDE DEF id
  <2>4. doc.id = id /\ doc.text = old.text
    OBVIOUS
  <2>5. {doc} \subseteq [id : Ids, text : Texts]
    BY <1>3, <2>2
  <2> HIDE DEF doc, tags
  <2> DEFINE docs == {doc}
  <2>6. /\ strategy' = strategy
        /\ \A d \in docs : IsUpload(d.id) => \E n \in 1..uploads' : d.id = UploadIds[n]
        /\ ~mixed' => ~mixed /\ \A d \in docs : \A r \in rows : r.doc # d.id
    <3>1. uploads + 1 \in 1..uploads' /\ id = UploadIds[uploads + 1]
      BY <1>7, <2>1 DEF id
    <3>2. \A d \in docs : d.id = id
      BY <2>4
    <3> HIDE DEF docs
    <3>3. \A d \in docs : IsUpload(d.id) => \E n \in 1..uploads' : d.id = UploadIds[n]
      BY <3>1, <3>2
    <3>4. \A d \in docs : \A r \in rows : r.doc # d.id
      BY <2>3, <3>2
    <3>5. QED
      BY <1>5, <3>3, <3>4
  <2>7. docs \subseteq [id : Ids, text : Texts] /\ AddRows(docs, tags) /\ \A d \in docs : d.id = id
    BY <1>7, <2>4, <2>5
  <2> HIDE DEF docs
  <2>8. tags \in Tags
    BY <1>3 DEF tags
  <2>9. RowsHold' /\ AllRowsAdded'
    BY <2>1, <2>6, <2>7, <2>8, AddRowsHolds
  <2>10. /\ rows' \subseteq [doc : Ids, index : Nat, text : Texts, tags : Tags]
         /\ indexed' = indexed \cup docs /\ indexed' \subseteq [id : Ids, text : Texts]
         /\ rows \subseteq rows'
         /\ \A row \in rows' : row \in rows \/ \E d \in docs : row \in RowsOf(d, tags)
    BY <1>1, <2>7, <2>8, AddRowsIs
  <2>11. CorpusRows' = CorpusRows
    <3>1. \A d \in docs : \A row \in RowsOf(d, tags) : IsUpload(row.doc)
      BY <2>2, <2>7, RowsOfIs
    <3>2. CorpusRows' = {row \in rows' : ~IsUpload(row.doc)}
      BY DEF CorpusRows, IsUpload
    <3>3. \A row \in rows' : ~IsUpload(row.doc) => row \in rows
      BY <2>10, <3>1
    <3>4. QED
      BY <2>10, <3>2, <3>3 DEF CorpusRows
  <2>12. CorpusIsOneLoad'
    <3>1. {d \in indexed' : ~IsUpload(d.id)} = {d \in indexed : ~IsUpload(d.id)}
      BY <2>2, <2>7, <2>10
    <3>2. strategy' = strategy /\ mixed' = mixed
      BY <1>5
    <3>3. QED
      BY <1>1, <2>11, <3>1, <3>2 DEF CorpusIsOneLoad, RowsOf, IsUpload
  <2>13. rest \in Jobs /\ rest.at = "batch"
    BY <1>3 DEF Jobs, Listing, tags
  <2> HIDE DEF rest
  <2>14. /\ job' \in [Workers -> Jobs] /\ job'[w] = rest
         /\ \A v \in Workers : v # w => job'[v] = job[v]
    <3>1. job \in [Workers -> Jobs]
      BY <1>1 DEF IngestTypeOK
    <3>2. job' = [job EXCEPT ![w] = rest]
      BY <1>7 DEF Continue
    <3>3. QED
      BY <2>13, <3>1, <3>2
  <2>15. IngestTypeOK'
    BY <1>1, <1>5, <2>1, <2>10, <2>14 DEF IngestTypeOK
  <2>16. LoadsHold'
    <3> SUFFICES ASSUME NEW v \in Workers, job'[v].at \in {"scan", "embed"}
                 PROVE  LoadHolds(job'[v], CorpusRows)
      BY <2>11 DEF LoadsHold, LoadHolds
    <3>1. v # w
      BY <2>13, <2>14
    <3>2. QED
      BY <1>1, <2>14, <3>1 DEF LoadsHold
  <2>17. QED
    BY <2>9, <2>12, <2>15, <2>16 DEF IngestInv
<1>8. QED
  BY <1>5, <1>6, <1>7

\* The invariant holds at first.
LEMMA IngestInitInv == IngestInit => IngestInv
<1> HAVE IngestInit
<1>1. /\ strategy \in Chunkers /\ disk \in Disks /\ rows = {} /\ job = [w \in Workers |-> Idle]
      /\ uploads = 0 /\ indexed = {} /\ mixed = FALSE
  BY DEF IngestInit, Chunkers
<1>2. disk \in [ToSet(Paths) -> Texts \cup {Absent}]
  BY <1>1, IngestionAssumption
<1>3. job \in [Workers -> Jobs] /\ \A w \in Workers : job[w] = Idle
  BY <1>1, IdleIsJob
<1>4. 0 \in 0..Len(UploadIds)
  BY NamesAre
<1>5. IngestTypeOK
  BY <1>1, <1>2, <1>3, <1>4 DEF IngestTypeOK
<1>6. LoadsHold
  BY <1>3, IdleIsJob DEF LoadsHold
<1>7. RowsHold /\ AllRowsAdded
  BY <1>1 DEF RowsHold, AllRowsAdded
<1>8. CorpusIsOneLoad
  <2>1. \E tags : tags \in Tags
    BY DEF Tags
  <2>2. QED
    BY <1>1, <2>1 DEF CorpusIsOneLoad, CorpusRows
<1>9. QED
  BY <1>5, <1>6, <1>7, <1>8 DEF IngestInv

\* Every step keeps the invariant.
LEMMA IngestNextInv == IngestInv /\ [IngestNext]_ingestVars => IngestInv'
<1> HAVE IngestInv /\ [IngestNext]_ingestVars
<1>1. CASE UNCHANGED ingestVars
  <2>1. UNCHANGED <<strategy, disk, rows, job, uploads, indexed, mixed>>
    BY <1>1 DEF ingestVars
  <2>2. RowsHold' /\ AllRowsAdded' /\ CorpusIsOneLoad' /\ CorpusRows' = CorpusRows
    BY <2>1, RowsStay DEF IngestInv
  <2>3. IngestTypeOK'
    BY <2>1 DEF IngestInv, IngestTypeOK
  <2>4. LoadsHold'
    BY <2>1, <2>2 DEF IngestInv, LoadsHold, LoadHolds
  <2>5. QED
    BY <2>2, <2>3, <2>4 DEF IngestInv
<1>2. ASSUME NEW w \in Workers, NEW tags \in Tags, NEW reset \in BOOLEAN, Reset(w, reset, tags)
      PROVE  IngestInv'
  BY <1>2, ResetKeepsInv
<1>3. ASSUME NEW w \in Workers, NEW tags \in Tags, ListFiles(w, tags)
      PROVE  IngestInv'
  BY <1>3, ListFilesKeepsInv
<1>4. ASSUME NEW w \in Workers, Scan(w)
      PROVE  IngestInv'
  BY <1>4, ScanKeepsInv
<1>5. ASSUME NEW w \in Workers, Chunked(w)
      PROVE  IngestInv'
  BY <1>5, ChunkedKeepsInv
<1>6. ASSUME NEW w \in Workers, AddCorpus(w)
      PROVE  IngestInv'
  BY <1>6, AddCorpusKeepsInv
<1>7. ASSUME NEW w \in Workers, ReadListed(w)
      PROVE  IngestInv'
  BY <1>7, ReadListedKeepsInv
<1>8. ASSUME NEW w \in Workers, IngestSingle(w)
      PROVE  IngestInv'
  BY <1>8, IngestSingleKeepsInv
<1>9. ASSUME NEW w \in Workers, BatchReturns(w)
      PROVE  IngestInv'
  BY <1>9, BatchReturnsKeepsInv
<1>10. ASSUME NEW w \in Workers, Fail(w)
       PROVE  IngestInv'
  BY <1>10, FailKeepsInv
<1>11. ASSUME NEW f \in ToSet(Paths), NEW text \in Texts \cup {Absent}, Edit(f, text)
       PROVE  IngestInv'
  BY <1>11, EditKeepsInv
<1>12. QED
  BY <1>1, <1>2, <1>3, <1>4, <1>5, <1>6, <1>7, <1>8, <1>9, <1>10, <1>11 DEF IngestNext

\* The inductive invariant holds in every state of every run, for any number of
\* programs, files, texts, edits and calls.
THEOREM IngestInvariance == IngestSpec => []IngestInv
<1>1. IngestInit => IngestInv
  BY IngestInitInv
<1>2. IngestInv /\ [IngestNext]_ingestVars => IngestInv'
  BY IngestNextInv
<1>3. QED
  BY <1>1, <1>2, PTL DEF IngestSpec

\* The store, the disk and what each program has read keep their types, whatever
\* fails and whoever else writes (ingest, RAG.load_documents).
THEOREM IngestTypeCorrect == IngestSpec => []IngestTypeOK
<1>1. IngestInv => IngestTypeOK
  BY DEF IngestInv
<1>2. QED
  BY <1>1, IngestInvariance, PTL

\* The corpus part of the store is nothing or all of one load (ingest with reset).
THEOREM OneLoadTheorem == IngestSpec => []CorpusIsOneLoad
<1>1. IngestInv => CorpusIsOneLoad
  BY DEF IngestInv
<1>2. QED
  BY <1>1, IngestInvariance, PTL

\* Every row's chunk stands in its section, under the headings above it: of any
\* document, under any chunk_size and chunk_overlap.
THEOREM FaithfulTheorem == IngestSpec => []ChunksAreFaithful
<1>1. IngestInv => ChunksAreFaithful
  <2> SUFFICES ASSUME IngestInv, NEW row \in rows
               PROVE  row.index \in Faithful[strategy][row.text]
    BY DEF ChunksAreFaithful
  <2>1. strategy \in Chunkers /\ row.text \in Texts
    BY DEF IngestInv, IngestTypeOK
  <2>2. row.index \in DOMAIN ChunksOf[strategy][row.text]
    BY DEF IngestInv, RowsHold
  <2>3. QED
    BY <2>1, <2>2, AllFaithful
<1>2. QED
  BY <1>1, IngestInvariance, PTL

\* Every row's chunk, as it is stored, is longer than chunk_size by no more than its
\* headings, if it is prose, or the uncounted spaces, if it holds several glossary
\* entries.
THEOREM SizeTheorem == IngestSpec => []ChunksKeepToSize
<1>1. IngestInv => ChunksKeepToSize
  <2> SUFFICES ASSUME IngestInv, NEW row \in rows
               PROVE  row.index \in Sized[strategy][row.text]
    BY DEF ChunksKeepToSize
  <2>1. strategy \in Chunkers /\ row.text \in Texts
    BY DEF IngestInv, IngestTypeOK
  <2>2. row.index \in DOMAIN ChunksOf[strategy][row.text]
    BY DEF IngestInv, RowsHold
  <2>3. QED
    BY <2>1, <2>2, AllFaithful
<1>2. QED
  BY <1>1, IngestInvariance, PTL

\* Nothing an added document says is missing from the store, but the cells of its
\* tables that have no column of their own, and no file of a load has taken
\* another's id (_unique_id).
THEOREM IndexedTheorem == IngestSpec => []TextIsIndexed
<1>1. IngestInv => TextIsIndexed
  <2> HAVE IngestInv
  <2>1. ASSUME NEW w \in Workers, job[w].at = "embed"
        PROVE  \A m, n \in DOMAIN job[w].docs : job[w].docs[m].id = job[w].docs[n].id => m = n
    <3> DEFINE docs == job[w].docs
    <3>1. docs \in Seq(DocTypes)
      BY <2>1, JobIs, LoadingIs DEF IngestInv
    <3>2. \A m, n \in 1..Len(docs) : docs[m].id = docs[n].id => m = n
      BY <2>1 DEF IngestInv, LoadsHold, LoadHolds
    <3> HIDE DEF docs
    <3>3. \A m, n \in DOMAIN docs : docs[m].id = docs[n].id => m = n
      BY <3>1, <3>2
    <3>4. QED
      BY <3>3 DEF docs
  <2>2. ASSUME ~mixed, NEW doc \in indexed
        PROVE  LET own == {row \in rows : row.doc = doc.id /\ row.text = doc.text}
               IN  UNION {FoundIn[strategy][row.text][row.index] : row \in own} = Phrases[strategy][doc.text]
    <3> DEFINE own == {row \in rows : row.doc = doc.id /\ row.text = doc.text}
               found(row) == FoundIn[strategy][row.text][row.index]
    <3>1. strategy \in Chunkers /\ doc.text \in Texts
      BY DEF IngestInv, IngestTypeOK
    <3>2. \A row \in own : row.text = doc.text /\ row.index \in DOMAIN ChunksOf[strategy][doc.text]
      BY DEF IngestInv, RowsHold
    <3>3. \A n \in DOMAIN ChunksOf[strategy][doc.text] : \E row \in own : row.text = doc.text /\ row.index = n
      BY <2>2 DEF IngestInv, AllRowsAdded
    <3> HIDE DEF own
    <3>4. \A row \in own : found(row) \subseteq Phrases[strategy][doc.text]
      BY <3>1, <3>2, AllFound
    <3>5. \A phrase \in Phrases[strategy][doc.text] : \E row \in own : phrase \in found(row)
      <4> TAKE phrase \in Phrases[strategy][doc.text]
      <4>1. PICK n \in DOMAIN ChunksOf[strategy][doc.text] : phrase \in FoundIn[strategy][doc.text][n]
        BY <3>1, AllFound
      <4>2. QED
        BY <3>3, <4>1
    <3> HIDE DEF found
    <3>6. UNION {found(row) : row \in own} = Phrases[strategy][doc.text]
      BY <3>4, <3>5
    <3>7. QED
      BY <3>6 DEF found, own
  <2>3. QED
    BY <2>1, <2>2 DEF TextIsIndexed
<1>2. QED
  BY <1>1, IngestInvariance, PTL
=============================================================================
