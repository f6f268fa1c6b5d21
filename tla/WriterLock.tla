----------------------------- MODULE WriterLock -----------------------------
(***************************************************************************)
(* guard_single_writer (tools/rag/resolve/store_policy.py): the advisory   *)
(* lock file that RAG.ingest holds while it writes to the store.           *)
(*                                                                         *)
(* The guard is a sequence of system calls and each is an action, so that  *)
(* other writers, crashes and restarts come between any two of them: the   *)
(* O_EXCL open, the read of the recorded pid and the kill(pid, 0) of       *)
(* _holder_alive, the confirmation, the unlink and second open of a broken *)
(* lock, the write of the own pid, and the unlink on the way out.          *)
(*                                                                         *)
(* A lock file is its creator and the pid it holds, 0 while none has been  *)
(* written.  The pid is written through the creator's file descriptor, so  *)
(* it lands in the creator's file even if that is no longer at the path.   *)
(*                                                                         *)
(* A writer is a thread of a process.  A process that runs again may get   *)
(* any pid that no running process has.                                    *)
(***************************************************************************)
EXTENDS Naturals

CONSTANTS
    Procs,          \* the processes that open the store
    Writers,        \* the threads in them that write to it
    ProcOf,         \* the process of each thread
    Pids,           \* the pids the operating system hands out
    Interactive,    \* the processes that run on a terminal
    MaxCrashes,     \* bound: crashes of a process with a writer in the guard
    NoLock          \* nothing at the lock's path

ASSUME ProcOfAssumption ==
    /\ ProcOf \in [Writers -> Procs]
    /\ Interactive \subseteq Procs

ASSUME PidsAssumption == Pids \subseteq Nat \ {0}

ASSUME CrashAssumption == MaxCrashes \in Nat

Files == [creator : Writers, pid : Pids \cup {0}]

ASSUME NoLockAssumption == NoLock \notin Files

VARIABLES
    lock,       \* the file at the lock's path, or NoLock
    dirUsable,  \* the store's directory can be created and written
    pid,        \* the pid of each process, 0 while it does not run
    pc,         \* where each writer is in the guard
    seen,       \* the pid each writer has read and not yet probed, 0 if none
    crashes     \* the crashes so far

(***************************************************************************)
(* History variables, read by no action: the writers that are judging the   *)
(* very file that is at the path now, and whether, since the lock last had *)
(* no holder, one was overridden by a user or removed by a writer that had *)
(* judged another file.                                                    *)
(***************************************************************************)
VARIABLES judges, lost

vars == <<lock, dirUsable, pid, pc, seen, crashes, judges, lost>>

Steps == {"idle", "exists", "read", "ask", "stale", "override", "reopen",
          "opened", "writing", "unguarded", "conflict", "raised"}

\* The writers inside the guard that created a lock file and have not left yet.
HoldingSteps == {"opened", "writing"}
Holding(w) == pc[w] \in HoldingSteps

PidOf(w) == pid[ProcOf[w]]
Alive(w) == PidOf(w) # 0
RunningPids == {pid[p] : p \in Procs} \ {0}

TypeOK ==
    /\ lock \in Files \cup {NoLock}
    /\ dirUsable \in BOOLEAN
    /\ pid \in [Procs -> Pids \cup {0}]
    /\ pc \in [Writers -> Steps]
    /\ seen \in [Writers -> Pids \cup {0}]
    /\ crashes \in 0..MaxCrashes
    /\ judges \subseteq Writers
    /\ lost \in BOOLEAN

Init ==
    /\ lock = NoLock
    /\ dirUsable \in BOOLEAN
    /\ pid = [p \in Procs |-> 0]
    /\ pc = [w \in Writers |-> "idle"]
    /\ seen = [w \in Writers |-> 0]
    /\ crashes = 0
    /\ judges = {}
    /\ lost = FALSE

Goto(w, step) == pc' = [pc EXCEPT ![w] = step]

-----------------------------------------------------------------------------
(* Processes.                                                              *)

Start(p) ==
    /\ pid[p] = 0
    /\ \E n \in Pids \ RunningPids : pid' = [pid EXCEPT ![p] = n]
    /\ UNCHANGED <<lock, dirUsable, pc, seen, crashes, judges, lost>>

\* A process ends with no writer in the guard.
Exit(p) ==
    /\ pid[p] # 0
    /\ \A w \in Writers : ProcOf[w] = p => pc[w] = "idle"
    /\ pid' = [pid EXCEPT ![p] = 0]
    /\ UNCHANGED <<lock, dirUsable, pc, seen, crashes, judges, lost>>

\* Some writer still has the store when the writers in gone have left it.
OthersHold(gone) == \E w \in Writers \ gone : Holding(w)

\* A process is killed with a writer in the guard: no finally clause runs.
Crash(p) ==
    LET gone == {w \in Writers : ProcOf[w] = p}
    IN  /\ \E w \in gone : pc[w] # "idle"
        /\ crashes < MaxCrashes
        /\ crashes' = crashes + 1
        /\ pid' = [pid EXCEPT ![p] = 0]
        /\ pc' = [w \in Writers |-> IF w \in gone THEN "idle" ELSE pc[w]]
        /\ seen' = [w \in Writers |-> IF w \in gone THEN 0 ELSE seen[w]]
        /\ judges' = judges \ gone
        /\ lost' = (lost /\ OthersHold(gone))
        /\ UNCHANGED <<lock, dirUsable>>

-----------------------------------------------------------------------------
(* Entering the guard.                                                     *)

\* A file of w, no pid in it yet, is at the path: nobody has judged it.
CreateLock(w) ==
    /\ lock' = [creator |-> w, pid |-> 0]
    /\ judges' = {}
    /\ Goto(w, "opened")

\* Mutant: O_EXCL is missing, the file at the path is taken over.
OpenShared(w) ==
    /\ pc[w] = "idle"
    /\ Alive(w)
    /\ dirUsable
    /\ CreateLock(w)
    /\ UNCHANGED <<dirUsable, pid, seen, crashes, lost>>

\* The first O_EXCL open.
Open(w) ==
    /\ pc[w] = "idle"
    /\ Alive(w)
    /\ dirUsable
    /\ \/ lock = NoLock /\ CreateLock(w)
       \/ lock # NoLock /\ Goto(w, "exists") /\ UNCHANGED <<lock, judges>>
    /\ UNCHANGED <<dirUsable, pid, seen, crashes, lost>>

\* mkdir or open raises another OSError: the write proceeds without a lock.
OpenFails(w) ==
    /\ pc[w] = "idle"
    /\ Alive(w)
    /\ ~dirUsable
    /\ Goto(w, "unguarded")
    /\ UNCHANGED <<lock, dirUsable, pid, seen, crashes, judges, lost>>

\* Mutant: an empty lock file counts as stale.
ReadPidEmptyIsStale(w) ==
    /\ pc[w] = "exists"
    /\ lock # NoLock
    /\ seen' = [seen EXCEPT ![w] = lock.pid]
    /\ Goto(w, IF lock.pid = 0 THEN "stale" ELSE "read")
    /\ judges' = judges \cup {w}
    /\ UNCHANGED <<lock, dirUsable, pid, crashes, lost>>

\* _holder_alive reads the file; a file that is gone or empty counts as held.
ReadPid(w) ==
    /\ pc[w] = "exists"
    /\ LET n == IF lock = NoLock THEN 0 ELSE lock.pid
       IN  /\ seen' = [seen EXCEPT ![w] = n]
           /\ Goto(w, IF n = 0 THEN "ask" ELSE "read")
    /\ judges' = IF seen'[w] = 0 THEN judges ELSE judges \cup {w}
    /\ UNCHANGED <<lock, dirUsable, pid, crashes, lost>>

\* Mutant: a holder that cannot be found counts as alive.
ProbeNeverStale(w) ==
    /\ pc[w] = "read"
    /\ Goto(w, "ask")
    /\ judges' = judges \ {w}
    /\ seen' = [seen EXCEPT ![w] = 0]
    /\ UNCHANGED <<lock, dirUsable, pid, crashes, lost>>

\* kill(pid, 0): ProcessLookupError is the only proof that the holder is gone.
Probe(w) ==
    /\ pc[w] = "read"
    /\ IF seen[w] \in RunningPids
       THEN Goto(w, "ask") /\ judges' = judges \ {w}
       ELSE Goto(w, "stale") /\ UNCHANGED judges
    /\ seen' = [seen EXCEPT ![w] = 0]
    /\ UNCHANGED <<lock, dirUsable, pid, crashes, lost>>

\* The lock counts as held: StoreConflict, unless a user at the terminal overrides it.
Ask(w) ==
    /\ pc[w] = "ask"
    /\ \/ Goto(w, "conflict")
       \/ ProcOf[w] \in Interactive /\ Goto(w, "override")
    /\ UNCHANGED <<lock, dirUsable, pid, seen, crashes, judges, lost>>

\* The unlink of a broken lock removes whatever file is at the path by now.
Unlink(w) ==
    /\ pc[w] \in {"stale", "override"}
    /\ lock' = NoLock
    /\ judges' = {}
    /\ lost' = (\/ lost
                \/ pc[w] = "override"
                \/ lock # NoLock /\ w \notin judges)
    /\ Goto(w, "reopen")
    /\ UNCHANGED <<dirUsable, pid, seen, crashes>>

\* The second O_EXCL open is outside any try: its FileExistsError leaves the guard.
Reopen(w) ==
    /\ pc[w] = "reopen"
    /\ \/ lock = NoLock /\ CreateLock(w)
       \/ lock # NoLock /\ Goto(w, "raised") /\ UNCHANGED <<lock, judges>>
    /\ UNCHANGED <<dirUsable, pid, seen, crashes, lost>>

WritePid(w) ==
    /\ pc[w] = "opened"
    /\ Goto(w, "writing")
    /\ lock' = IF lock # NoLock /\ lock.creator = w
               THEN [lock EXCEPT !.pid = PidOf(w)] ELSE lock
    /\ UNCHANGED <<dirUsable, pid, seen, crashes, judges, lost>>

-----------------------------------------------------------------------------
(* Leaving the guard.                                                      *)

\* The body has returned or raised; the unlink removes whatever is at the path.
Leave(w) ==
    /\ pc[w] = "writing"
    /\ lock' = NoLock
    /\ judges' = {}
    /\ lost' = (lost /\ OthersHold({w}))
    /\ Goto(w, "idle")
    /\ UNCHANGED <<dirUsable, pid, seen, crashes>>

\* An unguarded write ends, or ingest passes an exception on to its caller.
Return(w) ==
    /\ pc[w] \in {"unguarded", "conflict", "raised"}
    /\ Goto(w, "idle")
    /\ UNCHANGED <<lock, dirUsable, pid, seen, crashes, judges, lost>>

-----------------------------------------------------------------------------
Attempt(w) == Open(w) \/ OpenFails(w)

Proceed(w) ==
    \/ ReadPid(w)
    \/ Probe(w)
    \/ Ask(w)
    \/ Unlink(w)
    \/ Reopen(w)
    \/ WritePid(w)
    \/ Leave(w)
    \/ Return(w)

Next ==
    \/ \E p \in Procs : Start(p)
    \/ \E p \in Procs : Exit(p)
    \/ \E p \in Procs : Crash(p)
    \/ \E w \in Writers : Attempt(w)
    \/ \E w \in Writers : Proceed(w)

Spec == Init /\ [][Next]_vars

\* A running thread gets on with the guard and its write ends; nothing forces a process
\* to start, to stop or to attempt a write.
FairSpec == Spec /\ \A w \in Writers : WF_vars(Proceed(w))

-----------------------------------------------------------------------------
(* Safety.                                                                 *)

\* Two writers hold the lock together only if a user overrode it or a writer removed a
\* file other than the one whose pid it had found dead; crashes, restarts, reused pids
\* and two threads of one process do not suffice.
ExclusiveUnlessMisjudged ==
    \A v, w \in Writers : Holding(v) /\ Holding(w) /\ v # w => lost

\* A writer about to break a lock as stale, with the file it judged still in place, does
\* not take it from a writer that holds it.
StaleMeansAbandoned ==
    \A w \in judges :
        pc[w] = "stale" /\ lock # NoLock => ~Holding(lock.creator)

\* A writer's own exit, normal or by exception, leaves no lock file of its own behind:
\* a lock whose creator is not in the guard is what a crash left.
OnlyCrashesLeaveLocks ==
    lock # NoLock /\ ~Holding(lock.creator) => crashes > 0

\* While writers only judge the file in place and no user overrides, leaving the guard
\* removes the leaving writer's own lock and no other.
LeavesOwnLock ==
    [][\A w \in Writers :
         Leave(w) /\ ~lost => lock # NoLock /\ lock.creator = w]_vars

-----------------------------------------------------------------------------
(* Liveness.                                                               *)

\* The lock records the pid of a process that no longer runs, and no running process
\* has been given that pid.
Abandoned ==
    /\ lock # NoLock
    /\ lock.pid # 0
    /\ lock.pid \notin RunningPids

WritersKeepTrying == []<><<\E w \in Writers : Attempt(w)>>_vars

\* If writers keep trying, an abandoned lock is broken without anybody's help.
AbandonedLockIsBroken == WritersKeepTrying => []<>~Abandoned
=============================================================================
