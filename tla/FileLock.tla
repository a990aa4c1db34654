------------------------------ MODULE FileLock ------------------------------
(***************************************************************************)
(* InterProcessFileLock of storage/file_lock.py: a lockfile created with   *)
(* O_CREAT | O_EXCL, then filled with the PID of its maker, and unlinked   *)
(* to release it.  A process that finds the file reads the PID, asks       *)
(* whether a process has it, and if none does unlinks the path and tries   *)
(* again.  Those are three system calls, and the file at the path may have *)
(* been released, reclaimed and made anew between any two of them.         *)
(*                                                                         *)
(* A process is one user of the lock.  The containers of deploy/compose.yml *)
(* share the runtime directory and not their PID namespaces, and each runs *)
(* its process as PID 1; on one host a new process has a PID of its own.   *)
(***************************************************************************)
EXTENDS Naturals

CONSTANTS Process,
          NoOne,          \* the maker of a file that does not exist
          InContainers,   \* a PID namespace per process, or one host
          MaxTries,       \* FILE_LOCK_RETRY_COUNT
          MaxFaults       \* bound: crashes and failing writes

ASSUME LockAssumption ==
  /\ NoOne \notin Process
  /\ InContainers \in BOOLEAN
  /\ MaxTries \in Nat \ {0}
  /\ MaxFaults \in Nat

VARIABLES file,      \* what is at lock_path: the process that made it, and the PID in it
          pc,        \* where each process is in acquire and release
          pid,       \* its PID while it runs
          tries,     \* attempts of its acquire before the current one
          read,      \* the PID it has read, and whether that file is still there (history)
          lastPid,   \* the last PID given out on the host
          faults,
          raced      \* history: has a process unlinked a file it had not read?

vars == <<file, pc, pid, tries, read, lastPid, faults, raced>>

PC == {"down", "idle", "trying", "checking", "testing", "reclaiming", "writing", "holding"}
Unwritten == 0
NoFile == [maker |-> NoOne, pid |-> Unwritten]
NothingRead == [pid |-> Unwritten, there |-> FALSE]

TypeOK ==
  /\ file \in [maker : Process \cup {NoOne}, pid : Nat]
  /\ pc \in [Process -> PC]
  /\ pid \in [Process -> Nat]
  /\ tries \in [Process -> 0 .. MaxTries - 1]
  /\ read \in [Process -> [pid : Nat, there : BOOLEAN]]
  /\ lastPid \in Nat
  /\ faults \in Nat
  /\ raced \in BOOLEAN

Init ==
  /\ file = NoFile
  /\ pc = [p \in Process |-> "down"]
  /\ pid = [p \in Process |-> Unwritten]
  /\ tries = [p \in Process |-> 0]
  /\ read = [p \in Process |-> NothingRead]
  /\ lastPid = 0
  /\ faults = 0
  /\ raced = FALSE

Fault == faults < MaxFaults /\ faults' = faults + 1

\* The processes p can tell from dead ones.
Visible(p) == IF InContainers THEN {p} ELSE Process

\* Faulty variants of the next definition: a signal that may not be sent counts
\* as no process; no process is ever found dead.
NeverAlive(p, n) == FALSE

\* _is_pid_alive as p sees it.
Alive(p, n) == \E q \in Visible(p) : pc[q] # "down" /\ pid[q] = n

-----------------------------------------------------------------------------

Start(p) ==
  /\ pc[p] = "down"
  /\ pc' = [pc EXCEPT ![p] = "idle"]
  /\ lastPid' = lastPid + 1
  /\ pid' = [pid EXCEPT ![p] = IF InContainers THEN 1 ELSE lastPid + 1]
  /\ UNCHANGED <<file, tries, read, faults, raced>>

Enter(p) ==
  /\ pc[p] = "idle"
  /\ pc' = [pc EXCEPT ![p] = "trying"]
  /\ UNCHANGED <<file, pid, tries, read, lastPid, faults, raced>>

\* os.open creates the file, still empty.
Create(p) ==
  /\ pc[p] = "trying"
  /\ file = NoFile
  /\ file' = [maker |-> p, pid |-> Unwritten]
  /\ pc' = [pc EXCEPT ![p] = "writing"]
  /\ tries' = [tries EXCEPT ![p] = 0]
  /\ UNCHANGED <<pid, read, lastPid, faults, raced>>

FindsFile(p) ==
  /\ pc[p] = "trying"
  /\ file # NoFile
  /\ pc' = [pc EXCEPT ![p] = "checking"]
  /\ UNCHANGED <<file, pid, tries, read, lastPid, faults, raced>>

\* Faulty variant of the next definition: one attempt too many.
OneMoreAttempt(p) ==
  \/ /\ tries[p] < MaxTries
     /\ pc' = [pc EXCEPT ![p] = "trying"]
     /\ tries' = [tries EXCEPT ![p] = @ + 1]
  \/ /\ tries[p] = MaxTries
     /\ pc' = [pc EXCEPT ![p] = "idle"]
     /\ tries' = [tries EXCEPT ![p] = 0]

\* The end of one attempt: the next one, or TimeoutError.
NextAttempt(p) ==
  \/ /\ tries[p] + 1 < MaxTries
     /\ pc' = [pc EXCEPT ![p] = "trying"]
     /\ tries' = [tries EXCEPT ![p] = @ + 1]
  \/ /\ tries[p] + 1 = MaxTries
     /\ pc' = [pc EXCEPT ![p] = "idle"]
     /\ tries' = [tries EXCEPT ![p] = 0]

\* _reclaim_stale_if_possible reads the file, whose maker has written its PID.
ReadsPid(p) ==
  /\ pc[p] = "checking"
  /\ file.pid # Unwritten
  /\ pc' = [pc EXCEPT ![p] = "testing"]
  /\ read' = [read EXCEPT ![p] = [pid |-> file.pid, there |-> TRUE]]
  /\ UNCHANGED <<file, pid, tries, lastPid, faults, raced>>

\* It leaves a file that is gone or empty, or whose maker is alive.
LeavesFile(p) ==
  /\ \/ pc[p] = "checking" /\ file.pid = Unwritten
     \/ pc[p] = "testing" /\ Alive(p, read[p].pid)
  /\ NextAttempt(p)
  /\ read' = [read EXCEPT ![p] = NothingRead]
  /\ UNCHANGED <<file, pid, lastPid, faults, raced>>

\* No process has the PID that was read.
FindsStale(p) ==
  /\ pc[p] = "testing"
  /\ ~Alive(p, read[p].pid)
  /\ pc' = [pc EXCEPT ![p] = "reclaiming"]
  /\ UNCHANGED <<file, pid, tries, read, lastPid, faults, raced>>

\* p frees the path: what others have read is there no more.
Unlink(p) ==
  /\ file' = NoFile
  /\ read' = [q \in Process |->
                IF q = p THEN NothingRead ELSE [read[q] EXCEPT !.there = FALSE]]

\* unlink removes whatever is at the path by now.
Reclaim(p) ==
  /\ pc[p] = "reclaiming"
  /\ Unlink(p)
  /\ NextAttempt(p)
  /\ raced' = (raced \/ (file # NoFile /\ ~read[p].there))
  /\ UNCHANGED <<pid, lastPid, faults>>

\* The payload goes to the file this process made, which may have lost its name.
Write(p) ==
  /\ pc[p] = "writing"
  /\ file' = [maker |-> file.maker,
              pid   |-> IF file.maker = p THEN pid[p] ELSE file.pid]
  /\ pc' = [pc EXCEPT ![p] = "holding"]
  /\ UNCHANGED <<pid, tries, read, lastPid, faults, raced>>

\* write or fsync raises; the empty file stays.
WriteFails(p) ==
  /\ pc[p] = "writing"
  /\ Fault
  /\ pc' = [pc EXCEPT ![p] = "idle"]
  /\ UNCHANGED <<file, pid, tries, read, lastPid, raced>>

Release(p) ==
  /\ pc[p] = "holding"
  /\ Unlink(p)
  /\ pc' = [pc EXCEPT ![p] = "idle"]
  /\ UNCHANGED <<pid, tries, lastPid, faults, raced>>

Crash(p) ==
  /\ pc[p] # "down"
  /\ Fault
  /\ pc' = [pc EXCEPT ![p] = "down"]
  /\ tries' = [tries EXCEPT ![p] = 0]
  /\ read' = [read EXCEPT ![p] = NothingRead]
  /\ pid' = [pid EXCEPT ![p] = Unwritten]
  /\ UNCHANGED <<file, lastPid, raced>>

-----------------------------------------------------------------------------

ProcessStep(p) ==
  \/ Start(p)
  \/ Enter(p)
  \/ Create(p)
  \/ FindsFile(p)
  \/ ReadsPid(p)
  \/ LeavesFile(p)
  \/ FindsStale(p)
  \/ Reclaim(p)
  \/ Write(p)
  \/ WriteFails(p)
  \/ Release(p)
  \/ Crash(p)

Next == \E p \in Process : ProcessStep(p)

Spec == Init /\ [][Next]_vars

\* A process that runs goes on, uses the lock again and again, and is started
\* again when it has crashed.
Fairness ==
  \A p \in Process :
    WF_vars(\/ Start(p) \/ Enter(p) \/ Create(p) \/ FindsFile(p) \/ ReadsPid(p)
            \/ LeavesFile(p) \/ FindsStale(p) \/ Reclaim(p) \/ Write(p) \/ Release(p))

FairSpec == Spec /\ Fairness

-----------------------------------------------------------------------------
(* Properties.                                                             *)

\* Between acquire and release at most one process does its exclusive work.
Exclusive ==
  \A p, q \in Process : pc[p] = "holding" /\ pc[q] = "holding" => p = q

\* Whatever crashes and fails between any two calls, the lock excludes until a
\* process unlinks another file than the one it has read and found stale.
ExclusiveUnlessRaced == ~raced => Exclusive

\* A process that holds the lock or is about to is not in the file any more.
Abandoned(p) == file.maker = p /\ pc[p] \notin {"writing", "holding"}


\* The file of a process that crashed or failed anywhere in acquire is removed.
AbandonedIsReclaimed ==
  \A p \in Process : Abandoned(p) ~> ~Abandoned(p)
=============================================================================
