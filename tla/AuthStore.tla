------------------------------ MODULE AuthStore ------------------------------
(***************************************************************************)
(* The encrypted state file of the executor and its lock, auth/store.js.   *)
(*                                                                         *)
(* Every read and every mutation takes the lock, reads the file, and       *)
(* writes it anew under another name that then replaces it.  The lock is a *)
(* file with the pid of its holder: who finds it taken looks whether that  *)
(* process still lives, and takes a dead one's lock away.  Each of these   *)
(* looks is a system call of its own.  A process may die at any of them.   *)
(*                                                                         *)
(* A process does one operation at a time (serial); a pid is not used      *)
(* again.  The contents are the mutations in the file; what compaction     *)
(* removes is left out.                                                    *)
(***************************************************************************)
EXTENDS Naturals, FiniteSets

CONSTANTS
    Pids,         \* processes that open the same state file
    MaxWrites,    \* bound of the mutations
    MaxFailures,  \* bound of failing writes
    MaxDeaths     \* bound of deaths

NoLock == [pid |-> "nobody", number |-> 0]

VARIABLES
    lock,        \* the file that is linked as the lock
    file,        \* the mutations in the state file
    step,        \* step[p]: what p is about to do
    seen,        \* seen[p]: the lock p has open; its inode is not used again meanwhile
    candidate,   \* candidate[p]: the lock file p wants to link
    base,        \* base[p]: what p read
    made,        \* operations begun so far
    answered,    \* mutations that were reported done
    failures,
    deaths,
    mistaken     \* history: a lock was taken away that is not the one that was examined

mine == <<step, seen, candidate, base>>
bounds == <<failures, deaths>>
vars == <<lock, file, mine, made, answered, bounds, mistaken>>

Init ==
    /\ lock = NoLock
    /\ file = {}
    /\ step = [p \in Pids |-> "idle"]
    /\ seen = [p \in Pids |-> NoLock]
    /\ candidate = [p \in Pids |-> NoLock]
    /\ base = [p \in Pids |-> {}]
    /\ made = 0
    /\ answered = {}
    /\ failures = 0 /\ deaths = 0
    /\ mistaken = FALSE

Alive(p) == step[p] # "dead"
Step(p, from, to) == step[p] = from /\ step' = [step EXCEPT ![p] = to]

-----------------------------------------------------------------------------
(* acquireLock.                                                             *)

\* The candidate is written in full before it is linked.
Begin(p) ==
    /\ Step(p, "idle", "link")
    /\ made < MaxWrites
    /\ made' = made + 1
    /\ candidate' = [candidate EXCEPT ![p] = [pid |-> p, number |-> made + 1]]
    /\ UNCHANGED <<lock, file, seen, base, answered, bounds, mistaken>>

\* Linking fails when the name exists.
Link(p) ==
    /\ Step(p, "link", "load")
    /\ lock = NoLock
    /\ lock' = candidate[p]
    /\ UNCHANGED <<file, seen, candidate, base, made, answered, bounds, mistaken>>

OpenLock(p) ==
    /\ Step(p, "link", "kill")
    /\ lock # NoLock
    /\ seen' = [seen EXCEPT ![p] = lock]
    /\ UNCHANGED <<lock, file, candidate, base, made, answered, bounds, mistaken>>

\* Mutant of Dead: what can not be signalled is taken for dead.
DeadAlways(q) == TRUE

\* process.kill(pid, 0)
Dead(q) == q \in Pids /\ ~Alive(q)

Examine(p) ==
    /\ Step(p, "kill", IF Dead(seen[p].pid) THEN "lstat" ELSE "link")
    /\ UNCHANGED <<lock, file, seen, candidate, base, made, answered, bounds, mistaken>>

\* The lock is still the file that was examined.
Compare(p) ==
    /\ Step(p, "lstat", IF lock = seen[p] THEN "unlink" ELSE "link")
    /\ UNCHANGED <<lock, file, seen, candidate, base, made, answered, bounds, mistaken>>

\* unlink goes by the name.
TakeAway(p) ==
    /\ Step(p, "unlink", "link")
    /\ lock' = NoLock
    /\ mistaken' = (mistaken \/ lock \notin {seen[p], NoLock})
    /\ UNCHANGED <<file, seen, candidate, base, made, answered, failures, deaths>>

\* A hundred attempts: store-busy.
GiveUp(p) ==
    /\ Step(p, "link", "idle")
    /\ lock # NoLock
    /\ UNCHANGED <<lock, file, seen, candidate, base, made, answered, bounds, mistaken>>

-----------------------------------------------------------------------------
(* mutate.                                                                  *)

Load(p) ==
    /\ Step(p, "load", "rename")
    /\ base' = [base EXCEPT ![p] = file]
    /\ UNCHANGED <<lock, file, seen, candidate, made, answered, bounds, mistaken>>

\* read, and a save that fails before the file is replaced.
NotSaved(p) ==
    /\ Step(p, "rename", "failed")
    /\ UNCHANGED <<lock, file, seen, candidate, base, made, answered, bounds, mistaken>>

\* rename(temporary, file)
Replace(p) ==
    /\ Step(p, "rename", "sync")
    /\ file' = base[p] \cup {candidate[p].number}
    /\ UNCHANGED <<lock, seen, candidate, base, made, answered, bounds, mistaken>>

\* The directory is synced, or it fails after the file was replaced.
SyncDirectory(p) ==
    /\ step[p] = "sync"
    /\ \/ Step(p, "sync", "saved") /\ UNCHANGED failures
       \/ Step(p, "sync", "failed") /\ failures < MaxFailures /\ failures' = failures + 1
    /\ UNCHANGED <<lock, file, seen, candidate, base, made, answered, deaths, mistaken>>

\* The release removes what has the name of the lock.  A lock that is gone fails the call.
Release(p) ==
    /\ step[p] \in {"saved", "failed"}
    /\ answered' = IF step[p] = "saved" /\ lock # NoLock
                   THEN answered \cup {candidate[p].number} ELSE answered
    /\ lock' = NoLock
    /\ step' = [step EXCEPT ![p] = "idle"]
    /\ UNCHANGED <<file, seen, candidate, base, made, bounds, mistaken>>

Die(p) ==
    /\ Alive(p) /\ deaths < MaxDeaths
    /\ deaths' = deaths + 1
    /\ step' = [step EXCEPT ![p] = "dead"]
    /\ UNCHANGED <<lock, file, seen, candidate, base, made, answered, failures, mistaken>>

-----------------------------------------------------------------------------
Next ==
    \E p \in Pids :
        \/ Begin(p) \/ Link(p) \/ OpenLock(p) \/ Examine(p) \/ Compare(p) \/ TakeAway(p)
        \/ GiveUp(p) \/ Load(p) \/ NotSaved(p) \/ Replace(p) \/ SyncDirectory(p) \/ Release(p)
        \/ Die(p)

Spec == Init /\ [][Next]_vars

-----------------------------------------------------------------------------
(* Properties.                                                              *)

\* A mutation that was reported done stays in the file, whatever other processes do, fail
\* at or die of, unless a process takes away a lock that is not the one it examined.  Two
\* that find the lock of a dead one can come to that; cli/config.js withLock keeps the
\* executors of one home apart.
DoneStays == ~mistaken => answered \subseteq file
=============================================================================
