------------------------------- MODULE Singleton -------------------------------
(***************************************************************************)
(* internal/singleton: the guard that main takes before anything else and    *)
(* releases last, asked for by any number of processes of one session. On    *)
(* Windows it is a named mutex, an object that exists for as long as some     *)
(* process has a handle to it; elsewhere an advisory lock on a file, which    *)
(* one open description can hold. The kernel closes what a dead process had    *)
(* open.                                                                     *)
(***************************************************************************)
EXTENDS FiniteSets

CONSTANTS
    Processes,      \* the starts of the program, each again and again
    Nobody          \* the owner of a lock that is free

ASSUME SingletonConstants == Nobody \notin Processes

VARIABLES
    windows,        \* which of the two files was built
    pc,             \* per process, below
    open,           \* those with a handle to the mutex, or a description of the file
    locked          \* whose description holds the flock

vars == <<windows, pc, open, locked>>

\* "outside": not started, or gone. "opened": between open and flock. "refused" and
\* "failed": Acquire has ErrAlreadyRunning, or another error, to return, and not closed
\* yet what it opened. "running": Acquire has returned. "unlocked": release between the
\* unlock and the close.
Step == {"outside", "opened", "refused", "failed", "running", "unlocked"}

TypeOK ==
    /\ windows \in BOOLEAN
    /\ pc \in [Processes -> Step]
    /\ open \subseteq Processes
    /\ locked \in Processes \cup {Nobody}

Init ==
    /\ windows \in BOOLEAN
    /\ pc = [p \in Processes |-> "outside"]
    /\ open = {}
    /\ locked = Nobody

Goes(p, from, to) ==
    /\ pc[p] = from
    /\ pc' = [pc EXCEPT ![p] = to]
    /\ UNCHANGED windows

-------------------------------------------------------------------------------
(* Windows *)

\* Mutant: the handle is valid either way, and the last error is not looked at.
AlreadyExistsIgnored == FALSE

AlreadyExists == open # {}

\* An instance that finds the object keeps its handle until it has closed it. A call
\* that creates nothing changes nothing.
CreateMutex(p) ==
    /\ windows
    /\ Goes(p, "outside", IF AlreadyExists THEN "refused" ELSE "running")
    /\ open' = open \cup {p}
    /\ UNCHANGED locked

\* The release of the instance that ran, and nothing else: it never owned the mutex.
CloseMutex(p) ==
    /\ windows
    /\ Goes(p, "running", "outside")
    /\ open' = open \ {p}
    /\ UNCHANGED locked

-------------------------------------------------------------------------------
(* Elsewhere *)

OpenLockFile(p) ==
    /\ ~windows
    /\ Goes(p, "outside", "opened")
    /\ open' = open \cup {p}
    /\ UNCHANGED locked

Flock(p) ==
    /\ locked = Nobody
    /\ Goes(p, "opened", "running")
    /\ locked' = p
    /\ UNCHANGED open

WouldBlock(p) ==
    /\ locked # Nobody
    /\ Goes(p, "opened", "refused")
    /\ UNCHANGED <<open, locked>>

FlockFails(p) ==
    /\ Goes(p, "opened", "failed")
    /\ UNCHANGED <<open, locked>>

\* An unlock that fails is reported, and the description is closed all the same.
Unlock(p) ==
    /\ ~windows
    /\ Goes(p, "running", "unlocked")
    /\ locked' \in {Nobody, locked}
    /\ UNCHANGED open

-------------------------------------------------------------------------------
\* Mutant: the lock of a process that died stays behind, like a file it wrote.
LeavesStranded(p) == open' = open \ {p} /\ UNCHANGED locked

\* Whatever p had open is closed, and with its description goes the lock.
Leaves(p) ==
    /\ open' = open \ {p}
    /\ locked' = IF locked = p THEN Nobody ELSE locked

\* Acquire closes what it opened when it is refused, and release what it unlocked.
Close(p) ==
    /\ \E step \in {"refused", "failed", "unlocked"} : Goes(p, step, "outside")
    /\ Leaves(p)

Killed(p) ==
    /\ \E step \in Step \ {"outside"} : Goes(p, step, "outside")
    /\ Leaves(p)

Next ==
    \E p \in Processes :
        \/ CreateMutex(p) \/ CloseMutex(p)
        \/ OpenLockFile(p) \/ Flock(p) \/ WouldBlock(p) \/ FlockFails(p) \/ Unlock(p)
        \/ Close(p)
        \/ Killed(p)

Spec == Init /\ [][Next]_vars

-------------------------------------------------------------------------------
\* Two instances never run, however their starts, exits and deaths interleave
\* (singleton.go:3).
AtMostOne ==
    \A p, q \in Processes : pc[p] = "running" /\ pc[q] = "running" => p = q

\* A dead instance strands nothing: a start is refused only while another process is
\* in Acquire, runs or is on its way out.
RefusedBesideAnother ==
    [][\A p \in Processes :
          pc[p] # "refused" /\ pc'[p] = "refused"
              => \E q \in Processes \ {p} : pc[q] # "outside"]_vars

===============================================================================
