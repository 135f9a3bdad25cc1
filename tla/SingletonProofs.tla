--------------------------- MODULE SingletonProofs ---------------------------
(***************************************************************************)
(* Theorems of Singleton, for any number of processes. On Windows an instance *)
(* runs because it made the object, and as long as it has its handle nobody   *)
(* makes another; elsewhere it runs because the lock is its own.              *)
(***************************************************************************)
EXTENDS Singleton, TLAPS

\* Who is in the guard has something open; the mutex is not locked, and the file is
\* only as long as its owner runs, or leaves.
Guarded ==
    /\ \A p \in open : pc[p] # "outside"
    /\ windows => /\ locked = Nobody
                  /\ \A p \in Processes : pc[p] \notin {"opened", "failed", "unlocked"}
                  /\ \A p \in Processes : pc[p] = "running" => p \in open
    /\ ~windows => \A p \in Processes : pc[p] = "running" => locked = p
    /\ locked # Nobody => pc[locked] \in {"running", "unlocked"}

SingletonInv == TypeOK /\ Guarded /\ AtMostOne

LEMMA InitSingleton == Init => SingletonInv
BY SingletonConstants DEF Init, SingletonInv, TypeOK, Step, Guarded, AtMostOne

LEMMA NextSingleton == SingletonInv /\ [Next]_vars => SingletonInv'
<1> SUFFICES ASSUME SingletonInv, [Next]_vars PROVE SingletonInv'
  OBVIOUS
<1> USE SingletonConstants DEF SingletonInv, TypeOK, Step, Guarded, AtMostOne, Goes
<1>1. ASSUME NEW p \in Processes, CreateMutex(p) PROVE SingletonInv'
  BY <1>1 DEF CreateMutex, AlreadyExists
<1>2. ASSUME NEW p \in Processes, CloseMutex(p) PROVE SingletonInv'
  BY <1>2 DEF CloseMutex
<1>3. ASSUME NEW p \in Processes, OpenLockFile(p) PROVE SingletonInv'
  BY <1>3 DEF OpenLockFile
<1>4. ASSUME NEW p \in Processes, Flock(p) PROVE SingletonInv'
  BY <1>4 DEF Flock
<1>5. ASSUME NEW p \in Processes, WouldBlock(p) \/ FlockFails(p) PROVE SingletonInv'
  BY <1>5 DEF WouldBlock, FlockFails
<1>6. ASSUME NEW p \in Processes, Unlock(p) PROVE SingletonInv'
  BY <1>6 DEF Unlock
<1>7. ASSUME NEW p \in Processes, Close(p) PROVE SingletonInv'
  BY <1>7 DEF Close, Leaves
<1>8. ASSUME NEW p \in Processes, Killed(p) PROVE SingletonInv'
  BY <1>8 DEF Killed, Leaves
<1>9. CASE UNCHANGED vars
  BY <1>9 DEF vars
<1>10. QED
  BY <1>1, <1>2, <1>3, <1>4, <1>5, <1>6, <1>7, <1>8, <1>9 DEF Next

LEMMA SingletonInvariant == Spec => []SingletonInv
BY InitSingleton, NextSingleton, PTL DEF Spec

\* Two instances never run.
THEOREM OneInstance == Spec => []AtMostOne
<1>1. SingletonInv => AtMostOne
  BY DEF SingletonInv
<1>2. QED
  BY <1>1, SingletonInvariant, PTL

\* A start is refused only beside a process that has not gone.
THEOREM NothingStranded == Spec => RefusedBesideAnother
<1>1. SingletonInv /\ [Next]_vars =>
        [\A p \in Processes :
            pc[p] # "refused" /\ pc'[p] = "refused"
                => \E q \in Processes \ {p} : pc[q] # "outside"]_vars
  <2> SUFFICES ASSUME SingletonInv, [Next]_vars, NEW p \in Processes,
                      pc[p] # "refused", pc'[p] = "refused"
               PROVE  \E q \in Processes \ {p} : pc[q] # "outside"
    OBVIOUS
  <2> USE SingletonConstants DEF SingletonInv, TypeOK, Guarded
  <2>1. CreateMutex(p) \/ WouldBlock(p)
    BY DEF Next, vars, Goes, CreateMutex, CloseMutex, OpenLockFile, Flock, WouldBlock,
           FlockFails, Unlock, Close, Killed
  <2>2. CASE CreateMutex(p)
    <3>1. PICK q \in open : TRUE
      BY <2>2 DEF CreateMutex, Goes, AlreadyExists
    <3>2. q \in Processes \ {p} /\ pc[q] # "outside"
      BY <2>2, <3>1 DEF CreateMutex, Goes
    <3>3. QED
      BY <3>2
  <2>3. CASE WouldBlock(p)
    <3>1. locked \in Processes \ {p} /\ pc[locked] # "outside"
      BY <2>3 DEF WouldBlock, Goes
    <3>2. QED
      BY <3>1
  <2>4. QED
    BY <2>1, <2>2, <2>3
<1>2. QED
  BY <1>1, SingletonInvariant, PTL DEF Spec, RefusedBesideAnother

===============================================================================
