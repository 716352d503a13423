--------------------------- MODULE ProcessWaitProofs ---------------------------
(***************************************************************************)
(* Proofs about exit and wait, for any number of processes and any set of  *)
(* arguments wait is called with.                                          *)
(***************************************************************************)
EXTENDS ProcessWait, TLAPS

--------------------------------------------------------------------------------

Record == [parent : Pid \cup {NoPid}, target : Pid \cup {NoPid},
           mode : Mode, wnowait : BOOLEAN, pids : SUBSET Pid]

Locks ==
    /\ \A p \in Pid : HoldsZombies(p) <=> zombies_lock = p
    /\ \A p \in Pid : HoldsChildren(p) <=> children_lock = p

(* That no status is handed out twice is not inductive: a process must not *)
(* become a zombie again after it has been reaped.  It cannot, because it  *)
(* inserts itself once, and there is nothing to reap before it does.       *)

Dead == {"send_sigchld", "wake_signalled", "check_waiters", "wake_waiter", "reparent",
         "reparent_zombies", "cleanup_signals", "terminate", "gone"}

DiesOnce ==
    \A q \in Pid :
        /\ reaped[q] \in {0, 1}
        /\ pc[q] \notin Dead => zombies[q] = NoPid /\ reaped[q] = 0
        /\ reaped[q] = 1 => zombies[q] = NoPid

ReapInv == TypeOK /\ Locks /\ DiesOnce

--------------------------------------------------------------------------------

\* A call record keeps its shape when one of its fields is assigned.
LEMMA Records ==
    /\ NoCall \in Record
    /\ \A r \in Record :
        /\ \A v \in Pid \cup {NoPid} : [r EXCEPT !.parent = v] \in Record
        /\ \A v \in SUBSET Pid : [r EXCEPT !.pids = v] \in Record
        /\ [r EXCEPT !.mode = "retry", !.wnowait = FALSE] \in Record
        /\ \A q \in WaitRequest :
            [r EXCEPT !.target = q.target, !.mode = q.mode, !.wnowait = q.wnowait] \in Record
BY DEF Record, NoCall, Mode, WaitRequest

\* init is a process, and NoPid is none.
LEMMA PidFacts == Pid \subseteq Nat /\ InitPid \in Pid /\ NoPid \notin Pid
BY ProcessWaitAssumption DEF Pid, InitPid

\* At the start nobody is dead, reaped or holding a lock.
LEMMA InitReap == Init => ReapInv
<1> SUFFICES ASSUME Init PROVE ReapInv
  OBVIOUS
<1> USE PidFacts DEF Init
<1>1. DOMAIN children = {}
  OBVIOUS
<1>2. call \in [Pid -> Record]
  BY Records
<1>3. TypeOK
  BY <1>1, <1>2 DEF TypeOK, Step, Record
<1>4. Locks
  BY DEF Locks, HoldsZombies, HoldsChildren
<1>5. DiesOnce
  BY DEF DiesOnce, Dead
<1> QED
  BY <1>3, <1>4, <1>5 DEF ReapInv

\* A step of one process keeps the locks if it takes only those that are
\* free, and holds just the ones its next part needs.
LEMMA LocksKept ==
    ASSUME TypeOK, Locks, NEW p \in Pid, NEW step \in Step, Goto(p, step),
           LET holds == {"remove_child", "register", "block", "unlock"}
           IN  \/ /\ step \in holds <=> pc[p] \in holds
                  /\ zombies_lock' = zombies_lock
               \/ step \in holds /\ zombies_lock = NoPid /\ zombies_lock' = p
               \/ step \notin holds /\ pc[p] \in holds /\ zombies_lock' = NoPid,
           LET holds == {"reparent_zombies"}
           IN  \/ /\ step \in holds <=> pc[p] \in holds
                  /\ children_lock' = children_lock
               \/ step \in holds /\ children_lock = NoPid /\ children_lock' = p
               \/ step \notin holds /\ pc[p] \in holds /\ children_lock' = NoPid
    PROVE  Locks'
<1>1. /\ pc'[p] = step
      /\ \A q \in Pid : q # p => pc'[q] = pc[q]
  BY DEF TypeOK, Goto
<1>2. \A q \in Pid : HoldsZombies(q)' <=> zombies_lock' = q
  BY <1>1, PidFacts DEF Locks, HoldsZombies
<1>3. \A q \in Pid : HoldsChildren(q)' <=> children_lock' = q
  BY <1>1, PidFacts DEF Locks, HoldsChildren
<1> QED
  BY <1>2, <1>3 DEF Locks

\* A step of one process that does not touch zombies, and does not lead back
\* to a part of the code before the process is one.
LEMMA DiesOnceKept ==
    ASSUME TypeOK, DiesOnce, NEW p \in Pid, NEW step \in Step, Goto(p, step),
           step \in Dead <=> pc[p] \in Dead,
           zombies' = zombies, reaped' = reaped
    PROVE  DiesOnce'
<1>1. \A q \in Pid : pc'[q] \in Dead <=> pc[q] \in Dead
  BY DEF TypeOK, Goto
<1> QED
  BY <1>1 DEF DiesOnce

\* exit: only InsertZombie makes a zombie, and only one.
LEMMA ExitStepKeeps ==
    ASSUME ReapInv, NEW p \in Pid, ExitStep(p)
    PROVE  ReapInv'
<1> USE PidFacts DEF ReapInv, At, Step, ExitSteps, WaitSteps
<1>1. ASSUME GetParent(p) PROVE ReapInv'
  <2>1. TypeOK'
    <3>1. call \in [Pid -> Record]
      BY DEF TypeOK, Record
    <3>2. call' \in [Pid -> Record]
      <4>1. PICK parent \in Pid : call' = [call EXCEPT ![p].parent = parent]
        BY <1>1 DEF GetParent
      <4>2. [call[p] EXCEPT !.parent = parent] \in Record
        BY <3>1, Records
      <4> QED
        BY <3>1, <4>1, <4>2
    <3> QED
      BY <1>1, <3>2 DEF TypeOK, GetParent, Goto, Record, wait_vars, locks, sched
  <2>2. Locks'
    BY <1>1, LocksKept DEF GetParent, Goto, locks
  <2>3. DiesOnce'
    BY <1>1, DiesOnceKept DEF GetParent, Goto, wait_vars, Dead
  <2> QED
    BY <2>1, <2>2, <2>3 DEF ReapInv
<1>2. ASSUME InsertZombie(p) PROVE ReapInv'
  <2>1. TypeOK'
    BY <1>2 DEF TypeOK, InsertZombie, Goto, Record, wait_vars, locks, sched
  <2>2. Locks'
    BY <1>2, LocksKept DEF InsertZombie, Goto, locks
  <2>3. DiesOnce'
    <3>1. pc[p] \notin Dead /\ reaped' = reaped /\ pc' = [pc EXCEPT ![p] = "send_sigchld"]
      BY <1>2 DEF InsertZombie, Goto, Dead
    <3>2. \A q \in Pid : q # p => zombies'[q] = zombies[q] /\ pc'[q] = pc[q]
      BY <1>2 DEF InsertZombie, Goto, TypeOK
    <3>3. pc'[p] \in Dead /\ reaped[p] = 0
      BY <3>1 DEF Dead, TypeOK, DiesOnce
    <3> QED
      BY <3>1, <3>2, <3>3 DEF DiesOnce
  <2> QED
    BY <2>1, <2>2, <2>3 DEF ReapInv
<1>3. ASSUME SendSigchld(p) PROVE ReapInv'
  <2>1. TypeOK'
    BY <1>3 DEF TypeOK, SendSigchld, Goto, Record, wait_vars, locks, sched
  <2>2. Locks'
    BY <1>3, LocksKept DEF SendSigchld, Goto, locks
  <2>3. DiesOnce'
    BY <1>3, DiesOnceKept DEF SendSigchld, Goto, wait_vars, Dead
  <2> QED
    BY <2>1, <2>2, <2>3 DEF ReapInv
<1>4. ASSUME WakeSignalled(p) PROVE ReapInv'
  <2>1. TypeOK'
    BY <1>4
       DEF TypeOK, WakeSignalled, Wake, Goto, Record, wait_vars, locks, sched
  <2>2. Locks'
    BY <1>4, LocksKept DEF WakeSignalled, Wake, Goto, locks
  <2>3. DiesOnce'
    BY <1>4, DiesOnceKept DEF WakeSignalled, Wake, Goto, wait_vars, Dead
  <2> QED
    BY <2>1, <2>2, <2>3 DEF ReapInv
<1>5. ASSUME CheckWaiters(p) PROVE ReapInv'
  <2>1. TypeOK'
    BY <1>5 DEF TypeOK, CheckWaiters, Goto, Record, wait_vars, locks, sched
  <2>2. Locks'
    BY <1>5, LocksKept DEF CheckWaiters, Goto, locks
  <2>3. DiesOnce'
    BY <1>5, DiesOnceKept DEF CheckWaiters, Goto, wait_vars, Dead
  <2> QED
    BY <2>1, <2>2, <2>3 DEF ReapInv
<1>6. ASSUME WakeWaiter(p) PROVE ReapInv'
  <2>1. TypeOK'
    BY <1>6 DEF TypeOK, WakeWaiter, Wake, Goto, Record, wait_vars, locks, sched
  <2>2. Locks'
    BY <1>6, LocksKept DEF WakeWaiter, Wake, Goto, locks
  <2>3. DiesOnce'
    BY <1>6, DiesOnceKept DEF WakeWaiter, Wake, Goto, wait_vars, Dead
  <2> QED
    BY <2>1, <2>2, <2>3 DEF ReapInv
<1>7. ASSUME ReparentNone(p) PROVE ReapInv'
  <2>1. TypeOK'
    BY <1>7 DEF TypeOK, ReparentNone, Goto, Record, wait_vars, locks, sched
  <2>2. Locks'
    BY <1>7, LocksKept DEF ReparentNone, Goto, locks
  <2>3. DiesOnce'
    BY <1>7, DiesOnceKept DEF ReparentNone, Goto, wait_vars, Dead
  <2> QED
    BY <2>1, <2>2, <2>3 DEF ReapInv
<1>8. ASSUME Reparent(p) PROVE ReapInv'
  <2>1. TypeOK'
    <3>1. call \in [Pid -> Record]
      BY DEF TypeOK, Record
    <3>2. call' \in [Pid -> Record]
      <4>1. children[p] \in SUBSET Pid /\ call' = [call EXCEPT ![p].pids = children[p]]
        BY <1>8 DEF Reparent, TypeOK
      <4>2. [call[p] EXCEPT !.pids = children[p]] \in Record
        BY <3>1, <4>1, Records
      <4> QED
        BY <3>1, <4>1, <4>2
    <3> QED
      BY <1>8, <3>2
         DEF TypeOK, Reparent, Kids, ChildrenFree, Goto, Record, wait_vars, locks, sched
  <2>2. Locks'
    BY <1>8, LocksKept DEF Reparent, Kids, ChildrenFree, Goto, locks
  <2>3. DiesOnce'
    BY <1>8, DiesOnceKept DEF Reparent, Kids, ChildrenFree, Goto, wait_vars, Dead
  <2> QED
    BY <2>1, <2>2, <2>3 DEF ReapInv
<1>9. ASSUME ReparentZombies(p) PROVE ReapInv'
  <2>1. TypeOK'
    BY <1>9 DEF TypeOK, ReparentZombies, Goto, Record, wait_vars, locks, sched
  <2>2. Locks'
    BY <1>9, LocksKept DEF ReparentZombies, Goto, locks
  <2>3. DiesOnce'
    <3>1. \A q \in Pid : zombies[q] = NoPid => zombies'[q] = NoPid
      BY <1>9 DEF ReparentZombies
    <3>2. reaped' = reaped /\ \A q \in Pid : pc'[q] \in Dead <=> pc[q] \in Dead
      BY <1>9 DEF ReparentZombies, Goto, TypeOK, Dead
    <3> QED
      BY <3>1, <3>2 DEF DiesOnce
  <2> QED
    BY <2>1, <2>2, <2>3 DEF ReapInv
<1>10. ASSUME CleanupSignals(p) PROVE ReapInv'
  <2>1. TypeOK'
    <3>1. call \in [Pid -> Record]
      BY DEF TypeOK, Record
    <3>2. call' \in [Pid -> Record]
      BY <1>10, <3>1, Records DEF CleanupSignals, Goto
    <3> QED
      BY <1>10, <3>2 DEF TypeOK, CleanupSignals, Goto, Record, wait_vars, locks, sched
  <2>2. Locks'
    BY <1>10, LocksKept DEF CleanupSignals, Goto, locks
  <2>3. DiesOnce'
    BY <1>10, DiesOnceKept DEF CleanupSignals, Goto, wait_vars, Dead
  <2> QED
    BY <2>1, <2>2, <2>3 DEF ReapInv
<1>11. ASSUME Terminate(p) PROVE ReapInv'
  <2>1. TypeOK'
    BY <1>11 DEF TypeOK, Terminate, Goto, Record, wait_vars, locks, sched
  <2>2. Locks'
    BY <1>11, LocksKept DEF Terminate, Goto, locks
  <2>3. DiesOnce'
    BY <1>11, DiesOnceKept DEF Terminate, Goto, wait_vars, Dead
  <2> QED
    BY <2>1, <2>2, <2>3 DEF ReapInv
<1> QED
  BY <1>1, <1>2, <1>3, <1>4, <1>5, <1>6, <1>7, <1>8, <1>9, <1>10, <1>11 DEF ExitStep

\* wait: only ScanFinds takes a zombie, and only one that is dead and not yet
\* reaped.
LEMMA WaitStepKeeps ==
    ASSUME ReapInv, NEW p \in Pid, WaitStep(p)
    PROVE  ReapInv'
<1> USE PidFacts DEF ReapInv, At, Step, ExitSteps, WaitSteps
<1>1. ASSUME GetChildren(p) PROVE ReapInv'
  <2>1. TypeOK'
    <3>1. call \in [Pid -> Record]
      BY DEF TypeOK, Record
    <3>2. call' \in [Pid -> Record]
      BY <1>1, <3>1, Records DEF GetChildren, Return, Goto
    <3> QED
      BY <1>1, <3>2 DEF TypeOK, GetChildren, Return, Goto, Record, wait_vars, locks, sched
  <2>2. Locks'
    BY <1>1, LocksKept DEF GetChildren, Return, Goto, locks
  <2>3. DiesOnce'
    BY <1>1, DiesOnceKept DEF GetChildren, Return, Goto, wait_vars, Dead
  <2> QED
    BY <2>1, <2>2, <2>3 DEF ReapInv
<1>2. ASSUME ScanFinds(p) PROVE ReapInv'
  <2>1. TypeOK'
    <3>1. call \in [Pid -> Record]
      BY DEF TypeOK, Record
    <3>2. call' \in [Pid -> Record]
      <4>1. CASE call' = [call EXCEPT ![p] = NoCall]
        BY <3>1, <4>1, Records
      <4>2. ASSUME NEW q \in Pid, call' = [call EXCEPT ![p].pids = {q}]
            PROVE  call' \in [Pid -> Record]
        <5>1. [call[p] EXCEPT !.pids = {q}] \in Record
          BY <3>1, Records
        <5> QED
          BY <3>1, <4>2, <5>1
      <4> QED
        BY <1>2, <4>1, <4>2 DEF ScanFinds, Return
    <3> QED
      BY <1>2, <3>2
         DEF TypeOK, ScanFinds, Return, ZombiesFree, Goto, Record, wait_vars, locks, sched
  <2>2. Locks'
    BY <1>2, LocksKept DEF ScanFinds, Return, ZombiesFree, Goto, locks
  <2>3. DiesOnce'
    <3>1. \A r \in Pid : pc'[r] \in Dead <=> pc[r] \in Dead
      BY <1>2 DEF ScanFinds, Return, Goto, TypeOK, Dead
    <3>2. PICK q \in Pid :
            /\ zombies[q] = p
            /\ \/ zombies' = zombies /\ reaped' = reaped
               \/ /\ zombies' = [zombies EXCEPT ![q] = NoPid]
                  /\ reaped' = [reaped EXCEPT ![q] = @ + 1]
      BY <1>2 DEF ScanFinds, FirstMatch, Matches
    <3>3. pc[q] \in Dead /\ reaped[q] = 0
      BY <3>2 DEF DiesOnce
    <3> QED
      BY <3>1, <3>2, <3>3 DEF DiesOnce, TypeOK
  <2> QED
    BY <2>1, <2>2, <2>3 DEF ReapInv
<1>3. ASSUME RemoveChild(p) PROVE ReapInv'
  <2>1. TypeOK'
    <3>1. call \in [Pid -> Record]
      BY DEF TypeOK, Record
    <3>2. call' \in [Pid -> Record]
      BY <1>3, <3>1, Records DEF RemoveChild, Return, Goto
    <3> QED
      BY <1>3, <3>2 DEF TypeOK, RemoveChild, Return, Goto, Record, wait_vars, locks, sched
  <2>2. Locks'
    BY <1>3, LocksKept DEF RemoveChild, Return, Goto, locks
  <2>3. DiesOnce'
    BY <1>3, DiesOnceKept DEF RemoveChild, Return, Goto, wait_vars, Dead
  <2> QED
    BY <2>1, <2>2, <2>3 DEF ReapInv
<1>4. ASSUME ScanFails(p) PROVE ReapInv'
  <2>1. TypeOK'
    <3>1. call \in [Pid -> Record]
      BY DEF TypeOK, Record
    <3>2. call' \in [Pid -> Record]
      BY <1>4, <3>1, Records DEF ScanFails, Return, Goto
    <3> QED
      BY <1>4, <3>2 DEF TypeOK, ScanFails, Return, Goto, Record, wait_vars, locks, sched
  <2>2. Locks'
    BY <1>4, LocksKept DEF ScanFails, Return, Goto, locks
  <2>3. DiesOnce'
    BY <1>4, DiesOnceKept DEF ScanFails, Return, Goto, wait_vars, Dead
  <2> QED
    BY <2>1, <2>2, <2>3 DEF ReapInv
<1>5. ASSUME ScanBlocks(p) PROVE ReapInv'
  <2>1. TypeOK'
    BY <1>5 DEF TypeOK, ScanBlocks, ZombiesFree, Goto, Record, wait_vars, locks, sched
  <2>2. Locks'
    BY <1>5, LocksKept DEF ScanBlocks, ZombiesFree, Goto, locks
  <2>3. DiesOnce'
    BY <1>5, DiesOnceKept DEF ScanBlocks, ZombiesFree, Goto, wait_vars, Dead
  <2> QED
    BY <2>1, <2>2, <2>3 DEF ReapInv
<1>6. ASSUME Register(p) PROVE ReapInv'
  <2>1. TypeOK'
    BY <1>6 DEF TypeOK, Register, Goto, Record, wait_vars, locks, sched
  <2>2. Locks'
    BY <1>6, LocksKept DEF Register, Goto, locks
  <2>3. DiesOnce'
    BY <1>6, DiesOnceKept DEF Register, Goto, wait_vars, Dead
  <2> QED
    BY <2>1, <2>2, <2>3 DEF ReapInv
<1>7. ASSUME Block(p) PROVE ReapInv'
  <2>1. TypeOK'
    BY <1>7 DEF TypeOK, Block, Goto, Record, wait_vars, locks, sched
  <2>2. Locks'
    BY <1>7, LocksKept DEF Block, Goto, locks
  <2>3. DiesOnce'
    BY <1>7, DiesOnceKept DEF Block, Goto, wait_vars, Dead
  <2> QED
    BY <2>1, <2>2, <2>3 DEF ReapInv
<1>8. ASSUME Unlock(p) PROVE ReapInv'
  <2>1. TypeOK'
    <3>1. call \in [Pid -> Record]
      BY DEF TypeOK, Record
    <3>2. call' \in [Pid -> Record]
      BY <1>8, <3>1, Records DEF Unlock, Goto
    <3> QED
      BY <1>8, <3>2 DEF TypeOK, Unlock, Goto, Record, wait_vars, locks, sched
  <2>2. Locks'
    BY <1>8, LocksKept DEF Unlock, Goto, locks
  <2>3. DiesOnce'
    BY <1>8, DiesOnceKept DEF Unlock, Goto, wait_vars, Dead
  <2> QED
    BY <2>1, <2>2, <2>3 DEF ReapInv
<1> QED
  BY <1>1, <1>2, <1>3, <1>4, <1>5, <1>6, <1>7, <1>8 DEF WaitStep

\* The calls begin outside every lock and before the process is dead.
LEMMA BeginKeeps ==
    ASSUME ReapInv, NEW p \in Pid, 
           \/ Exit(p)
           \/ \E request \in WaitRequests : Wait(p, request)
    PROVE  ReapInv'
<1> USE PidFacts DEF ReapInv, At, Step, ExitSteps, WaitSteps
<1>1. ASSUME Exit(p) PROVE ReapInv'
  <2>1. TypeOK'
    <3>1. call \in [Pid -> Record]
      BY DEF TypeOK, Record
    <3>2. call' \in [Pid -> Record]
      BY <1>1, <3>1, Records DEF Exit, Goto
    <3> QED
      BY <1>1, <3>2 DEF TypeOK, Exit, Goto, Record, wait_vars, locks, sched
  <2>2. Locks'
    BY <1>1, LocksKept DEF Exit, Goto, locks
  <2>3. DiesOnce'
    BY <1>1, DiesOnceKept DEF Exit, Goto, wait_vars, Dead
  <2> QED
    BY <2>1, <2>2, <2>3 DEF ReapInv
<1>2. ASSUME NEW request \in WaitRequests, Wait(p, request) PROVE ReapInv'
  <2>1. TypeOK'
    <3>1. call \in [Pid -> Record]
      BY DEF TypeOK, Record
    <3>2. call' \in [Pid -> Record]
      BY <1>2, <3>1, Records, ProcessWaitAssumption DEF Wait, Goto
    <3> QED
      BY <1>2, <3>2 DEF TypeOK, Wait, Goto, Record, wait_vars, locks, sched
  <2>2. Locks'
    BY <1>2, LocksKept DEF Wait, Goto, locks
  <2>3. DiesOnce'
    BY <1>2, DiesOnceKept DEF Wait, Goto, wait_vars, Dead
  <2> QED
    BY <2>1, <2>2, <2>3 DEF ReapInv
<1> QED
  BY <1>1, <1>2 DEF ReapInv

\* A process that is created was not there before, and holds nothing.
LEMMA ForkKeeps ==
    ASSUME ReapInv, NEW p \in Pid, NEW child \in Pid, Fork(p, child)
    PROVE  ReapInv'
<1> USE PidFacts DEF ReapInv, Step, ExitSteps, WaitSteps
<1>1. TypeOK'
  BY DEF TypeOK, Fork, At, Goto, Kids, Record, locks, sched
<1>2. Locks'
  BY LocksKept DEF Fork, Goto, locks
<1>3. DiesOnce'
  BY DiesOnceKept DEF Fork, Goto, Dead
<1> QED
  BY <1>1, <1>2, <1>3

\* What the timer and other processes' signals do concerns only the scheduler.
LEMMA SchedulerKeeps ==
    ASSUME ReapInv, NEW p \in Pid, Deschedule(p) \/ Kill(p)
    PROVE  ReapInv'
<1>1. /\ state' \in [Pid -> {"Ready", "Blocked", "Terminated"}] /\ off' \subseteq Pid
      /\ UNCHANGED <<children, zombies, waiters, signals, zombies_lock, children_lock,
                     pc, call, reaped>>
  BY DEF ReapInv, TypeOK, Deschedule, Kill, Wake, wait_vars, locks, sched
<1> QED
  BY <1>1 DEF ReapInv, TypeOK, Locks, HoldsZombies, HoldsChildren, DiesOnce

--------------------------------------------------------------------------------

(* The inductive invariant of exit, wait and reparenting. *)
LEMMA ReapInvariant == Spec => []ReapInv
<1>1. ReapInv /\ [Next]_vars => ReapInv'
  <2> SUFFICES ASSUME ReapInv, [Next]_vars PROVE ReapInv'
    OBVIOUS
  <2>1. CASE Next
    BY <2>1, ExitStepKeeps, WaitStepKeeps, BeginKeeps, ForkKeeps, SchedulerKeeps DEF Next
  <2>2. CASE UNCHANGED vars
    BY <2>2 DEF vars, wait_vars, locks, sched, ReapInv, TypeOK, Locks, HoldsZombies,
                HoldsChildren, DiesOnce
  <2> QED
    BY <2>1, <2>2
<1> QED
  BY InitReap, <1>1, PTL DEF Spec

(***************************************************************************)
(* The mutexes of WaitManager exclude, for any number of processes that    *)
(* fork, exit and wait at once.                                            *)
(***************************************************************************)
THEOREM LocksExclude == Spec => []WaitInv
<1>1. ReapInv => WaitInv
  BY DEF ReapInv, Locks, WaitInv
<1> QED
  BY <1>1, ReapInvariant, PTL

(***************************************************************************)
(* wait hands out the status of a child for good at most once, for any     *)
(* number of processes that fork, exit and wait at once.                   *)
(***************************************************************************)
THEOREM StatusOnce == Spec => []ReapedOnce
<1>1. ReapInv => ReapedOnce
  BY DEF ReapInv, DiesOnce, ReapedOnce
<1> QED
  BY <1>1, ReapInvariant, PTL

--------------------------------------------------------------------------------
(* No wakeup is lost: what a wait knows when it blocks *)

WaitCalls ==
    \A p \in Pid :
        /\ call[p].mode = "retry" => pc[p] \in {"get_children", "scan", "remove_child"}
        /\ pc[p] \in {"block", "unlock"} \/ call[p].mode = "retry" => p \in waiters
        /\ pc[p] \in {"register", "block"} => \A q \in Pid : ~Matches(p, q)

\* A zombie is its parent's, or has come to init.
ZombieParents ==
    \A q \in Pid : zombies[q] # NoPid => zombies[q] \in {call[q].parent, InitPid}

WakeInv == WaitCalls /\ ZombieParents /\ NoLostWakeup

\* A child that has become a zombie wakes the parent it blocks, step by step.
LEMMA ExitWakes ==
    ASSUME ReapInv, WakeInv, NEW p \in Pid, ExitStep(p)
    PROVE  WakeInv'
<1> USE PidFacts DEF ReapInv, WakeInv, At
<1>1. ASSUME GetParent(p) PROVE WakeInv'
  <2>1. /\ pc[p] = "get_parent" /\ pc'[p] = "insert_zombie"
        /\ call'[p].target = call[p].target
              /\ call'[p].mode = call[p].mode
        /\ zombies' = zombies
        /\ waiters' = waiters /\ signals' = signals
        /\ state' = state
        /\ \A q \in Pid : q # p => pc'[q] = pc[q] /\ call'[q] = call[q]
    BY <1>1 DEF GetParent, Goto, wait_vars, sched, NoCall, TypeOK
  <2>2. WaitCalls'
    BY <2>1 DEF WaitCalls, Matches, Locks, HoldsZombies, NoCall
  <2>3. ZombieParents'
    BY <2>1 DEF ZombieParents, DiesOnce, Dead, TypeOK
  <2>4. NoLostWakeup'
    BY <2>1 DEF NoLostWakeup, WillWake, Matches, WaitCalls, ZombieParents, DiesOnce, Dead,
                NoCall, TypeOK
  <2> QED
    BY <2>2, <2>3, <2>4 DEF WakeInv
<1>2. ASSUME InsertZombie(p) PROVE WakeInv'
  <2>1. /\ pc[p] = "insert_zombie" /\ pc'[p] = "send_sigchld"
        /\ call' = call
        /\ zombies' = [zombies EXCEPT ![p] = call[p].parent] /\ zombies_lock = NoPid
        /\ waiters' = waiters /\ signals' = signals
        /\ state' = state
        /\ \A q \in Pid : q # p => pc'[q] = pc[q] /\ call'[q] = call[q]
    BY <1>2 DEF InsertZombie, Goto, wait_vars, sched, ZombiesFree, NoCall, TypeOK
  <2>2. WaitCalls'
    BY <2>1 DEF WaitCalls, Matches, Locks, HoldsZombies, NoCall
  <2>3. ZombieParents'
    BY <2>1 DEF ZombieParents, DiesOnce, Dead, TypeOK
  <2>4. NoLostWakeup'
    BY <2>1 DEF NoLostWakeup, WillWake, Matches, WaitCalls, ZombieParents, DiesOnce, Dead,
                NoCall, TypeOK
  <2> QED
    BY <2>2, <2>3, <2>4 DEF WakeInv
<1>3. ASSUME SendSigchld(p) PROVE WakeInv'
  <2>1. /\ pc[p] = "send_sigchld"
            /\ pc'[p] = IF call[p].parent \in signals THEN "wake_signalled"
                    ELSE "check_waiters"
        /\ call' = call
        /\ zombies' = zombies
        /\ waiters' = waiters /\ signals' = signals
        /\ state' = state
        /\ \A q \in Pid : q # p => pc'[q] = pc[q] /\ call'[q] = call[q]
    BY <1>3 DEF SendSigchld, Goto, wait_vars, sched, NoCall, TypeOK
  <2>2. WaitCalls'
    BY <2>1 DEF WaitCalls, Matches, Locks, HoldsZombies, NoCall
  <2>3. ZombieParents'
    BY <2>1 DEF ZombieParents, DiesOnce, Dead, TypeOK
  <2>4. NoLostWakeup'
    BY <2>1 DEF NoLostWakeup, WillWake, Matches, WaitCalls, ZombieParents, DiesOnce, Dead,
                NoCall, TypeOK
  <2> QED
    BY <2>2, <2>3, <2>4 DEF WakeInv
<1>4. ASSUME WakeSignalled(p) PROVE WakeInv'
  <2>1. /\ pc[p] = "wake_signalled"
            /\ pc'[p] = "check_waiters"
        /\ call' = call
        /\ zombies' = zombies
        /\ waiters' = waiters /\ signals' = signals
        /\ state' = IF state[call[p].parent] = "Blocked"
                    THEN [state EXCEPT ![call[p].parent] = "Ready"] ELSE state
        /\ \A q \in Pid : q # p => pc'[q] = pc[q] /\ call'[q] = call[q]
    BY <1>4 DEF WakeSignalled, Goto, wait_vars, sched, Wake, NoCall, TypeOK
  <2>2. WaitCalls'
    BY <2>1 DEF WaitCalls, Matches, Locks, HoldsZombies, NoCall
  <2>3. ZombieParents'
    BY <2>1 DEF ZombieParents, DiesOnce, Dead, TypeOK
  <2>4. NoLostWakeup'
    BY <2>1 DEF NoLostWakeup, WillWake, Matches, WaitCalls, ZombieParents, DiesOnce, Dead,
                NoCall, TypeOK
  <2> QED
    BY <2>2, <2>3, <2>4 DEF WakeInv
<1>5. ASSUME CheckWaiters(p) PROVE WakeInv'
  <2>1. /\ pc[p] = "check_waiters"
            /\ pc'[p] = IF call[p].parent \in waiters THEN "wake_waiter" ELSE "reparent"
        /\ call' = call
        /\ zombies' = zombies
        /\ waiters' = waiters /\ signals' = signals
        /\ state' = state
        /\ \A q \in Pid : q # p => pc'[q] = pc[q] /\ call'[q] = call[q]
    BY <1>5 DEF CheckWaiters, Goto, wait_vars, sched, NoCall, TypeOK
  <2>2. WaitCalls'
    BY <2>1 DEF WaitCalls, Matches, Locks, HoldsZombies, NoCall
  <2>3. ZombieParents'
    BY <2>1 DEF ZombieParents, DiesOnce, Dead, TypeOK
  <2>4. NoLostWakeup'
    <3>0. SUFFICES ASSUME NEW r \in Pid, NEW q \in Pid, state'[r] = "Blocked",
                          pc'[r] = "unlock" \/ call'[r].mode = "retry",
                          call'[q].parent = r, Matches(r, q)'
                   PROVE  WillWake(q)'
      BY DEF NoLostWakeup
    <3>1. /\ state[r] = "Blocked"
          /\ pc[r] = "unlock" \/ call[r].mode = "retry"
          /\ call[q].parent = r /\ Matches(r, q)
      BY <2>1, <3>0 DEF Matches
    <3>2. WillWake(q) /\ r \in waiters
      BY <3>1 DEF NoLostWakeup, WaitCalls
    <3> QED
      BY <2>1, <3>1, <3>2 DEF WillWake
  <2> QED
    BY <2>2, <2>3, <2>4 DEF WakeInv
<1>6. ASSUME WakeWaiter(p) PROVE WakeInv'
  <2>1. /\ pc[p] = "wake_waiter" /\ pc'[p] = "reparent"
        /\ call' = call
        /\ zombies' = zombies
        /\ waiters' = waiters /\ signals' = signals
        /\ state' = IF state[call[p].parent] = "Blocked"
                    THEN [state EXCEPT ![call[p].parent] = "Ready"] ELSE state
        /\ \A q \in Pid : q # p => pc'[q] = pc[q] /\ call'[q] = call[q]
    BY <1>6 DEF WakeWaiter, Goto, wait_vars, sched, Wake, NoCall, TypeOK
  <2>2. WaitCalls'
    BY <2>1 DEF WaitCalls, Matches, Locks, HoldsZombies, NoCall
  <2>3. ZombieParents'
    BY <2>1 DEF ZombieParents, DiesOnce, Dead, TypeOK
  <2>4. NoLostWakeup'
    BY <2>1 DEF NoLostWakeup, WillWake, Matches, WaitCalls, ZombieParents, DiesOnce, Dead,
                NoCall, TypeOK
  <2> QED
    BY <2>2, <2>3, <2>4 DEF WakeInv
<1>7. ASSUME ReparentNone(p) PROVE WakeInv'
  <2>1. /\ pc[p] = "reparent" /\ pc'[p] = "cleanup_signals"
        /\ call' = call
        /\ zombies' = zombies
        /\ waiters' = waiters /\ signals' = signals
        /\ state' = state
        /\ \A q \in Pid : q # p => pc'[q] = pc[q] /\ call'[q] = call[q]
    BY <1>7 DEF ReparentNone, Goto, wait_vars, sched, NoCall, TypeOK
  <2>2. WaitCalls'
    BY <2>1 DEF WaitCalls, Matches, Locks, HoldsZombies, NoCall
  <2>3. ZombieParents'
    BY <2>1 DEF ZombieParents, DiesOnce, Dead, TypeOK
  <2>4. NoLostWakeup'
    BY <2>1 DEF NoLostWakeup, WillWake, Matches, WaitCalls, ZombieParents, DiesOnce, Dead,
                NoCall, TypeOK
  <2> QED
    BY <2>2, <2>3, <2>4 DEF WakeInv
<1>8. ASSUME Reparent(p) PROVE WakeInv'
  <2>1. /\ pc[p] = "reparent" /\ pc'[p] = "reparent_zombies"
        /\ call'[p].parent = call[p].parent
              /\ call'[p].target = call[p].target /\ call'[p].mode = call[p].mode
        /\ zombies' = zombies
        /\ waiters' = waiters /\ signals' = signals
        /\ state' = state
        /\ \A q \in Pid : q # p => pc'[q] = pc[q] /\ call'[q] = call[q]
    BY <1>8 DEF Reparent, Goto, wait_vars, sched, NoCall, TypeOK
  <2>2. WaitCalls'
    BY <2>1 DEF WaitCalls, Matches, Locks, HoldsZombies, NoCall
  <2>3. ZombieParents'
    BY <2>1 DEF ZombieParents, DiesOnce, Dead, TypeOK
  <2>4. NoLostWakeup'
    BY <2>1 DEF NoLostWakeup, WillWake, Matches, WaitCalls, ZombieParents, DiesOnce, Dead,
                NoCall, TypeOK
  <2> QED
    BY <2>2, <2>3, <2>4 DEF WakeInv
<1>9. ASSUME ReparentZombies(p) PROVE WakeInv'
  <2>1. /\ pc[p] = "reparent_zombies" /\ pc'[p] = "cleanup_signals"
        /\ call' = call
        /\ zombies_lock = NoPid /\ zombies' = [q \in Pid |->
                    IF q \in call[p].pids
                          /\ zombies[q] # NoPid THEN InitPid ELSE zombies[q]]
        /\ waiters' = waiters /\ signals' = signals
        /\ state' = state
        /\ \A q \in Pid : q # p => pc'[q] = pc[q] /\ call'[q] = call[q]
    BY <1>9 DEF ReparentZombies, Goto, wait_vars, sched, ZombiesFree, NoCall, TypeOK
  <2>2. WaitCalls'
    BY <2>1 DEF WaitCalls, Matches, Locks, HoldsZombies, NoCall
  <2>3. ZombieParents'
    BY <2>1 DEF ZombieParents, DiesOnce, Dead, TypeOK
  <2>4. NoLostWakeup'
    BY <2>1 DEF NoLostWakeup, WillWake, Matches, WaitCalls, ZombieParents, DiesOnce, Dead,
                NoCall, TypeOK
  <2> QED
    BY <2>2, <2>3, <2>4 DEF WakeInv
<1>10. ASSUME CleanupSignals(p) PROVE WakeInv'
  <2>1. /\ pc[p] = "cleanup_signals"
            /\ pc'[p] = "terminate"
        /\ call'[p].parent = call[p].parent
              /\ call'[p].target = call[p].target /\ call'[p].mode = call[p].mode
        /\ zombies' = zombies
        /\ waiters' = waiters /\ signals' = signals \ {p}
        /\ state' = state
        /\ \A q \in Pid : q # p => pc'[q] = pc[q] /\ call'[q] = call[q]
    BY <1>10 DEF CleanupSignals, Goto, wait_vars, sched, NoCall, TypeOK
  <2>2. WaitCalls'
    BY <2>1 DEF WaitCalls, Matches, Locks, HoldsZombies, NoCall
  <2>3. ZombieParents'
    BY <2>1 DEF ZombieParents, DiesOnce, Dead, TypeOK
  <2>4. NoLostWakeup'
    BY <2>1 DEF NoLostWakeup, WillWake, Matches, WaitCalls, ZombieParents, DiesOnce, Dead,
                NoCall, TypeOK
  <2> QED
    BY <2>2, <2>3, <2>4 DEF WakeInv
<1>11. ASSUME Terminate(p) PROVE WakeInv'
  <2>1. /\ pc[p] = "terminate" /\ pc'[p] = "gone"
        /\ call' = call
        /\ zombies' = zombies
        /\ waiters' = waiters /\ signals' = signals
        /\ state' = [state EXCEPT ![p] = "Terminated"]
        /\ \A q \in Pid : q # p => pc'[q] = pc[q] /\ call'[q] = call[q]
    BY <1>11 DEF Terminate, Goto, wait_vars, sched, NoCall, TypeOK
  <2>2. WaitCalls'
    BY <2>1 DEF WaitCalls, Matches, Locks, HoldsZombies, NoCall
  <2>3. ZombieParents'
    BY <2>1 DEF ZombieParents, DiesOnce, Dead, TypeOK
  <2>4. NoLostWakeup'
    BY <2>1 DEF NoLostWakeup, WillWake, Matches, WaitCalls, ZombieParents, DiesOnce, Dead,
                NoCall, TypeOK
  <2> QED
    BY <2>2, <2>3, <2>4 DEF WakeInv
<1> QED
  BY <1>1, <1>2, <1>3, <1>4, <1>5, <1>6, <1>7, <1>8, <1>9, <1>10, <1>11 DEF ExitStep

\* wait blocks with zombies locked, after it has seen no match.
LEMMA WaitWakes ==
    ASSUME ReapInv, WakeInv, NEW p \in Pid, WaitStep(p)
    PROVE  WakeInv'
<1> USE PidFacts DEF ReapInv, WakeInv, At
<1>1. ASSUME GetChildren(p) PROVE WakeInv'
  <2>1. /\ pc[p] = "get_children" /\ pc'[p] \in {"user", "scan"}
        /\ IF pc'[p] = "user" THEN call'[p] = NoCall ELSE call'[p] = call[p]
        /\ zombies' = zombies /\ waiters' = waiters /\ signals' = signals /\ state' = state
        /\ \A q \in Pid : q # p => pc'[q] = pc[q] /\ call'[q] = call[q]
    BY <1>1 DEF GetChildren, Return, Goto, wait_vars, sched, TypeOK
  <2>2. WaitCalls'
    BY <2>1 DEF WaitCalls, Matches, NoCall
  <2>3. ZombieParents'
    BY <2>1 DEF ZombieParents, DiesOnce, Dead, TypeOK
  <2>4. NoLostWakeup'
    BY <2>1 DEF NoLostWakeup, WillWake, Matches, WaitCalls, ZombieParents, DiesOnce, Dead,
                NoCall, TypeOK
  <2> QED
    BY <2>2, <2>3, <2>4 DEF WakeInv
<1>2. ASSUME ScanFinds(p) PROVE WakeInv'
  <2>1. /\ pc[p] = "scan" /\ pc'[p] \in {"user", "remove_child"} /\ zombies_lock = NoPid
        /\ \A r \in Pid : zombies'[r] \in {zombies[r], NoPid}
        /\ IF pc'[p] = "user" THEN call'[p] = NoCall
           ELSE call'[p].mode = call[p].mode /\ call'[p].target = call[p].target
        /\ waiters' = waiters /\ signals' = signals /\ state' = state
        /\ \A r \in Pid : r # p => pc'[r] = pc[r] /\ call'[r] = call[r]
    BY <1>2 DEF ScanFinds, ZombiesFree, Return, Goto, wait_vars, sched, TypeOK
  <2>2. WaitCalls'
    BY <2>1 DEF WaitCalls, Matches, Locks, HoldsZombies, NoCall
  <2>3. ZombieParents'
    BY <2>1 DEF ZombieParents, DiesOnce, Dead, TypeOK
  <2>4. NoLostWakeup'
    BY <2>1 DEF NoLostWakeup, WillWake, Matches, WaitCalls, ZombieParents, DiesOnce, Dead,
                NoCall, TypeOK
  <2> QED
    BY <2>2, <2>3, <2>4 DEF WakeInv
<1>3. ASSUME RemoveChild(p) PROVE WakeInv'
  <2>1. /\ pc[p] = "remove_child" /\ pc'[p] = "user"
        /\ call'[p] = NoCall
        /\ zombies' = zombies
        /\ waiters' = waiters /\ signals' = signals
        /\ state' = state
        /\ \A q \in Pid : q # p => pc'[q] = pc[q] /\ call'[q] = call[q]
    BY <1>3 DEF RemoveChild, Goto, wait_vars, sched, Return, NoCall, TypeOK
  <2>2. WaitCalls'
    BY <2>1 DEF WaitCalls, Matches, Locks, HoldsZombies, NoCall
  <2>3. ZombieParents'
    BY <2>1 DEF ZombieParents, DiesOnce, Dead, TypeOK
  <2>4. call'[p].mode = "block" /\ zombies[p] = NoPid
    BY <2>1 DEF NoCall, DiesOnce, Dead
  <2>5. NoLostWakeup'
    <3>0. SUFFICES ASSUME NEW r \in Pid, NEW q \in Pid, state'[r] = "Blocked",
                          pc'[r] = "unlock" \/ call'[r].mode = "retry",
                          call'[q].parent = r, Matches(r, q)'
                   PROVE  WillWake(q)'
      BY DEF NoLostWakeup
    <3>1. r # p /\ q # p
      BY <2>1, <2>4, <3>0 DEF Matches
    <3>2. /\ state[r] = "Blocked"
          /\ pc[r] = "unlock" \/ call[r].mode = "retry"
          /\ call[q].parent = r /\ Matches(r, q)
      BY <2>1, <3>0, <3>1 DEF Matches
    <3>3. WillWake(q)
      BY <3>2 DEF NoLostWakeup
    <3> QED
      BY <2>1, <3>1, <3>3 DEF WillWake
  <2> QED
    BY <2>2, <2>3, <2>5 DEF WakeInv
<1>4. ASSUME ScanFails(p) PROVE WakeInv'
  <2>1. /\ pc[p] = "scan" /\ pc'[p] = "user"
        /\ call'[p] = NoCall
        /\ zombies' = zombies
        /\ waiters' = waiters /\ signals' = signals
        /\ state' = state
        /\ \A q \in Pid : q # p => pc'[q] = pc[q] /\ call'[q] = call[q]
    BY <1>4 DEF ScanFails, Goto, wait_vars, sched, Return, NoCall, TypeOK
  <2>2. WaitCalls'
    BY <2>1 DEF WaitCalls, Matches, Locks, HoldsZombies, NoCall
  <2>3. ZombieParents'
    BY <2>1 DEF ZombieParents, DiesOnce, Dead, TypeOK
  <2>4. NoLostWakeup'
    <3>1. call'[p].parent = NoPid /\ call'[p].mode = "block"
      BY <2>1 DEF NoCall
    <3>2. \A r, q \in Pid : r # p => Matches(r, q)' = Matches(r, q)
      BY <2>1 DEF Matches
    <3>3. \A q \in Pid : q # p => WillWake(q)' = WillWake(q)
      BY <2>1 DEF WillWake
    <3> QED
      BY <2>1, <3>1, <3>2, <3>3, PidFacts DEF NoLostWakeup
  <2> QED
    BY <2>2, <2>3, <2>4 DEF WakeInv
<1>5. ASSUME ScanBlocks(p) PROVE WakeInv'
  <2>1. /\ pc[p] = "scan" /\ pc'[p] = "register"
        /\ call' = call /\ call[p].mode = "block"
        /\ \A q \in Pid : ~Matches(p, q)
        /\ zombies' = zombies
        /\ waiters' = waiters /\ signals' = signals
        /\ state' = state
        /\ \A q \in Pid : q # p => pc'[q] = pc[q] /\ call'[q] = call[q]
    BY <1>5 DEF ScanBlocks, Goto, wait_vars, sched, NoCall, TypeOK
  <2>2. WaitCalls'
    BY <2>1 DEF WaitCalls, Matches, Locks, HoldsZombies, NoCall
  <2>3. ZombieParents'
    BY <2>1 DEF ZombieParents, DiesOnce, Dead, TypeOK
  <2>4. NoLostWakeup'
    BY <2>1 DEF NoLostWakeup, WillWake, Matches, WaitCalls, ZombieParents, DiesOnce, Dead,
                NoCall, TypeOK
  <2> QED
    BY <2>2, <2>3, <2>4 DEF WakeInv
<1>6. ASSUME Register(p) PROVE WakeInv'
  <2>1. /\ pc[p] = "register" /\ pc'[p] = "block"
        /\ call' = call
        /\ zombies' = zombies
        /\ waiters' = waiters \cup {p} /\ signals' = signals
        /\ state' = state
        /\ \A q \in Pid : q # p => pc'[q] = pc[q] /\ call'[q] = call[q]
    BY <1>6 DEF Register, Goto, wait_vars, sched, NoCall, TypeOK
  <2>2. WaitCalls'
    BY <2>1 DEF WaitCalls, Matches, Locks, HoldsZombies, NoCall
  <2>3. ZombieParents'
    BY <2>1 DEF ZombieParents, DiesOnce, Dead, TypeOK
  <2>4. NoLostWakeup'
    <3>0. SUFFICES ASSUME NEW r \in Pid, NEW q \in Pid, state'[r] = "Blocked",
                          pc'[r] = "unlock" \/ call'[r].mode = "retry",
                          call'[q].parent = r, Matches(r, q)'
                   PROVE  WillWake(q)'
      BY DEF NoLostWakeup
    <3>1. r # p
      BY <2>1, <3>0 DEF WaitCalls
    <3>2. /\ state[r] = "Blocked"
          /\ pc[r] = "unlock" \/ call[r].mode = "retry"
          /\ call[q].parent = r /\ Matches(r, q)
      BY <2>1, <3>0, <3>1 DEF Matches
    <3>3. WillWake(q)
      BY <3>2 DEF NoLostWakeup
    <3> QED
      BY <2>1, <3>3 DEF WillWake
  <2> QED
    BY <2>2, <2>3, <2>4 DEF WakeInv
<1>7. ASSUME Block(p) PROVE WakeInv'
  <2>1. /\ pc[p] = "block" /\ pc'[p] = "unlock"
        /\ call' = call
        /\ zombies' = zombies
        /\ waiters' = waiters /\ signals' = signals
        /\ state' = [state EXCEPT ![p] = "Blocked"]
        /\ \A q \in Pid : q # p => pc'[q] = pc[q] /\ call'[q] = call[q]
    BY <1>7 DEF Block, Goto, wait_vars, sched, NoCall, TypeOK
  <2>2. WaitCalls'
    BY <2>1 DEF WaitCalls, Matches, Locks, HoldsZombies, NoCall
  <2>3. ZombieParents'
    BY <2>1 DEF ZombieParents, DiesOnce, Dead, TypeOK
  <2>4. NoLostWakeup'
    <3>0. SUFFICES ASSUME NEW r \in Pid, NEW q \in Pid, state'[r] = "Blocked",
                          pc'[r] = "unlock" \/ call'[r].mode = "retry",
                          call'[q].parent = r, Matches(r, q)'
                   PROVE  WillWake(q)'
      BY DEF NoLostWakeup
    <3>1. Matches(r, q) /\ r # p
      BY <2>1, <3>0 DEF WaitCalls, Matches
    <3>2. /\ state[r] = "Blocked"
          /\ pc[r] = "unlock" \/ call[r].mode = "retry"
          /\ call[q].parent = r /\ Matches(r, q)
      BY <2>1, <3>0, <3>1 DEF TypeOK
    <3>3. WillWake(q)
      BY <3>2 DEF NoLostWakeup
    <3> QED
      BY <2>1, <3>3 DEF WillWake
  <2> QED
    BY <2>2, <2>3, <2>4 DEF WakeInv
<1>8. ASSUME Unlock(p) PROVE WakeInv'
  <2>1. /\ pc[p] = "unlock" /\ pc'[p] = "get_children"
        /\ call'[p].parent = call[p].parent
              /\ call'[p].target = call[p].target /\ call'[p].mode = "retry"
        /\ zombies' = zombies
        /\ waiters' = waiters /\ signals' = signals
        /\ state' = state
        /\ \A q \in Pid : q # p => pc'[q] = pc[q] /\ call'[q] = call[q]
    BY <1>8 DEF Unlock, Goto, wait_vars, sched, NoCall, TypeOK
  <2>2. WaitCalls'
    BY <2>1 DEF WaitCalls, Matches, Locks, HoldsZombies, NoCall
  <2>3. ZombieParents'
    BY <2>1 DEF ZombieParents, DiesOnce, Dead, TypeOK
  <2>4. NoLostWakeup'
    <3>0. SUFFICES ASSUME NEW r \in Pid, NEW q \in Pid, state'[r] = "Blocked",
                          pc'[r] = "unlock" \/ call'[r].mode = "retry",
                          call'[q].parent = r, Matches(r, q)'
                   PROVE  WillWake(q)'
      BY DEF NoLostWakeup
    <3>2. /\ state[r] = "Blocked"
          /\ pc[r] = "unlock" \/ call[r].mode = "retry"
          /\ call[q].parent = r /\ Matches(r, q)
      BY <2>1, <3>0 DEF Matches
    <3>3. WillWake(q)
      BY <3>2 DEF NoLostWakeup
    <3> QED
      BY <2>1, <3>3 DEF WillWake
  <2> QED
    BY <2>2, <2>3, <2>4 DEF WakeInv
<1> QED
  BY <1>1, <1>2, <1>3, <1>4, <1>5, <1>6, <1>7, <1>8 DEF WaitStep

\* Calls begin with nothing to wait for.
LEMMA BeginWakes ==
    ASSUME ReapInv, WakeInv, NEW p \in Pid,
           \/ Exit(p)
           \/ \E request \in WaitRequests : Wait(p, request)
    PROVE  WakeInv'
<1> USE PidFacts DEF ReapInv, WakeInv, At
<1>1. /\ pc[p] = "user" /\ pc'[p] \in {"get_parent", "get_children"}
          /\ call'[p].mode # "retry"
      /\ zombies' = zombies /\ waiters' = waiters /\ signals' = signals /\ state' = state
      /\ \A q \in Pid : q # p => pc'[q] = pc[q] /\ call'[q] = call[q]
  <2>1. ASSUME Exit(p)
        PROVE  /\ pc[p] = "user" /\ Goto(p, "get_parent") /\ call'[p].mode = "block"
               /\ UNCHANGED <<wait_vars, sched>>
               /\ \A q \in Pid : q # p => call'[q] = call[q]
    BY <2>1 DEF Exit, TypeOK, NoCall
  <2>2. ASSUME NEW request \in WaitRequests, Wait(p, request)
        PROVE  /\ pc[p] = "user" /\ Goto(p, "get_children") /\ call'[p].mode # "retry"
               /\ UNCHANGED <<wait_vars, sched>>
               /\ \A q \in Pid : q # p => call'[q] = call[q]
    <3>1. request.mode # "retry"
      BY ProcessWaitAssumption DEF WaitRequest
    <3> QED
      BY <2>2, <3>1 DEF Wait, TypeOK, NoCall
  <2> QED
    BY <2>1, <2>2 DEF Goto, wait_vars, sched, TypeOK
<1>2. WaitCalls'
  BY <1>1 DEF WaitCalls, Matches
<1>3. ZombieParents'
  BY <1>1 DEF ZombieParents, DiesOnce, Dead
<1>4. NoLostWakeup'
  <2>0. SUFFICES ASSUME NEW r \in Pid, NEW q \in Pid, state'[r] = "Blocked",
                        pc'[r] = "unlock" \/ call'[r].mode = "retry",
                        call'[q].parent = r, Matches(r, q)'
                 PROVE  WillWake(q)'
    BY DEF NoLostWakeup
  <2>1. r # p /\ q # p
    BY <1>1, <2>0 DEF Matches, DiesOnce, Dead
  <2>2. /\ state[r] = "Blocked"
        /\ pc[r] = "unlock" \/ call[r].mode = "retry"
        /\ call[q].parent = r /\ Matches(r, q)
    BY <1>1, <2>0, <2>1 DEF Matches
  <2>3. WillWake(q)
    BY <2>2 DEF NoLostWakeup
  <2> QED
    BY <1>1, <2>1, <2>3 DEF WillWake
<1> QED
  BY <1>2, <1>3, <1>4 DEF WakeInv

\* A new process may get signals; it is nobody's parent that waits.
LEMMA ForkWakes ==
    ASSUME ReapInv, WakeInv, NEW p \in Pid, NEW child \in Pid, Fork(p, child)
    PROVE  WakeInv'
<1> USE PidFacts DEF ReapInv, WakeInv, At
<1>1. /\ pc[child] = "unborn" /\ pc'[child] = "user" /\ call' = call
      /\ zombies' = zombies /\ waiters' = waiters /\ state' = state
      /\ signals' \subseteq signals \cup {child}
      /\ \A q \in Pid : q # child => pc'[q] = pc[q]
  BY DEF Fork, Goto, sched, TypeOK
<1>2. WaitCalls'
  BY <1>1 DEF WaitCalls, Matches
<1>3. ZombieParents'
  BY <1>1 DEF ZombieParents
<1>4. NoLostWakeup'
  BY <1>1 DEF NoLostWakeup, WillWake, Matches, WaitCalls, DiesOnce, Dead
<1> QED
  BY <1>2, <1>3, <1>4 DEF WakeInv

\* The timer and signals from elsewhere block nobody.
LEMMA SchedulerWakes ==
    ASSUME ReapInv, WakeInv, NEW p \in Pid, Deschedule(p) \/ Kill(p)
    PROVE  WakeInv'
<1>1. /\ \A q \in Pid : state'[q] = "Blocked" => state[q] = "Blocked"
      /\ UNCHANGED <<zombies, waiters, signals, pc, call>>
  BY DEF ReapInv, TypeOK, Deschedule, Kill, Wake, wait_vars, sched
<1> QED
  BY <1>1 DEF WakeInv, WaitCalls, ZombieParents, NoLostWakeup, WillWake, Matches

(* No wakeup is lost, by induction on top of ReapInv. *)
LEMMA WakeInvariant == Spec => []WakeInv
<1>1. Init => WakeInv
  <2> SUFFICES ASSUME Init PROVE WakeInv
    OBVIOUS
  <2>1. \A p \in Pid : /\ zombies[p] = NoPid /\ call[p].mode = "block"
                       /\ pc[p] \in {"user", "unborn"}
    BY DEF Init, NoCall
  <2> QED
    BY <2>1, PidFacts DEF WakeInv, WaitCalls, ZombieParents, NoLostWakeup, Matches
<1>2. ReapInv /\ WakeInv /\ [Next]_vars => WakeInv'
  <2> SUFFICES ASSUME ReapInv, WakeInv, [Next]_vars PROVE WakeInv'
    OBVIOUS
  <2>1. CASE Next
    BY <2>1, ExitWakes, WaitWakes, BeginWakes, ForkWakes, SchedulerWakes DEF Next
  <2>2. CASE UNCHANGED vars
    BY <2>2 DEF vars, wait_vars, sched, WakeInv, WaitCalls, ZombieParents, NoLostWakeup,
                WillWake, Matches
  <2> QED
    BY <2>1, <2>2
<1> QED
  BY <1>1, <1>2, ReapInvariant, PTL DEF Spec

(***************************************************************************)
(* A wait that blocks and an exit never miss each other, for any number of *)
(* processes: a process blocked by its wait, while a child it asks for is  *)
(* a zombie, is going to be woken by that child.                           *)
(***************************************************************************)
THEOREM WakeupsNotLost == Spec => []NoLostWakeup
<1>1. WakeInv => NoLostWakeup
  BY DEF WakeInv
<1> QED
  BY <1>1, WakeInvariant, PTL

--------------------------------------------------------------------------------
(* The family tree: what the steps of one process know of the others *)

Unborn == \A q, r \in Pid : pc[q] = "unborn" => q \notin Kids(r)
InitLives == pc[InitPid] \notin ExitSteps \cup {"gone"}

\* reparent_children has moved the list before it changes the zombies' records.
Moving == \A p \in Pid : pc[p] = "reparent_zombies" => call[p].pids \subseteq Kids(InitPid)

\* wait removes a child from its list after it has taken the zombie.
Taking == \A p \in Pid : pc[p] = "remove_child" => \A q \in call[p].pids : reaped[q] = 1

\* The parent exit has looked up still lists the process, or has died since.
ParentKnown ==
    \A q \in Pid : pc[q] = "insert_zombie" =>
        /\ call[q].parent \in Pid
        /\ q \in Kids(call[q].parent) \/ Reparented(call[q].parent)

FamilyInv == FamilyTree /\ Unborn /\ InitLives /\ Moving /\ Taking /\ ParentKnown

\* A process that is born and not reaped is in a list.
LEMMA Listed ==
    ASSUME FamilyInv, NEW q \in Pid, q # InitPid, pc[q] # "unborn", reaped[q] = 0
    PROVE  \E r \in Pid : q \in Kids(r)
<1>1. ~Released(q)
  BY DEF Released
<1>2. PICK p \in Pid : {r \in Pid : q \in Kids(r)} = {p}
  BY <1>1 DEF FamilyInv, FamilyTree
<1> QED
  BY <1>2

\* A step of one process that leaves lists, zombies and counts alone, and reaches
\* the end of its reparenting only with an empty list.
LEMMA FamilyQuiet ==
    ASSUME ReapInv, FamilyInv, NEW p \in Pid, NEW step \in Step, Goto(p, step),
           UNCHANGED <<children, zombies, reaped>>,
           \A q \in Pid : q # p => call'[q] = call[q],
           pc[p] \notin {"unborn", "remove_child"},
           step \notin {"unborn", "remove_child", "reparent_zombies"},
           step \in {"cleanup_signals", "terminate", "gone"} => Reparented(p)
                 \/ Kids(p) = {},
           Reparented(p) => step \in {"cleanup_signals", "terminate", "gone"},
           p = InitPid => step \notin ExitSteps \cup {"gone"},
           step = "insert_zombie" =>
              call'[p].parent \in Pid /\ p \in Kids(call'[p].parent)
    PROVE  FamilyInv'
<1> USE PidFacts
<1>1. /\ pc'[p] = step
      /\ \A q \in Pid : q # p => pc'[q] = pc[q]
  BY DEF ReapInv, TypeOK, Goto
<1>2. \A r \in Pid : Kids(r)' = Kids(r)
  BY DEF Kids
<1>3. \A q \in Pid : Released(q)' <=> Released(q)
  BY <1>1 DEF Released
<1>4. \A q \in Pid : Reparented(q) => Reparented(q)'
  BY <1>1 DEF Reparented
<1>5. \A q \in Pid : Reparented(q)' => Reparented(q) \/ Kids(q) = {}
  BY <1>1 DEF Reparented
<1>6. FamilyTree'
  <2>1. ASSUME NEW q \in Pid \ {InitPid}, pc'[q] # "unborn", ~Released(q)'
        PROVE  \E x \in Pid : {r \in Pid : q \in Kids(r)'} = {x} /\ ~Reparented(x)'
    <3>1. pc[q] # "unborn" /\ ~Released(q)
      BY <1>1, <1>3, <2>1
    <3>2. PICK x \in Pid : {r \in Pid : q \in Kids(r)} = {x} /\ ~Reparented(x)
      BY <3>1 DEF FamilyInv, FamilyTree
    <3>3. {r \in Pid : q \in Kids(r)'} = {x}
      BY <1>2, <3>2
    <3> QED
      BY <1>5, <3>2, <3>3
  <2>2. ASSUME NEW q \in Pid \ {InitPid}, zombies'[q] # NoPid
        PROVE  q \in Kids(zombies[q])' \/ Reparented(zombies[q])'
    <3>1. zombies[q] \in Pid
      BY <2>2 DEF ReapInv, TypeOK
    <3> QED
      BY <1>2, <1>4, <2>2, <3>1 DEF FamilyInv, FamilyTree
  <2> QED
    BY <2>1, <2>2 DEF FamilyTree, Kids, Reparented
<1>7. Unborn' /\ InitLives'
  BY <1>1, <1>2 DEF FamilyInv, Unborn, InitLives
<1>8. Moving' /\ Taking'
  BY <1>1, <1>2 DEF FamilyInv, Moving, Taking
<1>9. ParentKnown'
  <2>1. ASSUME NEW q \in Pid, pc'[q] = "insert_zombie"
        PROVE  /\ call'[q].parent \in Pid
               /\ q \in Kids(call'[q].parent) \/ Reparented(call'[q].parent)
    BY <1>1, <2>1 DEF FamilyInv, ParentKnown
  <2> QED
    BY <1>2, <1>4, <2>1 DEF ParentKnown, Kids, Reparented
<1> QED
  BY <1>6, <1>7, <1>8, <1>9 DEF FamilyInv

\* exit looks up the parent: it finds the one that lists the process.
LEMMA GetParentFamily ==
    ASSUME ReapInv, FamilyInv, NEW p \in Pid, GetParent(p)
    PROVE  FamilyInv'
<1>1. pc[p] = "get_parent" /\ p # InitPid
  BY DEF GetParent, At, FamilyInv, InitLives, ExitSteps
<1>2. reaped[p] = 0
  BY <1>1 DEF ReapInv, DiesOnce, Dead
<1>3. PICK r \in Pid : p \in Kids(r)
  BY <1>1, <1>2, Listed
<1>4. PICK parent \in Pid :
        /\ p \in Kids(parent)
        /\ call' = [call EXCEPT ![p].parent = parent]
  BY <1>3 DEF GetParent
<1>5. call'[p].parent = parent /\ \A q \in Pid : q # p => call'[q] = call[q]
  BY <1>4 DEF ReapInv, TypeOK
<1> QED
  BY <1>1, <1>4, <1>5, FamilyQuiet
     DEF GetParent, wait_vars, Reparented, Step, ExitSteps, WaitSteps

\* The record has the parent that was looked up.
LEMMA InsertZombieFamily ==
    ASSUME ReapInv, FamilyInv, NEW p \in Pid, InsertZombie(p)
    PROVE  FamilyInv'
<1> USE PidFacts
<1>1. /\ pc[p] = "insert_zombie" /\ pc'[p] = "send_sigchld"
      /\ \A q \in Pid : q # p => pc'[q] = pc[q]
      /\ zombies'[p] = call[p].parent /\ \A q \in Pid : q # p => zombies'[q] = zombies[q]
      /\ children' = children /\ reaped' = reaped /\ call' = call
  BY DEF InsertZombie, At, Goto, ReapInv, TypeOK
<1>2. \A r \in Pid : Kids(r)' = Kids(r)
  BY <1>1 DEF Kids
<1>3. \A q \in Pid : (Released(q)' <=> Released(q)) /\ (Reparented(q)' <=> Reparented(q))
  BY <1>1 DEF Released, Reparented
<1>4. FamilyTree'
  <2>1. ASSUME NEW q \in Pid \ {InitPid}, pc'[q] # "unborn", ~Released(q)'
        PROVE  \E x \in Pid : {r \in Pid : q \in Kids(r)'} = {x} /\ ~Reparented(x)'
    <3>1. pc[q] # "unborn" /\ ~Released(q)
      BY <1>1, <1>3, <2>1
    <3>2. PICK x \in Pid : {r \in Pid : q \in Kids(r)} = {x} /\ ~Reparented(x)
      BY <3>1 DEF FamilyInv, FamilyTree
    <3> QED
      BY <1>2, <1>3, <3>2
  <2>2. ASSUME NEW q \in Pid \ {InitPid}, zombies'[q] # NoPid
        PROVE  q \in Kids(zombies'[q]) \/ Reparented(zombies'[q])
    BY <1>1, <2>2 DEF FamilyInv, FamilyTree, ParentKnown
  <2>3. \A q \in Pid : zombies'[q] \in Pid \cup {NoPid}
    BY <1>1 DEF FamilyInv, ParentKnown, ReapInv, TypeOK
  <2>4. \A q \in Pid \ {InitPid} :
            zombies'[q] # NoPid => q \in Kids(zombies[q])' \/ Reparented(zombies[q])'
    BY <1>2, <1>3, <2>2, <2>3 DEF Kids, Reparented
  <2> QED
    BY <2>1, <2>4 DEF FamilyTree
<1>5. Unborn' /\ InitLives'
  BY <1>1, <1>2 DEF FamilyInv, Unborn, InitLives, ExitSteps
<1>6. Moving' /\ Taking'
  BY <1>1, <1>2 DEF FamilyInv, Moving, Taking
<1>7. ParentKnown'
  <2>1. ASSUME NEW q \in Pid, pc'[q] = "insert_zombie"
        PROVE  /\ call[q].parent \in Pid
               /\ q \in Kids(call[q].parent) \/ Reparented(call[q].parent)
    BY <1>1, <2>1 DEF FamilyInv, ParentKnown
  <2> QED
    BY <1>1, <1>2, <1>3, <2>1 DEF ParentKnown
<1> QED
  BY <1>4, <1>5, <1>6, <1>7 DEF FamilyInv

\* The dying process's list goes to init as a whole.
LEMMA ReparentFamily ==
    ASSUME ReapInv, FamilyInv, NEW p \in Pid, Reparent(p)
    PROVE  FamilyInv'
<1> USE PidFacts
<1>1. /\ pc[p] = "reparent" /\ pc'[p] = "reparent_zombies" /\ p # InitPid
      /\ \A q \in Pid : q # p => pc'[q] = pc[q] /\ call'[q] = call[q]
      /\ children_lock = NoPid /\ zombies' = zombies /\ reaped' = reaped
      /\ p \in DOMAIN children
      /\ children' = [q \in (DOMAIN children \ {p}) \cup {InitPid} |->
                        IF q = InitPid THEN Kids(q) \cup children[p] ELSE children[q]]
      /\ call'[p].pids = children[p]
  BY DEF Reparent, At, ChildrenFree, Goto, ReapInv, TypeOK, FamilyInv, InitLives, ExitSteps
<1>2. /\ Kids(p)' = {} /\ Kids(InitPid)' = Kids(InitPid) \cup Kids(p)
      /\ \A r \in Pid \ {p, InitPid} : Kids(r)' = Kids(r)
      /\ call'[p].pids = Kids(p)
  BY <1>1 DEF Kids
<1>3. /\ \A q \in Pid : Released(q)' <=> Released(q)
      /\ \A q \in Pid : Reparented(q)' <=> Reparented(q) \/ q = p
      /\ ~Reparented(InitPid) /\ ~Reparented(p)
  BY <1>1 DEF Released, Reparented, FamilyInv, InitLives, ExitSteps
<1>4. FamilyTree'
  <2>1. ASSUME NEW q \in Pid \ {InitPid}, pc'[q] # "unborn", ~Released(q)'
        PROVE  \E x \in Pid : {r \in Pid : q \in Kids(r)'} = {x} /\ ~Reparented(x)'
    <3>1. pc[q] # "unborn" /\ ~Released(q)
      BY <1>1, <1>3, <2>1
    <3>2. PICK x \in Pid : {r \in Pid : q \in Kids(r)} = {x} /\ ~Reparented(x)
      BY <3>1 DEF FamilyInv, FamilyTree
    <3>3. CASE x = p
      <4>1. {r \in Pid : q \in Kids(r)'} = {InitPid}
        BY <1>1, <1>2, <3>2, <3>3
      <4> QED
        BY <1>1, <1>3, <4>1
    <3>4. CASE x # p
      <4>1. {r \in Pid : q \in Kids(r)'} = {x}
        BY <1>2, <3>2, <3>4
      <4> QED
        BY <1>3, <3>2, <3>4, <4>1
    <3> QED
      BY <3>3, <3>4
  <2>2. ASSUME NEW q \in Pid \ {InitPid}, zombies'[q] # NoPid
        PROVE  q \in Kids(zombies[q])' \/ Reparented(zombies[q])'
    <3>1. zombies[q] \in Pid /\ (q \in Kids(zombies[q]) \/ Reparented(zombies[q]))
      BY <1>1, <2>2 DEF ReapInv, TypeOK, FamilyInv, FamilyTree
    <3>2. \A r \in Pid : q \in Kids(r) => q \in Kids(r)' \/ Reparented(r)'
      BY <1>2, <1>3
    <3>3. PICK z \in Pid : z = zombies[q] /\ z = zombies'[q]
      BY <1>1, <3>1
    <3>4. q \in Kids(z)' \/ Reparented(z)'
      BY <1>3, <3>1, <3>2, <3>3
    <3> QED
      BY <3>3, <3>4 DEF Kids, Reparented
  <2> QED
    BY <2>1, <2>2 DEF FamilyTree
<1>5. Unborn' /\ InitLives'
  BY <1>1, <1>2 DEF FamilyInv, Unborn, InitLives, ExitSteps
<1>6. Moving'
  <2>1. \A q \in Pid : pc[q] # "reparent_zombies"
    BY <1>1 DEF ReapInv, Locks, HoldsChildren
  <2> QED
    BY <1>1, <1>2, <2>1 DEF Moving
<1>7. Taking'
  BY <1>1 DEF FamilyInv, Taking
<1>8. ParentKnown'
  <2>1. ASSUME NEW q \in Pid, pc'[q] = "insert_zombie"
        PROVE  call'[q].parent \in Pid /\ (q \in Kids(call[q].parent)'
              \/ Reparented(call[q].parent)')
    <3>1. q # p /\ pc[q] = "insert_zombie" /\ call'[q] = call[q]
      BY <1>1, <2>1
    <3>2. PICK z \in Pid : z = call[q].parent
      BY <3>1 DEF FamilyInv, ParentKnown
    <3>3. q \in Kids(z) \/ Reparented(z)
      BY <3>1, <3>2 DEF FamilyInv, ParentKnown
    <3>4. q \in Kids(z)' \/ Reparented(z)'
      BY <1>2, <1>3, <3>3
    <3> QED
      BY <3>1, <3>2, <3>4 DEF Kids, Reparented
  <2> QED
    BY <2>1 DEF ParentKnown, Kids, Reparented
<1> QED
  BY <1>4, <1>5, <1>6, <1>7, <1>8 DEF FamilyInv

\* Then the records of the zombies among them, with children still locked.
LEMMA ReparentZombiesFamily ==
    ASSUME ReapInv, FamilyInv, NEW p \in Pid, ReparentZombies(p)
    PROVE  FamilyInv'
<1> USE PidFacts
<1>1. /\ pc[p] = "reparent_zombies" /\ pc'[p] = "cleanup_signals"
      /\ \A q \in Pid : q # p => pc'[q] = pc[q]
      /\ \A q \in Pid : zombies'[q] = IF q \in call[p].pids /\ zombies[q] # NoPid
                                      THEN InitPid ELSE zombies[q]
      /\ children' = children /\ reaped' = reaped /\ call' = call
  BY DEF ReparentZombies, At, Goto, ReapInv, TypeOK
<1>2. \A r \in Pid : Kids(r)' = Kids(r)
  BY <1>1 DEF Kids
<1>3. \A q \in Pid : (Released(q)' <=> Released(q)) /\ (Reparented(q)' <=> Reparented(q))
  BY <1>1 DEF Released, Reparented
<1>4. FamilyTree'
  <2>1. ASSUME NEW q \in Pid \ {InitPid}, pc'[q] # "unborn", ~Released(q)'
        PROVE  \E x \in Pid : {r \in Pid : q \in Kids(r)'} = {x} /\ ~Reparented(x)'
    <3>1. pc[q] # "unborn" /\ ~Released(q)
      BY <1>1, <1>3, <2>1
    <3>2. PICK x \in Pid : {r \in Pid : q \in Kids(r)} = {x} /\ ~Reparented(x)
      BY <3>1 DEF FamilyInv, FamilyTree
    <3> QED
      BY <1>2, <1>3, <3>2
  <2>2. ASSUME NEW q \in Pid \ {InitPid}, zombies'[q] # NoPid
        PROVE  q \in Kids(zombies[q])' \/ Reparented(zombies[q])'
    <3>1. zombies[q] \in Pid /\ (q \in Kids(zombies[q]) \/ Reparented(zombies[q]))
      BY <1>1, <2>2 DEF ReapInv, TypeOK, FamilyInv, FamilyTree
    <3>2. PICK z \in Pid : z = zombies'[q]
      BY <1>1, <3>1
    <3>3. q \in Kids(z) \/ Reparented(z)
      <4>1. CASE q \in call[p].pids
        BY <1>1, <2>2, <3>2, <4>1 DEF FamilyInv, Moving
      <4>2. CASE q \notin call[p].pids
        BY <1>1, <3>1, <3>2, <4>2
      <4> QED
        BY <4>1, <4>2
    <3>4. q \in Kids(z)' \/ Reparented(z)'
      BY <1>2, <1>3, <3>3
    <3> QED
      BY <3>2, <3>4 DEF Kids, Reparented
  <2> QED
    BY <2>1, <2>2 DEF FamilyTree
<1>5. Unborn' /\ InitLives'
  BY <1>1, <1>2 DEF FamilyInv, Unborn, InitLives, ExitSteps
<1>6. Moving' /\ Taking'
  BY <1>1, <1>2 DEF FamilyInv, Moving, Taking
<1>7. ParentKnown'
  <2>1. ASSUME NEW q \in Pid, pc'[q] = "insert_zombie"
        PROVE  /\ call[q].parent \in Pid
               /\ q \in Kids(call[q].parent) \/ Reparented(call[q].parent)
    BY <1>1, <2>1 DEF FamilyInv, ParentKnown
  <2> QED
    BY <1>1, <1>2, <1>3, <2>1 DEF ParentKnown
<1> QED
  BY <1>4, <1>5, <1>6, <1>7 DEF FamilyInv

\* wait takes a zombie: it stays in its list until zombies is unlocked.
LEMMA ScanTakesFamily ==
    ASSUME ReapInv, FamilyInv, NEW p \in Pid, NEW q \in Pid, pc[p] = "scan", zombies[q] = p,
           zombies' = [zombies EXCEPT ![q] = NoPid], reaped' = [reaped EXCEPT ![q] = @ + 1],
           call' = [call EXCEPT ![p].pids = {q}], Goto(p, "remove_child"), children' = children
    PROVE  FamilyInv'
<1> USE PidFacts
<1>0. reaped[q] = 0
  BY DEF ReapInv, DiesOnce
<1>1. /\ pc'[p] = "remove_child" /\ \A r \in Pid : r # p => pc'[r] = pc[r]
          /\ call'[r] = call[r]
      /\ zombies'[q] = NoPid /\ \A r \in Pid : r # q => zombies'[r] = zombies[r]
      /\ reaped'[q] = 1 /\ \A r \in Pid : r # q => reaped'[r] = reaped[r]
      /\ call'[p].pids = {q}
  BY <1>0 DEF Goto, ReapInv, TypeOK
<1>2. \A r \in Pid : Kids(r)' = Kids(r)
  BY DEF Kids
<1>3. /\ \A r \in Pid : Released(r)' => Released(r)
      /\ \A r \in Pid : Reparented(r)' <=> Reparented(r)
  BY <1>1 DEF Released, Reparented
<1>4. \A r \in Pid : Released(r) => Released(r)'
  BY <1>0, <1>1 DEF Released
<1>5. FamilyTree'
  <2>1. ASSUME NEW s \in Pid \ {InitPid}, pc'[s] # "unborn", ~Released(s)'
        PROVE  \E x \in Pid : {r \in Pid : s \in Kids(r)'} = {x} /\ ~Reparented(x)'
    <3>1. pc[s] # "unborn" /\ ~Released(s)
      BY <1>1, <1>4, <2>1
    <3>2. PICK x \in Pid : {r \in Pid : s \in Kids(r)} = {x} /\ ~Reparented(x)
      BY <3>1 DEF FamilyInv, FamilyTree
    <3> QED
      BY <1>2, <1>3, <3>2
  <2>2. ASSUME NEW s \in Pid \ {InitPid}, zombies'[s] # NoPid
        PROVE  s \in Kids(zombies[s])' \/ Reparented(zombies[s])'
    <3>1. zombies'[s] = zombies[s] /\ zombies[s] \in Pid
      BY <1>1, <2>2 DEF ReapInv, TypeOK
    <3>2. PICK z \in Pid : z = zombies'[s] /\ z = zombies[s]
      BY <3>1
    <3>3. s \in Kids(z) \/ Reparented(z)
      BY <2>2, <3>2 DEF FamilyInv, FamilyTree
    <3>4. s \in Kids(z)' \/ Reparented(z)'
      BY <1>2, <1>3, <3>3
    <3> QED
      BY <3>2, <3>4 DEF Kids, Reparented
  <2> QED
    BY <2>1, <2>2 DEF FamilyTree
<1>6. Unborn' /\ InitLives'
  BY <1>1, <1>2 DEF FamilyInv, Unborn, InitLives, ExitSteps
<1>7. Moving'
  BY <1>1, <1>2 DEF FamilyInv, Moving
<1>8. Taking'
  BY <1>1 DEF FamilyInv, Taking
<1>9. ParentKnown'
  <2>1. ASSUME NEW s \in Pid, pc'[s] = "insert_zombie"
        PROVE  /\ call'[s] = call[s] /\ call[s].parent \in Pid
               /\ s \in Kids(call[s].parent) \/ Reparented(call[s].parent)
    BY <1>1, <2>1 DEF FamilyInv, ParentKnown
  <2> QED
    BY <1>2, <1>3, <2>1 DEF ParentKnown
<1> QED
  BY <1>5, <1>6, <1>7, <1>8, <1>9 DEF FamilyInv

\* Then it goes from the list.
LEMMA RemoveChildFamily ==
    ASSUME ReapInv, FamilyInv, NEW p \in Pid, RemoveChild(p)
    PROVE  FamilyInv'
<1> USE PidFacts
<1>1. /\ pc[p] = "remove_child" /\ pc'[p] = "user" /\ children_lock = NoPid
      /\ \A r \in Pid : r # p => pc'[r] = pc[r] /\ call'[r] = call[r]
      /\ children' = [q \in DOMAIN children |->
                        IF q = p THEN children[q] \ call[p].pids ELSE children[q]]
      /\ zombies' = zombies /\ reaped' = reaped
  BY DEF RemoveChild, ChildrenFree, Return, At, Goto, ReapInv, TypeOK
<1>2. Kids(p)' = Kids(p) \ call[p].pids /\ \A r \in Pid : r # p => Kids(r)' = Kids(r)
  BY <1>1 DEF Kids
<1>3. \A q \in call[p].pids : reaped[q] = 1 /\ zombies[q] = NoPid /\ q \in Pid
  BY <1>1 DEF FamilyInv, Taking, ReapInv, DiesOnce, TypeOK
<1>4. \A r \in Pid : r # p => pc[r] # "remove_child"
  BY <1>1 DEF ReapInv, Locks, HoldsZombies
<1>5. /\ \A r \in Pid : Released(r)' <=> Released(r) \/ r \in call[p].pids
      /\ \A r \in Pid : Reparented(r)' <=> Reparented(r)
  BY <1>1, <1>3, <1>4 DEF Released, Reparented
<1>6. FamilyTree'
  <2>1. ASSUME NEW s \in Pid \ {InitPid}, pc'[s] # "unborn", ~Released(s)'
        PROVE  \E x \in Pid : {r \in Pid : s \in Kids(r)'} = {x} /\ ~Reparented(x)'
    <3>1. pc[s] # "unborn" /\ ~Released(s) /\ s \notin call[p].pids
      BY <1>1, <1>5, <2>1
    <3>2. PICK x \in Pid : {r \in Pid : s \in Kids(r)} = {x} /\ ~Reparented(x)
      BY <3>1 DEF FamilyInv, FamilyTree
    <3>3. \A r \in Pid : s \in Kids(r)' <=> s \in Kids(r)
      BY <1>2, <3>1
    <3> QED
      BY <1>5, <3>2, <3>3
  <2>2. ASSUME NEW s \in Pid \ {InitPid}, zombies'[s] # NoPid
        PROVE  s \in Kids(zombies[s])' \/ Reparented(zombies[s])'
    <3>1. PICK z \in Pid : z = zombies'[s] /\ z = zombies[s]
      BY <1>1, <2>2 DEF ReapInv, TypeOK
    <3>2. s \notin call[p].pids /\ (s \in Kids(z) \/ Reparented(z))
      BY <1>1, <1>3, <2>2, <3>1 DEF FamilyInv, FamilyTree
    <3>3. s \in Kids(z)' \/ Reparented(z)'
      BY <1>2, <1>5, <3>2
    <3> QED
      BY <3>1, <3>3 DEF Kids, Reparented
  <2> QED
    BY <2>1, <2>2 DEF FamilyTree
<1>7. Unborn' /\ InitLives'
  BY <1>1, <1>2 DEF FamilyInv, Unborn, InitLives, ExitSteps
<1>8. Moving'
  <2>1. \A q \in Pid : pc'[q] # "reparent_zombies"
    BY <1>1 DEF ReapInv, Locks, HoldsChildren
  <2> QED
    BY <2>1 DEF Moving
<1>9. Taking'
  BY <1>1 DEF FamilyInv, Taking
<1>10. ParentKnown'
  <2>1. ASSUME NEW s \in Pid, pc'[s] = "insert_zombie"
        PROVE  call'[s].parent \in Pid
               /\ (s \in Kids(call[s].parent)' \/ Reparented(call[s].parent)')
    <3>1. s # p /\ pc[s] = "insert_zombie" /\ call'[s] = call[s]
      BY <1>1, <2>1
    <3>2. PICK z \in Pid : z = call[s].parent
      BY <3>1 DEF FamilyInv, ParentKnown
    <3>3. s \in Kids(z) \/ Reparented(z)
      BY <3>1, <3>2 DEF FamilyInv, ParentKnown
    <3>4. s \notin call[p].pids
      BY <1>3, <3>1 DEF ReapInv, DiesOnce, Dead
    <3>5. s \in Kids(z)' \/ Reparented(z)'
      BY <1>2, <1>5, <3>3, <3>4
    <3> QED
      BY <3>1, <3>2, <3>5 DEF Kids, Reparented
  <2> QED
    BY <2>1 DEF ParentKnown, Kids, Reparented
<1> QED
  BY <1>6, <1>7, <1>8, <1>9, <1>10 DEF FamilyInv

\* A new process is in its creator's list only.
LEMMA ForkFamily ==
    ASSUME ReapInv, FamilyInv, NEW p \in Pid, NEW child \in Pid, Fork(p, child)
    PROVE  FamilyInv'
<1> USE PidFacts
<1>1. /\ pc[p] = "user" /\ pc[child] = "unborn" /\ pc'[child] = "user"
          /\ children_lock = NoPid
      /\ \A r \in Pid : r # child => pc'[r] = pc[r]
      /\ children' = [q \in DOMAIN children \cup {p} |->
                        IF q = p THEN Kids(q) \cup {child} ELSE children[q]]
      /\ zombies' = zombies /\ reaped' = reaped /\ call' = call
  BY DEF Fork, ChildrenFree, At, Goto, ReapInv, TypeOK
<1>2. Kids(p)' = Kids(p) \cup {child} /\ \A r \in Pid : r # p => Kids(r)' = Kids(r)
  BY <1>1 DEF Kids
<1>3. \A r \in Pid : (Released(r)' <=> Released(r)) /\ (Reparented(r)' <=> Reparented(r))
  BY <1>1 DEF Released, Reparented
<1>4. FamilyTree'
  <2>1. ASSUME NEW s \in Pid \ {InitPid}, pc'[s] # "unborn", ~Released(s)'
        PROVE  \E x \in Pid : {r \in Pid : s \in Kids(r)'} = {x} /\ ~Reparented(x)'
    <3>1. CASE s = child
      <4>1. {r \in Pid : s \in Kids(r)'} = {p}
        BY <1>1, <1>2, <3>1 DEF FamilyInv, Unborn
      <4>2. ~Reparented(p)
        BY <1>1 DEF Reparented
      <4> QED
        BY <1>3, <4>1, <4>2
    <3>2. CASE s # child
      <4>1. pc[s] # "unborn" /\ ~Released(s)
        BY <1>1, <1>3, <2>1, <3>2
      <4>2. PICK x \in Pid : {r \in Pid : s \in Kids(r)} = {x} /\ ~Reparented(x)
        BY <4>1 DEF FamilyInv, FamilyTree
      <4>3. \A r \in Pid : s \in Kids(r)' <=> s \in Kids(r)
        BY <1>2, <3>2
      <4> QED
        BY <1>3, <4>2, <4>3
    <3> QED
      BY <3>1, <3>2
  <2>2. ASSUME NEW s \in Pid \ {InitPid}, zombies'[s] # NoPid
        PROVE  s \in Kids(zombies[s])' \/ Reparented(zombies[s])'
    <3>1. PICK z \in Pid : z = zombies'[s] /\ z = zombies[s]
      BY <1>1, <2>2 DEF ReapInv, TypeOK
    <3>2. s \in Kids(z) \/ Reparented(z)
      BY <1>1, <2>2, <3>1 DEF FamilyInv, FamilyTree
    <3>3. s \in Kids(z)' \/ Reparented(z)'
      BY <1>2, <1>3, <3>2
    <3> QED
      BY <3>1, <3>3 DEF Kids, Reparented
  <2> QED
    BY <2>1, <2>2 DEF FamilyTree
<1>5. Unborn' /\ InitLives'
  BY <1>1, <1>2 DEF FamilyInv, Unborn, InitLives, ExitSteps
<1>6. Moving' /\ Taking'
  <2>1. \A q \in Pid : pc'[q] # "reparent_zombies"
    BY <1>1 DEF ReapInv, Locks, HoldsChildren
  <2> QED
    BY <1>1, <2>1 DEF FamilyInv, Moving, Taking
<1>7. ParentKnown'
  <2>1. ASSUME NEW s \in Pid, pc'[s] = "insert_zombie"
        PROVE  /\ call[s].parent \in Pid
               /\ s \in Kids(call[s].parent) \/ Reparented(call[s].parent)
    BY <1>1, <2>1 DEF FamilyInv, ParentKnown
  <2> QED
    BY <1>1, <1>2, <1>3, <2>1 DEF ParentKnown
<1> QED
  BY <1>4, <1>5, <1>6, <1>7 DEF FamilyInv

\* The steps of exit: only the three that move lists and records are not quiet.
LEMMA ExitFamily ==
    ASSUME ReapInv, FamilyInv, NEW p \in Pid, ExitStep(p)
    PROVE  FamilyInv'
<1>1. pc[p] \in ExitSteps => p # InitPid
  BY DEF FamilyInv, InitLives
<1>3. CASE SendSigchld(p)
  <2>1. PICK step \in {"wake_signalled", "check_waiters"} : Goto(p, step)
    BY <1>3 DEF SendSigchld
  <2> QED
    BY <1>1, <1>3, <2>1, FamilyQuiet
       DEF SendSigchld, At, wait_vars, Reparented, Step, ExitSteps, WaitSteps
<1>4. CASE WakeSignalled(p)
  BY <1>1, <1>4, FamilyQuiet
     DEF WakeSignalled, At, wait_vars, Reparented, Step, ExitSteps, WaitSteps
<1>5. CASE CheckWaiters(p)
  <2>1. PICK step \in {"wake_waiter", "reparent"} : Goto(p, step)
    BY <1>5 DEF CheckWaiters
  <2> QED
    BY <1>1, <1>5, <2>1, FamilyQuiet
       DEF CheckWaiters, At, wait_vars, Reparented, Step, ExitSteps, WaitSteps
<1>6. CASE WakeWaiter(p)
  BY <1>1, <1>6, FamilyQuiet
     DEF WakeWaiter, At, wait_vars, Reparented, Step, ExitSteps, WaitSteps
<1>7. CASE ReparentNone(p)
  <2>1. Kids(p) = {}
    BY <1>7 DEF ReparentNone, Kids
  <2> QED
    BY <1>1, <1>7, <2>1, FamilyQuiet
       DEF ReparentNone, At, wait_vars, Reparented, Step, ExitSteps, WaitSteps
<1>8. CASE CleanupSignals(p)
  <2>1. PICK step \in {"gone", "terminate"} : Goto(p, step)
    BY <1>8 DEF CleanupSignals
  <2>2. \A q \in Pid : q # p => call'[q] = call[q]
    BY <1>8 DEF CleanupSignals, ReapInv, TypeOK
  <2> QED
    BY <1>1, <1>8, <2>1, <2>2, FamilyQuiet
       DEF CleanupSignals, At, Reparented, Step, ExitSteps, WaitSteps
<1>9. CASE Terminate(p)
  BY <1>1, <1>9, FamilyQuiet
     DEF Terminate, At, wait_vars, Reparented, Step, ExitSteps, WaitSteps
<1> QED
  BY <1>3, <1>4, <1>5, <1>6, <1>7, <1>8, <1>9, GetParentFamily, InsertZombieFamily,
     ReparentFamily, ReparentZombiesFamily DEF ExitStep

\* The steps of wait: all are quiet but the two that take a zombie.
LEMMA WaitFamily ==
    ASSUME ReapInv, FamilyInv, NEW p \in Pid, WaitStep(p)
    PROVE  FamilyInv'
<1> DEFINE Back == /\ pc[p] \in {"get_children", "scan"}
                   /\ Return(p)
                   /\ UNCHANGED <<children, zombies, reaped>>
<1>1. ASSUME Back PROVE FamilyInv'
  <2>1. \A q \in Pid : q # p => call'[q] = call[q]
    BY <1>1 DEF Return, ReapInv, TypeOK
  <2> QED
    BY <1>1, <2>1, FamilyQuiet DEF Return, Reparented, Step, ExitSteps, WaitSteps
<1>2. CASE GetChildren(p)
  <2>1. CASE Kids(p) = {}
    <3>1. Back
      BY <1>2, <2>1 DEF GetChildren, At, wait_vars
    <3> QED
      BY <1>1, <3>1
  <2>2. CASE Kids(p) # {}
    BY <1>2, <2>2, FamilyQuiet
       DEF GetChildren, At, wait_vars, Reparented, Step, ExitSteps, WaitSteps
  <2> QED
    BY <2>1, <2>2
<1>3. CASE ScanFinds(p)
  <2>1. PICK q \in Pid :
          /\ FirstMatch(p, q)
          /\ \/ /\ Return(p)
                /\ UNCHANGED <<zombies, reaped>>
             \/ /\ zombies' = [zombies EXCEPT ![q] = NoPid]
                /\ reaped' = [reaped EXCEPT ![q] = @ + 1]
                /\ call' = [call EXCEPT ![p].pids = {q}]
                /\ Goto(p, "remove_child")
    BY <1>3 DEF ScanFinds
  <2>2. pc[p] = "scan" /\ children' = children /\ zombies[q] = p
    BY <1>3, <2>1 DEF ScanFinds, At, FirstMatch, Matches
  <2>3. CASE Return(p) /\ UNCHANGED <<zombies, reaped>>
    BY <1>1, <2>2, <2>3
  <2>4. CASE /\ zombies' = [zombies EXCEPT ![q] = NoPid]
             /\ reaped' = [reaped EXCEPT ![q] = @ + 1]
             /\ call' = [call EXCEPT ![p].pids = {q}]
             /\ Goto(p, "remove_child")
    BY <2>2, <2>4, ScanTakesFamily
  <2> QED
    BY <2>1, <2>3, <2>4
<1>4. CASE ScanFails(p)
  <2>1. Back
    BY <1>4 DEF ScanFails, At, wait_vars
  <2> QED
    BY <1>1, <2>1
<1>5. CASE ScanBlocks(p)
  BY <1>5, FamilyQuiet DEF ScanBlocks, At, wait_vars, Reparented, Step, ExitSteps, WaitSteps
<1>6. CASE Register(p)
  BY <1>6, FamilyQuiet DEF Register, At, Reparented, Step, ExitSteps, WaitSteps
<1>7. CASE Block(p)
  BY <1>7, FamilyQuiet DEF Block, At, wait_vars, Reparented, Step, ExitSteps, WaitSteps
<1>8. CASE Unlock(p)
  <2>1. \A q \in Pid : q # p => call'[q] = call[q]
    BY <1>8 DEF Unlock, ReapInv, TypeOK
  <2> QED
    BY <1>8, <2>1, FamilyQuiet
       DEF Unlock, At, wait_vars, Reparented, Step, ExitSteps, WaitSteps
<1> QED
  BY <1>2, <1>3, <1>4, <1>5, <1>6, <1>7, <1>8, RemoveChildFamily DEF WaitStep

\* exit and wait begin: init does not exit.
LEMMA BeginFamily ==
    ASSUME ReapInv, FamilyInv, NEW p \in Pid,
           \/ Exit(p)
           \/ \E request \in WaitRequests : Wait(p, request)
    PROVE  FamilyInv'
<1>1. ASSUME Exit(p) PROVE FamilyInv'
  <2>1. \A q \in Pid : q # p => call'[q] = call[q]
    BY <1>1 DEF Exit, ReapInv, TypeOK
  <2> QED
    BY <1>1, <2>1, FamilyQuiet
       DEF Exit, At, wait_vars, Reparented, Step, ExitSteps, WaitSteps
<1>2. ASSUME NEW request \in WaitRequests, Wait(p, request) PROVE FamilyInv'
  <2>1. \A q \in Pid : q # p => call'[q] = call[q]
    BY <1>2 DEF Wait, ReapInv, TypeOK
  <2> QED
    BY <1>2, <2>1, FamilyQuiet
       DEF Wait, At, wait_vars, Reparented, Step, ExitSteps, WaitSteps
<1> QED
  BY <1>1, <1>2

LEMMA FamilyInvariant == Spec => []FamilyInv
<1>1. Init => FamilyInv
  <2> SUFFICES ASSUME Init PROVE FamilyInv
    OBVIOUS
  <2>1. \A r \in Pid : Kids(r) = {}
    BY DEF Init, Kids
  <2>2. /\ \A q \in Pid \ {InitPid} : pc[q] = "unborn"
        /\ \A q \in Pid : zombies[q] = NoPid
        /\ pc[InitPid] = "user"
    BY PidFacts DEF Init
  <2> QED
    BY <2>1, <2>2 DEF FamilyInv, FamilyTree, Unborn, InitLives, Moving, Taking,
                      ParentKnown, ExitSteps
<1>2. ASSUME ReapInv, FamilyInv, [Next]_vars PROVE FamilyInv'
  <2>1. ASSUME UNCHANGED <<children, zombies, reaped, pc, call>> PROVE FamilyInv'
    BY <1>2, <2>1 DEF FamilyInv, FamilyTree, Released, Reparented, Kids, Unborn,
                      InitLives, Moving, Taking, ParentKnown
  <2>2. ASSUME NEW p \in Pid, Deschedule(p) \/ Kill(p) PROVE FamilyInv'
    BY <2>1, <2>2 DEF Deschedule, Kill, wait_vars
  <2>3. CASE Next
    BY <1>2, <2>2, <2>3, ExitFamily, WaitFamily, BeginFamily, ForkFamily DEF Next
  <2>4. CASE UNCHANGED vars
    BY <2>1, <2>4 DEF vars, wait_vars
  <2> QED
    BY <1>2, <2>3, <2>4
<1> QED
  BY <1>1, <1>2, ReapInvariant, PTL DEF Spec

(***************************************************************************)
(* The family tree is whole for any number of processes that fork, exit    *)
(* and wait at once: until it is reaped a process is in the list of one    *)
(* parent that is still to give its list away, and a zombie's record names *)
(* the parent that lists it, or one that has died since the lookup in      *)
(* exit.                                                                   *)
(***************************************************************************)
THEOREM FamilyTreeWhole == Spec => []FamilyTree
<1>1. FamilyInv => FamilyTree
  BY DEF FamilyInv
<1> QED
  BY <1>1, FamilyInvariant, PTL

================================================================================
