------------------------------ MODULE ProcessWait ------------------------------
(***************************************************************************)
(* Exit, wait and reparenting, kernel/src/process/wait.rs, with the parts  *)
(* of process/signal.rs and sched/mod.rs they call.  Processes run in the  *)
(* kernel at once, on several CPUs or preempted by the timer: one step is  *)
(* one critical section, and the two mutexes that stay held over several   *)
(* of them, zombies in wait and children in reparent_children, are state.  *)
(*                                                                         *)
(* block only marks the caller: it runs on until the timer takes the CPU   *)
(* (Deschedule), and from then on not before somebody wakes it.  This is   *)
(* preemption as switch_to keeps the books; today's AArch64 switch_to      *)
(* changes no registers, and on x86_64 nothing drives the scheduler.  A    *)
(* process that is Ready or Running can always take its next step; which   *)
(* of them the CPUs prefer is the matter of module Scheduler.              *)
(*                                                                         *)
(* exit_signal is left out: nothing calls it.  It neither looks at the     *)
(* waiters nor tells the scheduler that the process has ended.             *)
(***************************************************************************)
EXTENDS Integers, FiniteSets

CONSTANTS
    NumPids,    \* bound: processes ever created, init among them
    NoPid,
    WaitRequests    \* targets and options processes call wait with

Pid == 1 .. NumPids
InitPid == 1

(* "retry" is the second, non-blocking round of a wait that has blocked.   *)
(* Target NoPid is WaitTarget::Any; ProcessGroup(p) is Pid(p).             *)
Mode == {"block", "nohang", "retry"}
WaitRequest == [target : Pid \cup {NoPid}, mode : Mode \ {"retry"}, wnowait : BOOLEAN]

ASSUME ProcessWaitAssumption ==
    /\ NumPids \in Nat \ {0}
    /\ NoPid \notin Nat
    /\ WaitRequests \subseteq WaitRequest

VARIABLES
    children,       \* the map parent -> set of children
    zombies,        \* pid -> parent of the zombie, NoPid if there is none
    waiters,        \* pids with a WaitRequest
    signals,        \* pids with a SignalState
    zombies_lock,   \* who holds the mutex between two steps
    children_lock,
    state,          \* what the scheduler knows
    off,            \* blocked processes that have lost their CPU
    pc,             \* next step of each process
    call,           \* arguments and locals of the running call
    reaped          \* history: how often wait has handed out a pid for good

wait_vars == <<children, zombies, waiters, signals>>
locks == <<zombies_lock, children_lock>>
sched == <<state, off>>
vars == <<wait_vars, locks, sched, pc, call, reaped>>

--------------------------------------------------------------------------------

ExitSteps ==
    {"get_parent", "insert_zombie", "send_sigchld", "wake_signalled", "check_waiters",
     "wake_waiter", "reparent", "reparent_zombies", "cleanup_signals", "terminate"}
WaitSteps == {"get_children", "scan", "remove_child", "register", "block", "unlock"}
Step == {"unborn", "user", "gone"} \cup ExitSteps \cup WaitSteps

NoCall == [parent |-> NoPid, target |-> NoPid, mode |-> "block", wnowait |-> FALSE,
           pids |-> {}]

Init ==
    /\ children = << >>
    /\ zombies = [p \in Pid |-> NoPid]
    /\ waiters = {}
    /\ signals \in SUBSET {InitPid}
    /\ zombies_lock = NoPid
    /\ children_lock = NoPid
    /\ state = [p \in Pid |-> "Ready"]
    /\ off = {}
    /\ pc = [p \in Pid |-> IF p = InitPid THEN "user" ELSE "unborn"]
    /\ call = [p \in Pid |-> NoCall]
    /\ reaped = [p \in Pid |-> 0]

--------------------------------------------------------------------------------

At(p, step) == pc[p] = step /\ p \notin off
Goto(p, step) == pc' = [pc EXCEPT ![p] = step]
Return(p) == Goto(p, "user") /\ call' = [call EXCEPT ![p] = NoCall]

(* get_children: no entry reads as no children *)
Kids(p) == IF p \in DOMAIN children THEN children[p] ELSE {}

ZombiesFree == zombies_lock = NoPid
ChildrenFree == children_lock = NoPid

(* Scheduler::wake *)
Wake(p) ==
    IF state[p] = "Blocked"
    THEN state' = [state EXCEPT ![p] = "Ready"] /\ off' = off \ {p}
    ELSE UNCHANGED sched

(* the timer switches to another process *)
Deschedule(p) ==
    /\ state[p] = "Blocked" /\ p \notin off
    /\ off' = off \cup {p}
    /\ UNCHANGED <<wait_vars, locks, state, pc, call, reaped>>

(* a process is created: add_child and, if the creator cares, init_process *)
Fork(p, child) ==
    /\ At(p, "user")
    /\ pc[child] = "unborn"
    /\ ChildrenFree
    /\ children' = [q \in DOMAIN children \cup {p} |->
                    IF q = p THEN Kids(q) \cup {child} ELSE children[q]]
    /\ signals' \in {signals, signals \cup {child}}
    /\ Goto(child, "user")
    /\ UNCHANGED <<zombies, waiters, locks, sched, call, reaped>>

(* SignalManager::send from elsewhere: the target is woken *)
Kill(p) ==
    /\ p \in signals /\ state[p] = "Blocked"
    /\ Wake(p)
    /\ UNCHANGED <<wait_vars, locks, pc, call, reaped>>

--------------------------------------------------------------------------------
(* exit *)

Exit(p) ==
    /\ At(p, "user") /\ p # InitPid
    /\ call' = [call EXCEPT ![p] = NoCall]
    /\ Goto(p, "get_parent")
    /\ UNCHANGED <<wait_vars, locks, sched, reaped>>

GetParent(p) ==
    /\ At(p, "get_parent") /\ ChildrenFree
    /\ \E parent \in Pid :
        /\ \/ p \in Kids(parent)
           \/ parent = InitPid /\ \A q \in Pid : p \notin Kids(q)
        /\ call' = [call EXCEPT ![p].parent = parent]
    /\ Goto(p, "insert_zombie")
    /\ UNCHANGED <<wait_vars, locks, sched, reaped>>

InsertZombie(p) ==
    /\ At(p, "insert_zombie") /\ ZombiesFree
    /\ zombies' = [zombies EXCEPT ![p] = call[p].parent]
    /\ Goto(p, "send_sigchld")
    /\ UNCHANGED <<children, waiters, signals, locks, sched, call, reaped>>

SendSigchld(p) ==
    /\ At(p, "send_sigchld")
    /\ Goto(p, IF call[p].parent \in signals THEN "wake_signalled" ELSE "check_waiters")
    /\ UNCHANGED <<wait_vars, locks, sched, call, reaped>>

WakeSignalled(p) ==
    /\ At(p, "wake_signalled")
    /\ Wake(call[p].parent)
    /\ Goto(p, "check_waiters")
    /\ UNCHANGED <<wait_vars, locks, call, reaped>>

CheckWaiters(p) ==
    /\ At(p, "check_waiters")
    /\ Goto(p, IF call[p].parent \in waiters THEN "wake_waiter" ELSE "reparent")
    /\ UNCHANGED <<wait_vars, locks, sched, call, reaped>>

WakeWaiter(p) ==
    /\ At(p, "wake_waiter")
    /\ Wake(call[p].parent)
    /\ Goto(p, "reparent")
    /\ UNCHANGED <<wait_vars, locks, call, reaped>>

(* reparent_children: if the dying process has an entry, even an empty one, *)
(* children stays locked while zombies is locked                            *)
ReparentNone(p) ==
    /\ At(p, "reparent") /\ ChildrenFree
    /\ p \notin DOMAIN children
    /\ Goto(p, "cleanup_signals")
    /\ UNCHANGED <<wait_vars, locks, sched, call, reaped>>

\* Wrong variant: children is unlocked before zombies is locked.
ReparentUnlocked(p) ==
    /\ At(p, "reparent") /\ ChildrenFree
    /\ p \in DOMAIN children
    /\ children' = [q \in (DOMAIN children \ {p}) \cup {InitPid} |->
                    IF q = InitPid THEN Kids(q) \cup children[p] ELSE children[q]]
    /\ call' = [call EXCEPT ![p].pids = children[p]]
    /\ Goto(p, "reparent_zombies")
    /\ UNCHANGED <<zombies, waiters, signals, locks, sched, reaped>>

\* Wrong variant: init's own list is replaced by the dying process's.
ReparentReplaces(p) ==
    /\ At(p, "reparent") /\ ChildrenFree
    /\ p \in DOMAIN children
    /\ children' = [q \in (DOMAIN children \ {p}) \cup {InitPid} |->
                    IF q = InitPid THEN children[p] ELSE children[q]]
    /\ call' = [call EXCEPT ![p].pids = children[p]]
    /\ children_lock' = p
    /\ Goto(p, "reparent_zombies")
    /\ UNCHANGED <<zombies, waiters, signals, zombies_lock, sched, reaped>>

Reparent(p) ==
    /\ At(p, "reparent") /\ ChildrenFree
    /\ p \in DOMAIN children
    /\ children' = [q \in (DOMAIN children \ {p}) \cup {InitPid} |->
                    IF q = InitPid THEN Kids(q) \cup children[p] ELSE children[q]]
    /\ call' = [call EXCEPT ![p].pids = children[p]]
    /\ children_lock' = p
    /\ Goto(p, "reparent_zombies")
    /\ UNCHANGED <<zombies, waiters, signals, zombies_lock, sched, reaped>>

ReparentZombies(p) ==
    /\ At(p, "reparent_zombies") /\ ZombiesFree
    /\ zombies' = [q \in Pid |-> IF q \in call[p].pids /\ zombies[q] # NoPid
                                 THEN InitPid ELSE zombies[q]]
    /\ children_lock' = NoPid
    /\ Goto(p, "cleanup_signals")
    /\ UNCHANGED <<children, waiters, signals, zombies_lock, sched, call, reaped>>

CleanupSignals(p) ==
    /\ At(p, "cleanup_signals")
    /\ signals' = signals \ {p}
    /\ call' = [call EXCEPT ![p].pids = {}]
    /\ Goto(p, "terminate")
    /\ UNCHANGED <<children, zombies, waiters, locks, sched, reaped>>

Terminate(p) ==
    /\ At(p, "terminate")
    /\ state' = [state EXCEPT ![p] = "Terminated"]
    /\ Goto(p, "gone")
    /\ UNCHANGED <<wait_vars, locks, off, call, reaped>>

--------------------------------------------------------------------------------
(* wait *)

Wait(p, request) ==
    /\ At(p, "user")
    /\ call' = [call EXCEPT ![p] =
                [NoCall EXCEPT !.target = request.target, !.mode = request.mode,
                               !.wnowait = request.wnowait]]
    /\ Goto(p, "get_children")
    /\ UNCHANGED <<wait_vars, locks, sched, reaped>>

(* NoChildren *)
GetChildren(p) ==
    /\ At(p, "get_children") /\ ChildrenFree
    /\ IF Kids(p) = {} THEN Return(p) ELSE Goto(p, "scan") /\ UNCHANGED call
    /\ UNCHANGED <<wait_vars, locks, sched, reaped>>

Matches(p, q) ==
    zombies[q] = p /\ call[p].target \in {NoPid, q}

(* the first match in the order of the map *)
FirstMatch(p, q) == Matches(p, q) /\ \A r \in Pid : Matches(p, r) => q <= r

\* Wrong variant: the record is cloned whether or not wnowait is set.
ScanFindsKeeps(p) ==
    /\ At(p, "scan") /\ ZombiesFree
    /\ \E q \in Pid :
        /\ FirstMatch(p, q)
        /\ reaped' = IF call[p].wnowait THEN reaped ELSE [reaped EXCEPT ![q] = @ + 1]
    /\ Return(p)
    /\ UNCHANGED <<wait_vars, locks, sched>>

(* A zombie is found: it is looked at, or taken, and then zombies stays    *)
(* locked for remove_child.                                                *)
ScanFinds(p) ==
    /\ At(p, "scan") /\ ZombiesFree
    /\ \E q \in Pid :
        /\ FirstMatch(p, q)
        /\ \/ /\ call[p].wnowait
              /\ Return(p)
              /\ UNCHANGED <<zombies, zombies_lock, reaped>>
           \/ /\ ~call[p].wnowait
              /\ zombies' = [zombies EXCEPT ![q] = NoPid]
              /\ reaped' = [reaped EXCEPT ![q] = @ + 1]
              /\ call' = [call EXCEPT ![p].pids = {q}]
              /\ zombies_lock' = p
              /\ Goto(p, "remove_child")
    /\ UNCHANGED <<children, waiters, signals, children_lock, sched>>

RemoveChild(p) ==
    /\ At(p, "remove_child") /\ ChildrenFree
    /\ children' = [q \in DOMAIN children |->
                    IF q = p THEN children[q] \ call[p].pids ELSE children[q]]
    /\ zombies_lock' = NoPid
    /\ Return(p)
    /\ UNCHANGED <<zombies, waiters, signals, children_lock, sched, reaped>>

ScanFails(p) ==
    /\ At(p, "scan") /\ ZombiesFree
    /\ \A q \in Pid : ~Matches(p, q)
    /\ call[p].mode # "block"
    /\ Return(p)
    /\ UNCHANGED <<wait_vars, locks, sched, reaped>>

\* Wrong variant: zombies is unlocked before the caller is a waiter.
ScanBlocksUnlocked(p) ==
    /\ At(p, "scan") /\ ZombiesFree
    /\ \A q \in Pid : ~Matches(p, q)
    /\ call[p].mode = "block"
    /\ Goto(p, "register")
    /\ UNCHANGED <<wait_vars, locks, sched, call, reaped>>

(* zombies stays locked until the caller is marked Blocked *)
ScanBlocks(p) ==
    /\ At(p, "scan") /\ ZombiesFree
    /\ \A q \in Pid : ~Matches(p, q)
    /\ call[p].mode = "block"
    /\ zombies_lock' = p
    /\ Goto(p, "register")
    /\ UNCHANGED <<wait_vars, children_lock, sched, call, reaped>>

Register(p) ==
    /\ At(p, "register")
    /\ waiters' = waiters \cup {p}
    /\ Goto(p, "block")
    /\ UNCHANGED <<children, zombies, signals, locks, sched, call, reaped>>

Block(p) ==
    /\ At(p, "block")
    /\ state' = [state EXCEPT ![p] = "Blocked"]
    /\ Goto(p, "unlock")
    /\ UNCHANGED <<wait_vars, locks, off, call, reaped>>

(* once more, with nohang and the other options reset *)
Unlock(p) ==
    /\ At(p, "unlock")
    /\ zombies_lock' = NoPid
    /\ call' = [call EXCEPT ![p].mode = "retry", ![p].wnowait = FALSE]
    /\ Goto(p, "get_children")
    /\ UNCHANGED <<wait_vars, children_lock, sched, reaped>>

--------------------------------------------------------------------------------

ExitStep(p) ==
    \/ GetParent(p) \/ InsertZombie(p) \/ SendSigchld(p) \/ WakeSignalled(p)
    \/ CheckWaiters(p) \/ WakeWaiter(p) \/ ReparentNone(p) \/ Reparent(p)
    \/ ReparentZombies(p) \/ CleanupSignals(p) \/ Terminate(p)

WaitStep(p) ==
    \/ GetChildren(p) \/ ScanFinds(p) \/ RemoveChild(p) \/ ScanFails(p)
    \/ ScanBlocks(p) \/ Register(p) \/ Block(p) \/ Unlock(p)

Next ==
    \E p \in Pid :
        \/ \E child \in Pid : Fork(p, child)
        \/ Exit(p)
        \/ \E request \in WaitRequests : Wait(p, request)
        \/ ExitStep(p) \/ WaitStep(p)
        \/ Deschedule(p) \/ Kill(p)

Spec == Init /\ [][Next]_vars

(* a call that has begun goes on, as long as its process has a CPU *)
FairSpec == Spec /\ \A p \in Pid : WF_vars(ExitStep(p)) /\ WF_vars(WaitStep(p))

--------------------------------------------------------------------------------

TypeOK ==
    /\ DOMAIN children \subseteq Pid
    /\ \A p \in DOMAIN children : children[p] \subseteq Pid
    /\ zombies \in [Pid -> Pid \cup {NoPid}]
    /\ waiters \subseteq Pid
    /\ signals \subseteq Pid
    /\ {zombies_lock, children_lock} \subseteq Pid \cup {NoPid}
    /\ state \in [Pid -> {"Ready", "Blocked", "Terminated"}]
    /\ off \subseteq Pid
    /\ pc \in [Pid -> Step]
    /\ call \in [Pid -> [parent : Pid \cup {NoPid}, target : Pid \cup {NoPid},
                         mode : Mode, wnowait : BOOLEAN, pids : SUBSET Pid]]
    /\ reaped \in [Pid -> Nat]

HoldsZombies(p) == pc[p] \in {"remove_child", "register", "block", "unlock"}
HoldsChildren(p) == pc[p] = "reparent_zombies"

(***************************************************************************)
(* The two mutexes of WaitManager exclude: in the parts of wait that run   *)
(* on with zombies locked, and in the part of reparent_children that runs  *)
(* on with children locked, there is at most one process, and it is the    *)
(* one the mutex is held by.                                               *)
(***************************************************************************)
WaitInv ==
    /\ TypeOK
    /\ \A p \in Pid : HoldsZombies(p) <=> zombies_lock = p
    /\ \A p \in Pid : HoldsChildren(p) <=> children_lock = p

(***************************************************************************)
(* wait hands out the status of a child for good at most once, however     *)
(* many processes wait, exit and inherit children at the same time.        *)
(***************************************************************************)
ReapedOnce == \A q \in Pid : reaped[q] <= 1

Reparented(p) ==
    pc[p] \in {"reparent_zombies", "cleanup_signals", "terminate", "gone"}

(* taken out of zombies, and out of children *)
Released(q) ==
    /\ reaped[q] > 0
    /\ \A p \in Pid : ~(pc[p] = "remove_child" /\ q \in call[p].pids)

(***************************************************************************)
(* The family tree is whole.  Until it is reaped a process is in the list  *)
(* of exactly one parent, one that has not given its list to init yet.     *)
(* The parent in a zombie's record, fixed before the zombie is inserted,   *)
(* is the one that lists it, unless that one has died in between: such a   *)
(* zombie nobody can reap.                                                 *)
(***************************************************************************)
FamilyTree ==
    \A q \in Pid \ {InitPid} :
        /\ pc[q] # "unborn" /\ ~Released(q) =>
            \E p \in Pid : /\ {r \in Pid : q \in Kids(r)} = {p}
                          /\ ~Reparented(p)
        /\ zombies[q] # NoPid => q \in Kids(zombies[q]) \/ Reparented(zombies[q])

WillWake(q) ==
    pc[q] \in {"send_sigchld", "wake_signalled", "check_waiters", "wake_waiter"}

(***************************************************************************)
(* No wakeup is lost between a wait that blocks and an exit: a process     *)
(* that is marked Blocked by the wait it is in, while a child that wait    *)
(* asks for has become a zombie, is going to be woken by that child.       *)
(* (Zombies that come by adoption wake nobody.)                            *)
(***************************************************************************)
NoLostWakeup ==
    \A p, q \in Pid :
        /\ state[p] = "Blocked"
        /\ pc[p] = "unlock" \/ call[p].mode = "retry"
        /\ call[q].parent = p
        /\ Matches(p, q)
        => WillWake(q)

(***************************************************************************)
(* What the comment above block says: the parent "will be woken when a     *)
(* child exits".  A process taken off its CPU in a wait for any child gets *)
(* it back once a child of its exits.                                      *)
(***************************************************************************)
WokenWhenChildExits ==
    \A p, q \in Pid :
        /\ p \in off /\ pc[p] = "unlock" /\ call[p].target = NoPid
        /\ q \in Kids(p) /\ pc[q] = "get_parent"
        ~> p \notin off

================================================================================
