------------------------------- MODULE Scheduler -------------------------------
(***************************************************************************)
(* The static SCHEDULER of kernel/src/sched/mod.rs, where every process is *)
(* registered, blocked, woken and terminated, on the one CPU that runs it: *)
(* the AArch64 timer interrupt (arch/aarch64/timer.rs) calls schedule and  *)
(* then switch_to.  (On x86_64 nothing schedules it, and Kernel::run has a *)
(* Scheduler of its own in which nothing is registered.)  The process on   *)
(* the CPU calls block and terminate for itself (process/wait.rs) and      *)
(* registers others; wake comes from signals and exiting children at any   *)
(* time, also between schedule and switch_to.  One step is one critical    *)
(* section; register_process inserts the process and enqueues it in two.   *)
(* Priorities within a class and time slices are stored by the code and    *)
(* read by nothing, so they are left out.                                  *)
(***************************************************************************)
EXTENDS Integers, SequencesExt

CONSTANTS
    NoPid,      \* None
    NoProcess,  \* the pid is not in the map
    MaxPids,    \* bound: processes registered
    MaxQueued   \* bound: wake is called only while the queues are shorter

ASSUME SchedulerAssumption == MaxPids \in Nat /\ MaxQueued \in Nat

Pid == 1 .. MaxPids

ASSUME NoPidAssumption == NoPid \notin Pid

VARIABLES
    processes,      \* BTreeMap<ProcessId, ProcessInfo>
    ready_queues,   \* the three Vecs; the end is popped first
    current,        \* the process last switched to, unless it terminated
    next_pid,
    registering,    \* the process register_process has inserted, not enqueued
    picked          \* what schedule returned, until switch_to is done with it

vars == <<processes, ready_queues, current, next_pid, registering, picked>>

--------------------------------------------------------------------------------

Class == {"Realtime", "Interactive", "Background"}
State == {"Ready", "Running", "Blocked", "Terminated"}
ProcessInfo == [class : Class, state : State]

ASSUME NoProcessAssumption == NoProcess \notin ProcessInfo

Registered(p) == processes[p] # NoProcess
InState(p, s) == Registered(p) /\ processes[p].state = s
Queued == Len(ready_queues["Realtime"]) + Len(ready_queues["Interactive"])
            + Len(ready_queues["Background"])

(* enqueue: at the end of the queue of the class *)
Enqueued(p, class) == [ready_queues EXCEPT ![class] = Append(@, p)]

Init ==
    /\ processes = [p \in Pid |-> NoProcess]
    /\ ready_queues = [c \in Class |-> <<>>]
    /\ current = NoPid
    /\ next_pid = 1
    /\ registering = NoPid
    /\ picked = NoPid

--------------------------------------------------------------------------------
(* register_process: next_pid stays locked until the process is enqueued *)

RegisterInsert(class) ==
    /\ registering = NoPid
    /\ next_pid \in Pid
    /\ processes' = [processes EXCEPT ![next_pid] = [class |-> class, state |-> "Ready"]]
    /\ registering' = next_pid
    /\ next_pid' = next_pid + 1
    /\ UNCHANGED <<ready_queues, current, picked>>

RegisterEnqueue ==
    /\ registering # NoPid
    /\ ready_queues' = Enqueued(registering, processes[registering].class)
    /\ registering' = NoPid
    /\ UNCHANGED <<processes, current, next_pid, picked>>

--------------------------------------------------------------------------------
(* wake, block, terminate *)

\* Wrong variant: the state is set and the process is not put in a queue.
WakeUnqueued(p) ==
    /\ InState(p, "Blocked")
    /\ Queued < MaxQueued
    /\ processes' = [processes EXCEPT ![p].state = "Ready"]
    /\ UNCHANGED <<ready_queues, current, next_pid, registering, picked>>

\* Only a Blocked process is changed by wake.
Wake(p) ==
    /\ InState(p, "Blocked")
    /\ Queued < MaxQueued
    /\ processes' = [processes EXCEPT ![p].state = "Ready"]
    /\ ready_queues' = Enqueued(p, processes[p].class)
    /\ UNCHANGED <<current, next_pid, registering, picked>>

\* block by the process on the CPU, which stays on it and may stay in a queue.
Block ==
    /\ picked = NoPid
    /\ current # NoPid
    /\ processes' = [processes EXCEPT ![current].state = "Blocked"]
    /\ UNCHANGED <<ready_queues, current, next_pid, registering, picked>>

\* Wrong variant: the first entry of the process is removed, not all of them.
TerminateOneEntry ==
    /\ picked = NoPid
    /\ current # NoPid
    /\ processes' = [processes EXCEPT ![current].state = "Terminated"]
    /\ ready_queues' = [c \in Class |-> RemoveFirst(ready_queues[c], current)]
    /\ current' = NoPid
    /\ UNCHANGED <<next_pid, registering, picked>>

\* Vec::retain: the entries of a queue that are not p, in their order.
Retain(s, p) ==
    LET kept[i \in 0 .. Len(s)] ==
            IF i = 0 THEN << >>
            ELSE IF s[i] = p THEN kept[i - 1] ELSE Append(kept[i - 1], s[i])
    IN  kept[Len(s)]

\* terminate by the process on the CPU: retain drops each of its entries.
Terminate ==
    /\ picked = NoPid
    /\ current # NoPid
    /\ processes' = [processes EXCEPT ![current].state = "Terminated"]
    /\ ready_queues' = [c \in Class |-> Retain(ready_queues[c], current)]
    /\ current' = NoPid
    /\ UNCHANGED <<next_pid, registering, picked>>

--------------------------------------------------------------------------------
(* schedule, switch_to *)

\* Wrong variant: the classes are tried from background to realtime.
ScheduleUpwards ==
    /\ picked = NoPid
    /\ \E c \in Class :
          /\ ready_queues[c] # <<>>
          /\ c = "Interactive" => ready_queues["Background"] = <<>>
          /\ c = "Realtime" => ready_queues["Interactive"] = <<>> /\ ready_queues["Background"] = <<>>
          /\ picked' = Last(ready_queues[c])
          /\ ready_queues' = [ready_queues EXCEPT ![c] = Front(@)]
    /\ UNCHANGED <<processes, current, next_pid, registering>>

\* The end of the first queue that is not empty is popped, whatever the state of
\* the process.  With empty queues nothing changes and the CPU halts.
Schedule ==
    /\ picked = NoPid
    /\ \E c \in Class :
          /\ ready_queues[c] # <<>>
          /\ c = "Interactive" => ready_queues["Realtime"] = <<>>
          /\ c = "Background" => ready_queues["Realtime"] = <<>> /\ ready_queues["Interactive"] = <<>>
          /\ picked' = Last(ready_queues[c])
          /\ ready_queues' = [ready_queues EXCEPT ![c] = Front(@)]
    /\ UNCHANGED <<processes, current, next_pid, registering>>

\* The process that was on the CPU, if it is Running still, becomes Ready.
Preempts == current # NoPid /\ InState(current, "Running")
Demoted == IF Preempts THEN [processes EXCEPT ![current].state = "Ready"] ELSE processes

\* Wrong variant: the previous process is enqueued and stays marked Running.
SwitchToNoDemotion ==
    /\ picked # NoPid
    /\ ready_queues' = IF Preempts THEN Enqueued(current, processes[current].class) ELSE ready_queues
    /\ processes' = [processes EXCEPT ![picked].state = "Running"]
    /\ current' = picked
    /\ picked' = NoPid
    /\ UNCHANGED <<next_pid, registering>>

SwitchTo ==
    /\ picked # NoPid
    /\ ready_queues' = IF Preempts THEN Enqueued(current, processes[current].class) ELSE ready_queues
    /\ processes' = [Demoted EXCEPT ![picked].state = "Running"]
    /\ current' = picked
    /\ picked' = NoPid
    /\ UNCHANGED <<next_pid, registering>>

CpuStep == Schedule \/ SwitchTo

--------------------------------------------------------------------------------

Next ==
    \/ \E class \in Class : RegisterInsert(class)
    \/ RegisterEnqueue
    \/ \E p \in Pid : Wake(p)
    \/ Block
    \/ Terminate
    \/ CpuStep

Spec == Init /\ [][Next]_vars

(* The handler of the AArch64 timer sets its next compare value before     *)
(* anything else, so it comes again for ever, and every tenth time it      *)
(* schedules; register_process runs to its end.  Steps are whole critical  *)
(* sections: that the interrupt finds the mutexes free is assumed.         *)
FairSpec == Spec /\ WF_vars(CpuStep) /\ WF_vars(RegisterEnqueue)

--------------------------------------------------------------------------------
(* Properties *)

TypeOK ==
    /\ processes \in [Pid -> ProcessInfo \cup {NoProcess}]
    /\ ready_queues \in [Class -> Seq(Pid)]
    /\ current \in Pid \cup {NoPid}
    /\ next_pid \in Nat
    /\ registering \in Pid \cup {NoPid}
    /\ picked \in Pid \cup {NoPid}

InQueue(p, c) == \E i \in 1 .. Len(ready_queues[c]) : ready_queues[c][i] = p

\* Whatever the scheduler holds a pid of is a process it knows, and a queue has
\* processes of its own class only.
PidsRegistered ==
    /\ \A p \in Pid : p >= next_pid => ~Registered(p)
    /\ \A x \in {current, registering, picked} \ {NoPid} : Registered(x)
    /\ \A c \in Class : \A i \in 1 .. Len(ready_queues[c]) :
          LET p == ready_queues[c][i] IN Registered(p) /\ processes[p].class = c

\* No process is lost (sched/mod.rs:168-205, :268-340): one that is Ready is in
\* the queue of its class, or about to be enqueued, or picked and about to run,
\* however wake, block and a context switch interleave.
ReadyNotLost ==
    \A p \in Pid : InState(p, "Ready") =>
        InQueue(p, processes[p].class) \/ registering = p \/ picked = p

\* One process at most is marked Running, and it is the current one
\* (sched/mod.rs:268-297).
RunningIsCurrent == \A p \in Pid : InState(p, "Running") => current = p

\* A process that has called terminate is in no queue, is not picked and is not
\* current: it cannot run again (sched/mod.rs:217-239).
TerminatedIsGone ==
    \A p \in Pid : InState(p, "Terminated") =>
        /\ p \notin {current, registering, picked}
        /\ \A c \in Class : ~InQueue(p, c)

\* The inductive invariant of the scheduler; a process about to be enqueued is
\* Ready, in no queue yet, and was never on the CPU.
SchedInv ==
    /\ TypeOK
    /\ PidsRegistered
    /\ ReadyNotLost
    /\ RunningIsCurrent
    /\ TerminatedIsGone
    /\ registering # NoPid =>
          /\ InState(registering, "Ready") /\ registering \notin {current, picked}
          /\ \A c \in Class : ~InQueue(registering, c)

\* A realtime process that is alone in its class and Ready runs, whatever the
\* others do: "Guaranteed latency, for critical services" (sched/mod.rs:15).
LoneRealtimeRuns ==
    \A p \in Pid :
        (InState(p, "Ready") /\ processes[p].class = "Realtime")
            ~> \/ InState(p, "Running") \/ InState(p, "Terminated")
               \/ \E q \in Pid \ {p} : Registered(q) /\ processes[q].class = "Realtime"

\* A Ready process runs or terminates in the end: "Lower priority processes
\* still make progress" (sched/mod.rs:10).
ReadyRuns ==
    \A p \in Pid :
        InState(p, "Ready") ~> (InState(p, "Running") \/ InState(p, "Terminated"))

================================================================================
