----------------------------- MODULE ServiceManager -----------------------------
(***************************************************************************)
(* S-INIT, services/init/src: booting the core services along their        *)
(* dependencies (microkernel.rs, boot_microkernel), then the main loop:    *)
(* it sweeps the failed services, takes commands for single services and   *)
(* runlevels, and hears of processes that have exited.  S-INIT is one      *)
(* thread; the processes it has spawned run beside it, exit when they      *)
(* like, and are heard of later or never.                                  *)
(*                                                                         *)
(* A name stands for its latest registration: boot registers some of the   *)
(* built-in names again, and the older records can no longer be started    *)
(* and are left out.  What only register_builtin_services registers is     *)
(* left to the runlevels, the commands and the sweep.                      *)
(***************************************************************************)
EXTENDS Integers, FiniteSets, Sequences, SequencesExt

CONSTANTS
    Services,           \* all_ordered, which boot starts: each after what it requires
    BuiltIn,            \* the other names, of register_builtin_services
    requires,           \* service -> the services it Requires
    restart_policy,     \* service -> RestartPolicy
    max_restarts,
    is_critical,        \* service -> BOOLEAN
    level_services,     \* runlevel -> names, in order
    ExitCodes,          \* bound: success, 1, and Signalled for anything else
    NoService,
    NoPid,
    MaxSpawns           \* bound: processes spawned

Core == ToSet(Services)
Names == Core \cup ToSet(BuiltIn)
Levels == DOMAIN level_services
Pids == 1 .. MaxSpawns
RestartPolicy == {"No", "Always", "OnSuccess", "OnFailure", "OnAbnormal"}

NoCode == -1
Signalled == 2

ASSUME ServiceManagerAssumption ==
    /\ Services \in Seq(Names) /\ BuiltIn \in Seq(Names)
    /\ requires \in [Names -> SUBSET Names]
    /\ \A i \in DOMAIN Services :
          requires[Services[i]] \subseteq {Services[j] : j \in 1 .. i - 1}
    /\ restart_policy \in [Names -> RestartPolicy]
    /\ max_restarts \in Nat
    /\ is_critical \in [Names -> BOOLEAN]
    /\ Levels \subseteq Nat /\ 0 \in Levels
    /\ \E top \in Levels : \A l \in Levels : l <= top
    /\ \A l \in Levels : level_services[l] \in Seq(Names)
    /\ ExitCodes \subseteq {0, 1, Signalled} /\ Signalled \in ExitCodes
    /\ NoService \notin Names
    /\ MaxSpawns \in Nat /\ NoPid \notin Pids

ServiceState == {"Stopped", "Starting", "Running", "Stopping", "Failed"}

VARIABLES
    state, pid, restart_count,      \* ServiceRuntime
    pending, started, failed,       \* ServiceBootstrap; starting is empty between steps
    runlevel,
    proc,       \* pid -> "none", "running", "asked" to end by stop's SIGTERM,
                \* "killed" by its SIGKILL, or "exited"
    exit_code,  \* of the exited processes on_service_exit may still be called for
    pc,         \* what S-INIT is doing
    todo,       \* the services its loop has still to visit
    ready,      \* the services a round of boot has still to start
    target,     \* the service stop waits for, and whether to start it again,
    again,
    new_level   \* argument of set_runlevel

runtime == <<state, pid, restart_count>>
bootstrap == <<pending, started, failed>>
processes == <<proc, exit_code>>
control == <<pc, todo, ready, target, again, new_level>>
vars == <<runtime, bootstrap, runlevel, processes, control>>

Step == {"boot", "boot_start", "idle", "sweep", "raise", "lower", "stop_wait", "halted"}

Init ==
    /\ state = [s \in Names |-> "Stopped"]
    /\ pid = [s \in Names |-> NoPid]
    /\ restart_count = [s \in Names |-> 0]
    /\ pending = Core /\ started = {} /\ failed = {}
    /\ runlevel = 0
    /\ proc = [p \in Pids |-> "none"]
    /\ exit_code = [p \in Pids |-> NoCode]
    /\ pc = "boot" /\ todo = << >> /\ ready = {}
    /\ target = NoService /\ again = FALSE
    /\ new_level = 0

--------------------------------------------------------------------------------
(* the processes                                                           *)

(* a process exits by itself or because of a signal; one that was asked to *)
(* may run on: SIGTERM can be ignored, and stop does not look at whether   *)
(* kill_process has delivered it                                           *)
ProcessExits(p, code) ==
    /\ proc[p] \in {"running", "asked", "killed"}
    /\ proc[p] = "killed" => code = Signalled
    /\ proc' = [proc EXCEPT ![p] = "exited"]
    /\ exit_code' = [exit_code EXCEPT ![p] = code]
    /\ UNCHANGED <<runtime, bootstrap, runlevel, control>>

Spawned == {p \in Pids : proc[p] # "none"}
NextPid == Cardinality(Spawned) + 1

--------------------------------------------------------------------------------
(* start and stop                                                          *)

DependenciesMet(s) == \A d \in requires[s] : state[d] = "Running"

(* start does something: the service does not run, its dependencies do *)
Startable(s) == state[s] # "Running" /\ DependenciesMet(s)

SpawnSucceeds(s) ==
    /\ NextPid \in Pids
    /\ proc' = [proc EXCEPT ![NextPid] = "running"]
    /\ state' = [state EXCEPT ![s] = "Running"]
    /\ pid' = [pid EXCEPT ![s] = NextPid]
    /\ restart_count' = [restart_count EXCEPT ![s] = 0]
    /\ UNCHANGED exit_code

SpawnFails(s) ==
    /\ state' = [state EXCEPT ![s] = "Failed"]
    /\ UNCHANGED <<pid, restart_count, processes>>

\* Wrong variant: start does not look whether the service runs already.
StartAgain(s) == DependenciesMet(s) /\ SpawnSucceeds(s)

(* start returns Ok, start returns an error *)
StartOk(s) ==
    \/ state[s] = "Running" /\ UNCHANGED <<runtime, processes>>
    \/ Startable(s) /\ SpawnSucceeds(s)

StartErr(s) ==
    \/ state[s] # "Running" /\ ~DependenciesMet(s) /\ UNCHANGED <<runtime, processes>>
    \/ Startable(s) /\ SpawnFails(s)

start(s) == StartOk(s) \/ StartErr(s)

(* stop without a process to wait for *)
StopAtOnce(s) ==
    /\ state[s] = "Stopped" \/ pid[s] = NoPid
    /\ state' = [state EXCEPT ![s] = "Stopped"]
    /\ UNCHANGED <<pid, restart_count, processes>>

(* SIGTERM is sent, whatever comes of it *)
StopBegins(s) ==
    /\ state[s] # "Stopped" /\ pid[s] # NoPid
    /\ state' = [state EXCEPT ![s] = "Stopping"]
    /\ proc' = [proc EXCEPT ![pid[s]] = IF @ = "running" THEN "asked" ELSE @]
    /\ UNCHANGED <<pid, restart_count, exit_code>>

\* Wrong variant: the pid is kept.
StoppedWithPid(s) ==
    /\ state' = [state EXCEPT ![s] = "Stopped"]
    /\ UNCHANGED <<pid, restart_count>>

Stopped(s) ==
    /\ state' = [state EXCEPT ![s] = "Stopped"]
    /\ pid' = [pid EXCEPT ![s] = NoPid]
    /\ UNCHANGED restart_count

--------------------------------------------------------------------------------
(* boot_microkernel                                                        *)

NextToStart == {s \in pending : requires[s] \subseteq started}

(* the Vecs of boot are in the order of all_ordered *)
First(S) ==
    Services[CHOOSE i \in DOMAIN Services :
                /\ Services[i] \in S
                /\ \A j \in DOMAIN Services : Services[j] \in S => i <= j]

(* mark_failed: a service and, one after the other, all pending services   *)
(* that depend on it                                                       *)
Dependents(s) ==
    LET Closed(F) == \A d \in pending : requires[d] \cap (F \cup {s}) # {} => d \in F
    IN  {d \in pending : \A F \in SUBSET pending : Closed(F) => d \in F}

(* if no service is ready, the boot ends with DependencyCycle *)
BootRound ==
    /\ pc = "boot" /\ pending # {}
    /\ ready' = NextToStart
    /\ pc' = IF NextToStart = {} THEN "halted" ELSE "boot_start"
    /\ UNCHANGED <<runtime, bootstrap, runlevel, processes, todo, target, again, new_level>>

BootRoundDone ==
    /\ pc = "boot_start" /\ ready = {}
    /\ pc' = "boot"
    /\ UNCHANGED <<runtime, bootstrap, runlevel, processes, todo, ready, target, again, new_level>>

BootStarts ==
    /\ pc = "boot_start" /\ ready # {}
    /\ LET s == First(ready)
       IN  /\ StartOk(s)
           /\ pending' = pending \ {s}
           /\ started' = started \cup {s}
           /\ ready' = ready \ {s}
    /\ UNCHANGED <<failed, runlevel, pc, todo, target, again, new_level>>

\* Wrong variant: mark_failed leaves the dependents pending.
BootFailsAlone ==
    /\ pc = "boot_start" /\ ready # {}
    /\ LET s == First(ready)
       IN  /\ StartErr(s)
           /\ pending' = pending \ {s}
           /\ failed' = failed \cup {s}
           /\ ready' = ready \ {s}
           /\ pc' = IF is_critical[s] THEN "halted" ELSE pc
    /\ UNCHANGED <<started, runlevel, todo, target, again, new_level>>

BootFails ==
    /\ pc = "boot_start" /\ ready # {}
    /\ LET s == First(ready)
       IN  /\ StartErr(s)
           /\ pending' = pending \ (Dependents(s) \cup {s})
           /\ failed' = failed \cup Dependents(s) \cup {s}
           /\ ready' = ready \ {s}
           /\ pc' = IF is_critical[s] THEN "halted" ELSE pc
    /\ UNCHANGED <<started, runlevel, todo, target, again, new_level>>

(* init_main halts the machine *)
Halt == pc = "halted" /\ UNCHANGED vars

(* is_complete: on to set_runlevel(Graphical), the highest one used *)
TopLevel == CHOOSE l \in Levels : \A k \in Levels : k <= l

BootDone ==
    /\ pc = "boot" /\ pending = {}
    /\ new_level' = TopLevel
    /\ todo' = level_services[TopLevel]
    /\ pc' = "raise"
    /\ UNCHANGED <<runtime, bootstrap, runlevel, processes, ready, target, again>>

--------------------------------------------------------------------------------
(* the main loop                                                           *)

(* for service_id in services_to_check *)
SweepBegins ==
    /\ pc = "idle"
    /\ todo' = BuiltIn \o Services
    /\ pc' = "sweep"
    /\ UNCHANGED <<runtime, bootstrap, runlevel, processes, ready, target, again, new_level>>

SweepStep ==
    /\ pc = "sweep" /\ todo # << >>
    /\ IF state[Head(todo)] = "Failed" THEN start(Head(todo))
       ELSE UNCHANGED <<runtime, processes>>
    /\ todo' = Tail(todo)
    /\ UNCHANGED <<bootstrap, runlevel, pc, ready, target, again, new_level>>

SweepDone ==
    /\ pc = "sweep" /\ todo = << >>
    /\ pc' = "idle"
    /\ UNCHANGED <<runtime, bootstrap, runlevel, processes, todo, ready, target, again, new_level>>

StartCommand(s) ==
    /\ pc = "idle"
    /\ start(s)
    /\ UNCHANGED <<bootstrap, runlevel, control>>

(* stop, or restart: the start comes when stop is done *)
StopCommand(s, restart) ==
    /\ pc = "idle"
    /\ target' = s /\ again' = restart
    /\ pc' = "stop_wait"
    /\ StopAtOnce(s) \/ StopBegins(s)
    /\ UNCHANGED <<bootstrap, runlevel, todo, ready, new_level>>

(* stop polls until the process has exited, wait reports an error or the   *)
(* time is up; only then it sends SIGKILL                                  *)
StopExited ==
    /\ pc = "stop_wait" /\ state[target] = "Stopping"
    /\ proc[pid[target]] = "exited"
    /\ Stopped(target)
    /\ UNCHANGED <<bootstrap, runlevel, processes, control>>

\* Wrong variant: stop sends SIGKILL and goes on waiting.
StopKillsAndWaits ==
    /\ pc = "stop_wait" /\ state[target] = "Stopping"
    /\ proc[pid[target]] = "asked"
    /\ proc' = [proc EXCEPT ![pid[target]] = "killed"]
    /\ UNCHANGED <<runtime, bootstrap, runlevel, exit_code, control>>

StopTimesOut ==
    /\ pc = "stop_wait" /\ state[target] = "Stopping"
    /\ proc[pid[target]] = "asked"
    /\ proc' = [proc EXCEPT ![pid[target]] = "killed"] \/ proc' = proc
    /\ Stopped(target)
    /\ UNCHANGED <<bootstrap, runlevel, exit_code, control>>

(* WaitResult::Error: no SIGKILL, and the pid is forgotten all the same *)
StopWaitFails ==
    /\ pc = "stop_wait" /\ state[target] = "Stopping"
    /\ Stopped(target)
    /\ UNCHANGED <<bootstrap, runlevel, processes, control>>

(* what stop returns to: restart, set_runlevel or the main loop *)
StopReturns ==
    /\ pc = "stop_wait" /\ state[target] = "Stopped"
    /\ IF again THEN start(target) ELSE UNCHANGED <<runtime, processes>>
    /\ pc' = IF new_level = runlevel THEN "idle" ELSE "lower"
    /\ target' = NoService /\ again' = FALSE
    /\ UNCHANGED <<bootstrap, runlevel, todo, ready, new_level>>

SetRunlevel(l) ==
    /\ pc = "idle" /\ l # runlevel
    /\ new_level' = l
    /\ IF l > runlevel
       THEN pc' = "raise" /\ todo' = level_services[l]
       ELSE /\ pc' = "lower"
            /\ todo' = level_services[runlevel]
    /\ UNCHANGED <<runtime, bootstrap, runlevel, processes, ready, target, again>>

RaiseStep ==
    /\ pc = "raise" /\ todo # << >>
    /\ start(Head(todo))
    /\ todo' = Tail(todo)
    /\ UNCHANGED <<bootstrap, runlevel, pc, ready, target, again, new_level>>

(* a service of the lower runlevel is not stopped *)
Stays(s) == s \in ToSet(level_services[new_level])

LowerSkips ==
    /\ pc = "lower" /\ todo # << >> /\ Stays(Head(todo))
    /\ todo' = Tail(todo)
    /\ UNCHANGED <<runtime, bootstrap, runlevel, processes, pc, ready, target, again, new_level>>

LowerStep ==
    /\ pc = "lower" /\ todo # << >> /\ ~Stays(Head(todo))
    /\ target' = Head(todo)
    /\ pc' = "stop_wait"
    /\ StopAtOnce(Head(todo)) \/ StopBegins(Head(todo))
    /\ todo' = Tail(todo)
    /\ UNCHANGED <<bootstrap, runlevel, ready, again, new_level>>

RunlevelReached ==
    /\ pc \in {"raise", "lower"} /\ todo = << >>
    /\ runlevel' = new_level
    /\ pc' = "idle"
    /\ UNCHANGED <<runtime, bootstrap, processes, todo, ready, target, again, new_level>>

--------------------------------------------------------------------------------

should_restart(s, code) ==
    /\ restart_count[s] < max_restarts
    /\ CASE restart_policy[s] = "No" -> FALSE
         [] restart_policy[s] = "Always" -> TRUE
         [] restart_policy[s] = "OnSuccess" -> code = 0
         [] restart_policy[s] = "OnFailure" -> code # 0
         [] restart_policy[s] = "OnAbnormal" -> code \notin {0, 1}

\* Wrong variant: only a failure is an exit.
OnServiceFailure(p) ==
    /\ pc = "idle" /\ exit_code[p] # NoCode
    /\ exit_code' = [exit_code EXCEPT ![p] = NoCode]
    /\ LET hit == {s \in Names : pid[s] = p /\ exit_code[p] # 0}
       IN  /\ state' = [s \in Names |-> IF s \in hit THEN "Failed" ELSE state[s]]
           /\ pid' = [s \in Names |-> IF s \in hit THEN NoPid ELSE pid[s]]
    /\ UNCHANGED <<restart_count, bootstrap, runlevel, proc, control>>

(* on_service_exit: the service is found by its pid.  A restart is noted   *)
(* as Starting, for somebody to start it.                                  *)
OnServiceExit(p) ==
    /\ pc = "idle" /\ exit_code[p] # NoCode
    /\ exit_code' = [exit_code EXCEPT ![p] = NoCode]
    /\ LET code == exit_code[p]
           hit == {s \in Names : pid[s] = p}
           After(s) == IF should_restart(s, code) THEN "Starting"
                       ELSE IF code # 0 THEN "Failed" ELSE "Stopped"
       IN  /\ state' = [s \in Names |-> IF s \in hit THEN After(s) ELSE state[s]]
           /\ pid' = [s \in Names |-> IF s \in hit THEN NoPid ELSE pid[s]]
           /\ restart_count' = [s \in Names |->
                IF s \in hit /\ should_restart(s, code) THEN restart_count[s] + 1
                ELSE restart_count[s]]
    /\ UNCHANGED <<bootstrap, runlevel, proc, control>>

--------------------------------------------------------------------------------

BootStep == BootRound \/ BootRoundDone \/ BootStarts \/ BootFails \/ BootDone

StopStep == StopExited \/ StopTimesOut \/ StopReturns

LoopStep == SweepStep \/ SweepDone \/ RaiseStep \/ LowerSkips \/ LowerStep \/ RunlevelReached

Command ==
    \/ SweepBegins
    \/ \E s \in Names : StartCommand(s) \/ \E restart \in BOOLEAN : StopCommand(s, restart)
    \/ \E l \in Levels : SetRunlevel(l)
    \/ \E p \in Pids : OnServiceExit(p)

Next ==
    \/ BootStep \/ StopStep \/ StopWaitFails \/ LoopStep \/ Command \/ Halt
    \/ \E p \in Pids, code \in ExitCodes : ProcessExits(p, code)

(* S-INIT goes on with what it has begun; nothing counts on an error of    *)
(* wait                                                                    *)
Fairness == WF_vars(BootStep) /\ WF_vars(StopStep) /\ WF_vars(LoopStep)

Spec == Init /\ [][Next]_vars /\ Fairness

--------------------------------------------------------------------------------

TypeOK ==
    /\ state \in [Names -> ServiceState]
    /\ pid \in [Names -> Pids \cup {NoPid}]
    /\ restart_count \in [Names -> 0 .. max_restarts]
    /\ pending \cup started \cup failed \subseteq Core
    /\ runlevel \in Levels /\ new_level \in Levels
    /\ proc \in [Pids -> {"none", "running", "asked", "killed", "exited"}]
    /\ exit_code \in [Pids -> ExitCodes \cup {NoCode}]
    /\ pc \in Step
    /\ todo \in Seq(Names) /\ ready \subseteq Core
    /\ target \in Names \cup {NoService} /\ again \in BOOLEAN

(***************************************************************************)
(* State and pid of a service agree: it has a pid while it is Running or   *)
(* Stopping and only then, no two services have the same one, and nothing  *)
(* is left Stopping once stop has returned.                                *)
(***************************************************************************)
ServiceInv ==
    /\ TypeOK
    /\ \A s \in Names : pid[s] # NoPid <=> state[s] \in {"Running", "Stopping"}
    /\ \A s, t \in Names : pid[s] = pid[t] /\ s # t => pid[s] = NoPid
    /\ \A s \in Names : state[s] = "Stopping" => pc = "stop_wait" /\ target = s

(***************************************************************************)
(* S-INIT loses sight of a process only by a stop that gave up on it: one  *)
(* that runs and that stop was never asked to end is recorded as the       *)
(* process of a service, so no start, restart, boot, sweep or notice of an *)
(* exit puts another pid in its place.  Of a process that stop did ask to  *)
(* end nothing is promised: the pid is forgotten although wait failed, or  *)
(* SIGKILL did, and the process may run on.                                *)
(***************************************************************************)
NoOrphan == \A p \in Pids : proc[p] = "running" => \E s \in Names : pid[s] = p

(***************************************************************************)
(* A service that is said to run does, unless S-INIT has not heard of its  *)
(* exit yet: a late notice about an earlier process of the service, one    *)
(* that stop had given up on, changes nothing.                             *)
(***************************************************************************)
RunningIsReal ==
    \A s \in Names :
        state[s] = "Running" => proc[pid[s]] = "running" \/ exit_code[pid[s]] # NoCode

(***************************************************************************)
(* Boot keeps to the dependencies: a service has been started after all    *)
(* the ones it requires, never after one of them failed, and, as long as   *)
(* S-INIT has not halted over a critical service, whatever still waits can *)
(* be started: boot_microkernel never takes a failure for a cycle.         *)
(***************************************************************************)
BootFollowsDependencies ==
    /\ \A s \in started : requires[s] \subseteq started
    /\ started \cap failed = {}
    /\ pc = "boot" /\ pending # {} => NextToStart # {}

(***************************************************************************)
(* S-INIT always comes back to its main loop, unless boot has failed for   *)
(* good: a stop ends although the process ignores SIGTERM, and so does a   *)
(* runlevel change that stops several services.                            *)
(***************************************************************************)
BackToLoop == []<>(pc \in {"idle", "halted"})

================================================================================
