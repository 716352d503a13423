-------------------------- MODULE ServiceManagerProofs --------------------------
(***************************************************************************)
(* Proofs about S-INIT, for any services, dependencies, restart policies   *)
(* and runlevels and any number of processes.                              *)
(***************************************************************************)
EXTENDS ServiceManager, FiniteSetTheorems, WellFoundedInduction, TLAPS

--------------------------------------------------------------------------------
(* The inductive invariant, in three parts *)

RuntimeTypes ==
    /\ state \in [Names -> ServiceState]
    /\ pid \in [Names -> Pids \cup {NoPid}]
    /\ restart_count \in [Names -> 0 .. max_restarts]
    /\ proc \in [Pids -> {"none", "running", "asked", "killed", "exited"}]
    /\ exit_code \in [Pids -> ExitCodes \cup {NoCode}]

PidAgrees == \A s \in Names : pid[s] # NoPid <=> state[s] \in {"Running", "Stopping"}
PidUnique == \A s, t \in Names : pid[s] = pid[t] /\ s # t => pid[s] = NoPid

\* Pids are given out in order, services only have pids of processes, and an exit
\* is told of a process that has exited.
PidsSpawned ==
    /\ \E n \in 0 .. MaxSpawns : Spawned = 1 .. n
    /\ \A s \in Names : pid[s] \in Pids => proc[pid[s]] # "none"
    /\ \A p \in Pids : exit_code[p] # NoCode => proc[p] = "exited"

\* stop has asked the process it waits for to end.
StoppingAsked == \A s \in Names : state[s] = "Stopping" => proc[pid[s]] # "running"

(* the services and their processes *)
Runtime ==
    /\ RuntimeTypes /\ PidAgrees /\ PidUnique /\ PidsSpawned
    /\ NoOrphan /\ RunningIsReal /\ StoppingAsked

(* what S-INIT is doing *)
StoppingWaits ==
    \A s \in Names : state[s] = "Stopping" => pc = "stop_wait" /\ target = s

Control ==
    /\ StoppingWaits
    /\ runlevel \in Levels /\ new_level \in Levels
    /\ pc \in Step
    /\ todo \in Seq(Names)
    /\ target \in Names \cup {NoService} /\ again \in BOOLEAN
    /\ pc = "stop_wait" => target \in Names

(* the progress of boot *)
BootSets ==
    /\ pending \cup started \cup failed = Core /\ ready \subseteq Core
    /\ pending \cap (started \cup failed) = {} /\ started \cap failed = {}
    /\ \A s \in pending : requires[s] \cap failed = {}
    /\ \A s \in started : requires[s] \subseteq started
    /\ pc = "boot_start" => ready \subseteq NextToStart

IndInv == Runtime /\ Control /\ BootSets

--------------------------------------------------------------------------------
(* What start, stop and exits do to the services and their processes *)

\* The next pid is the first one no process has had.
LEMMA NextPidFresh ==
    ASSUME PidsSpawned, RuntimeTypes
    PROVE  \E n \in 0 .. MaxSpawns : Spawned = 1 .. n /\ NextPid = n + 1
<1>1. PICK n \in 0 .. MaxSpawns : Spawned = 1 .. n
  BY DEF PidsSpawned
<1>2. n \in Nat
  BY <1>1, ServiceManagerAssumption
<1>3. Cardinality(1 .. n) = n
  <2>1. Cardinality(1 .. n) = IF 1 > n THEN 0 ELSE n - 1 + 1
    BY <1>2, FS_Interval
  <2> QED
    BY <1>2, <2>1
<1> QED
  BY <1>1, <1>3 DEF NextPid

\* A spawned process gets a pid of its own, and its service is Running.
LEMMA SpawnKeeps ==
    ASSUME Runtime, NEW s \in Names, state[s] \notin {"Running", "Stopping"}, SpawnSucceeds(s)
    PROVE  Runtime'
<1> USE DEF Runtime
<1>1. PICK n \in 0 .. MaxSpawns : Spawned = 1 .. n /\ NextPid = n + 1
  BY NextPidFresh
<1> DEFINE q == n + 1
<1>2. /\ q \in Pids /\ n \in Nat /\ q # NoPid /\ pid[s] = NoPid
      /\ proc' = [proc EXCEPT ![q] = "running"]
      /\ state' = [state EXCEPT ![s] = "Running"]
      /\ pid' = [pid EXCEPT ![s] = q]
      /\ restart_count' = [restart_count EXCEPT ![s] = 0]
      /\ exit_code' = exit_code
  BY <1>1, ServiceManagerAssumption DEF SpawnSucceeds, PidAgrees
<1>3. proc[q] = "none"
  BY <1>1, <1>2 DEF Spawned
<1>4. /\ proc'[q] = "running" /\ \A p \in Pids : p # q => proc'[p] = proc[p]
      /\ state'[s] = "Running" /\ \A t \in Names : t # s => state'[t] = state[t]
      /\ pid'[s] = q /\ \A t \in Names : t # s => pid'[t] = pid[t]
  BY <1>2 DEF RuntimeTypes
<1>5. RuntimeTypes'
  BY <1>2, ServiceManagerAssumption DEF RuntimeTypes, ServiceState
<1>6. \A t \in Names : pid[t] # q
  BY <1>2, <1>3 DEF PidsSpawned
<1>7. Spawned' = 1 .. q
  <2>1. Spawned' = Spawned \cup {q}
    BY <1>2, <1>4 DEF Spawned
  <2> QED
    BY <1>1, <1>2, <2>1
<1>8. PidsSpawned'
  <2>1. q \in 0 .. MaxSpawns
    BY <1>2, ServiceManagerAssumption DEF Pids
  <2>2. \A t \in Names : pid'[t] \in Pids => proc'[pid'[t]] # "none"
    BY <1>2, <1>4 DEF PidsSpawned
  <2>3. \A p \in Pids : exit_code'[p] # NoCode => proc'[p] = "exited"
    BY <1>2, <1>3, <1>4 DEF PidsSpawned
  <2> HIDE DEF q
  <2> QED
    BY <1>7, <2>1, <2>2, <2>3 DEF PidsSpawned
<1> HIDE DEF q
<1>9. PidAgrees' /\ PidUnique'
  BY <1>2, <1>4, <1>6 DEF PidAgrees, PidUnique
<1>10. NoOrphan'
  <2>1. ASSUME NEW p \in Pids, proc'[p] = "running" PROVE \E t \in Names : pid'[t] = p
    <3>1. CASE p = q
      BY <1>4, <3>1
    <3>2. CASE p # q
      <4>1. PICK t \in Names : pid[t] = p
        BY <1>4, <2>1, <3>2 DEF NoOrphan
      <4>2. t # s
        BY <1>2, <4>1, ServiceManagerAssumption
      <4> QED
        BY <1>4, <4>1, <4>2
    <3> QED
      BY <3>1, <3>2
  <2> QED
    BY <2>1 DEF NoOrphan
<1>11. RunningIsReal'
  <2>1. ASSUME NEW t \in Names, state'[t] = "Running"
        PROVE  proc'[pid'[t]] = "running" \/ exit_code'[pid'[t]] # NoCode
    <3>1. CASE t = s
      BY <1>4, <3>1
    <3>2. CASE t # s
      <4>1. pid'[t] = pid[t] /\ state[t] = "Running" /\ pid[t] \in Pids
        BY <1>4, <2>1, <3>2 DEF RuntimeTypes, PidAgrees
      <4> QED
        BY <1>2, <1>4, <1>6, <4>1 DEF RunningIsReal
    <3> QED
      BY <3>1, <3>2
  <2> QED
    BY <2>1 DEF RunningIsReal
<1>12. StoppingAsked'
  BY <1>4, <1>6 DEF StoppingAsked, RuntimeTypes, PidAgrees
<1> QED
  BY <1>5, <1>8, <1>9, <1>10, <1>11, <1>12

\* A change to the state of one service without a process, to another such state.
LEMMA StateKeeps ==
    ASSUME Runtime, NEW s \in Names, NEW st \in {"Stopped", "Failed"}, pid[s] = NoPid,
           state' = [state EXCEPT ![s] = st], UNCHANGED <<pid, restart_count, processes>>
    PROVE  Runtime'
<1> USE DEF Runtime
<1>1. /\ pid' = pid /\ restart_count' = restart_count /\ proc' = proc
          /\ exit_code' = exit_code
  BY DEF processes
<1>2. state'[s] = st /\ \A t \in Names : t # s => state'[t] = state[t]
  BY DEF RuntimeTypes
<1>3. RuntimeTypes'
  BY <1>1 DEF RuntimeTypes, ServiceState
<1>4. PidAgrees' /\ PidUnique' /\ NoOrphan'
  BY <1>1, <1>2 DEF PidAgrees, PidUnique, NoOrphan
<1>5. PidsSpawned'
  <2>1. Spawned' = Spawned
    BY <1>1 DEF Spawned
  <2> QED
    BY <1>1, <2>1 DEF PidsSpawned
<1>6. RunningIsReal' /\ StoppingAsked'
  BY <1>1, <1>2 DEF RunningIsReal, StoppingAsked
<1> QED
  BY <1>3, <1>4, <1>5, <1>6

\* Nothing changes.
LEMMA SameKeeps ==
    ASSUME Runtime, UNCHANGED <<runtime, processes>>
    PROVE  Runtime' /\ state' = state
BY DEF Runtime, runtime, processes, RuntimeTypes, PidAgrees, PidUnique, PidsSpawned,
       Spawned, NoOrphan, RunningIsReal, StoppingAsked

\* start, whatever comes of it, and no service begins to stop.
LEMMA StartKeeps ==
    ASSUME Runtime, NEW s \in Names, state[s] # "Stopping", StartOk(s) \/ StartErr(s)
    PROVE  Runtime' /\ \A t \in Names : state'[t] = "Stopping" => state[t] = "Stopping"
<1>1. state \in [Names -> ServiceState]
  BY DEF Runtime, RuntimeTypes
<1>2. CASE UNCHANGED <<runtime, processes>>
  BY <1>2, SameKeeps
<1>3. CASE state[s] # "Running" /\ SpawnSucceeds(s)
  <2>1. state' = [state EXCEPT ![s] = "Running"]
    BY <1>3 DEF SpawnSucceeds
  <2> QED
    BY <1>1, <1>3, <2>1, SpawnKeeps
<1>4. CASE state[s] # "Running" /\ SpawnFails(s)
  <2>1. state' = [state EXCEPT ![s] = "Failed"]
            /\ UNCHANGED <<pid, restart_count, processes>>
    BY <1>4 DEF SpawnFails
  <2>2. pid[s] = NoPid
    BY <1>4 DEF Runtime, PidAgrees
  <2> QED
    BY <1>1, <2>1, <2>2, StateKeeps
<1> QED
  BY <1>2, <1>3, <1>4 DEF StartOk, StartErr, Startable

\* The first half of stop: at most the one service is Stopping now.
LEMMA StopKeeps ==
    ASSUME Runtime, NEW s \in Names, StopAtOnce(s) \/ StopBegins(s)
    PROVE  Runtime' /\ \A t \in Names : state'[t] = "Stopping" => state[t] = "Stopping"
          \/ t = s
<1> USE DEF Runtime
<1>0. state \in [Names -> ServiceState]
  BY DEF RuntimeTypes
<1>1. CASE StopAtOnce(s)
  <2>1. pid[s] = NoPid /\ state' = [state EXCEPT ![s] = "Stopped"]
        /\ UNCHANGED <<pid, restart_count, processes>>
    BY <1>1 DEF StopAtOnce, PidAgrees
  <2> QED
    BY <1>0, <2>1, StateKeeps
<1>2. CASE StopBegins(s)
  <2> DEFINE q == pid[s]
  <2>1. /\ pid[s] # NoPid /\ state' = [state EXCEPT ![s] = "Stopping"]
        /\ proc' = [proc EXCEPT ![q] = IF @ = "running" THEN "asked" ELSE @]
        /\ pid' = pid /\ restart_count' = restart_count /\ exit_code' = exit_code
    BY <1>2 DEF StopBegins
  <2>2. state'[s] = "Stopping" /\ \A t \in Names : t # s => state'[t] = state[t]
    BY <1>0, <2>1
  <2>3. q \in Pids /\ \A t \in Names : t # s => pid[t] # q
    BY <2>1 DEF RuntimeTypes, PidUnique
  <2>4. /\ proc' \in [Pids -> {"none", "running", "asked", "killed", "exited"}]
        /\ proc'[q] = IF proc[q] = "running" THEN "asked" ELSE proc[q]
        /\ \A p \in Pids : p # q => proc'[p] = proc[p]
    BY <2>1, <2>3 DEF RuntimeTypes
  <2>5. RuntimeTypes'
    BY <2>1, <2>4 DEF RuntimeTypes, ServiceState
  <2>6. PidAgrees' /\ PidUnique'
    BY <2>1, <2>2 DEF PidAgrees, PidUnique
  <2>7. NoOrphan'
    BY <2>1, <2>4 DEF NoOrphan
  <2>8. RunningIsReal' /\ StoppingAsked'
    <3>1. ASSUME NEW t \in Names, t # s, state[t] \in {"Running", "Stopping"}
          PROVE  pid'[t] = pid[t] /\ proc'[pid[t]] = proc[pid[t]]
      <4>1. pid[t] \in Pids
        BY <3>1 DEF PidAgrees, RuntimeTypes
      <4> QED
        BY <2>1, <2>3, <2>4, <3>1, <4>1
    <3>2. pid'[s] = q /\ proc'[q] # "running"
      BY <2>1, <2>4
    <3> HIDE DEF q
    <3> QED
      BY <2>1, <2>2, <3>1, <3>2 DEF RunningIsReal, StoppingAsked
  <2>9. PidsSpawned'
    <3>1. \A p \in Pids : /\ proc'[p] = "none" <=> proc[p] = "none"
                          /\ proc[p] = "exited" => proc'[p] = "exited"
      BY <2>3, <2>4
    <3>2. Spawned' = Spawned
      BY <3>1 DEF Spawned
    <3>3. \A t \in Names : pid'[t] \in Pids => proc'[pid'[t]] # "none"
      BY <2>1, <3>1 DEF PidsSpawned
    <3>4. \A p \in Pids : exit_code'[p] # NoCode => proc'[p] = "exited"
      BY <2>1, <3>1 DEF PidsSpawned
    <3> QED
      BY <3>2, <3>3, <3>4 DEF PidsSpawned
  <2> QED
    BY <2>2, <2>5, <2>6, <2>7, <2>8, <2>9
<1> QED
  BY <1>1, <1>2

\* The end of stop: it forgets a process that it has asked to end, after SIGKILL or not.
LEMMA StoppedKeeps ==
    ASSUME Runtime, NEW s \in Names, state[s] = "Stopping", Stopped(s), exit_code' = exit_code,
           \/ proc' = proc
           \/ proc[pid[s]] = "asked" /\ proc' = [proc EXCEPT ![pid[s]] = "killed"]
    PROVE  Runtime' /\ \A t \in Names : state'[t] = "Stopping" => state[t] = "Stopping"
          /\ t # s
<1> USE DEF Runtime
<1> DEFINE q == pid[s]
<1>0. q \in Pids /\ q # NoPid
  BY ServiceManagerAssumption DEF RuntimeTypes, PidAgrees
<1>1. /\ state' = [state EXCEPT ![s] = "Stopped"] /\ pid' = [pid EXCEPT ![s] = NoPid]
      /\ restart_count' = restart_count
  BY DEF Stopped
<1>2. /\ state'[s] = "Stopped" /\ \A t \in Names : t # s => state'[t] = state[t]
      /\ pid'[s] = NoPid /\ \A t \in Names : t # s => pid'[t] = pid[t]
  BY <1>1 DEF RuntimeTypes
<1>3. /\ proc' \in [Pids -> {"none", "running", "asked", "killed", "exited"}]
      /\ proc'[q] # "running" /\ proc[q] # "none" /\ proc'[q] # "none"
      /\ proc[q] = "exited" => proc'[q] = "exited"
      /\ \A p \in Pids : p # q => proc'[p] = proc[p]
  BY <1>0 DEF RuntimeTypes, StoppingAsked, PidsSpawned
<1>4. \A t \in Names : t # s => pid[t] # q
  BY <1>0 DEF PidUnique
<1> HIDE DEF q
<1>5. RuntimeTypes'
  BY <1>1, <1>3 DEF RuntimeTypes, ServiceState
<1>6. PidAgrees' /\ PidUnique'
  BY <1>2 DEF PidAgrees, PidUnique
<1>7. NoOrphan'
  <2>1. ASSUME NEW p \in Pids, proc'[p] = "running" PROVE \E t \in Names : pid'[t] = p
    <3>1. p # q /\ proc[p] = "running"
      BY <1>3, <2>1
    <3>2. PICK t \in Names : pid[t] = p
      BY <3>1 DEF NoOrphan
    <3>3. t # s
      BY <3>1, <3>2 DEF q
    <3> QED
      BY <1>2, <3>2, <3>3
  <2> QED
    BY <2>1 DEF NoOrphan
<1>8. RunningIsReal'
  <2>1. ASSUME NEW t \in Names, state'[t] = "Running"
        PROVE  proc'[pid'[t]] = "running" \/ exit_code'[pid'[t]] # NoCode
    <3>1. t # s /\ pid'[t] = pid[t] /\ state[t] = "Running"
      BY <1>2, <2>1
    <3>2. pid[t] \in Pids /\ pid[t] # q
      BY <1>4, <3>1 DEF RuntimeTypes, PidAgrees
    <3> QED
      BY <1>3, <3>1, <3>2 DEF RunningIsReal
  <2> QED
    BY <2>1 DEF RunningIsReal
<1>9. StoppingAsked'
  BY <1>2, <1>3, <1>4 DEF StoppingAsked, RuntimeTypes, PidAgrees
<1>10. PidsSpawned'
  <2>1. Spawned' = Spawned
    BY <1>0, <1>3 DEF Spawned
  <2>2. \A t \in Names : pid'[t] \in Pids => proc'[pid'[t]] # "none"
    BY <1>2, <1>3, <1>4, ServiceManagerAssumption DEF PidsSpawned
  <2>3. \A p \in Pids : exit_code'[p] # NoCode => proc'[p] = "exited"
    BY <1>3 DEF PidsSpawned
  <2> QED
    BY <2>1, <2>2, <2>3 DEF PidsSpawned
<1> QED
  BY <1>2, <1>5, <1>6, <1>7, <1>8, <1>9, <1>10

\* A process exits.
LEMMA ProcessExitKeeps ==
    ASSUME Runtime, NEW p \in Pids, NEW code \in ExitCodes, ProcessExits(p, code)
    PROVE  Runtime'
<1> USE DEF Runtime
<1>1. /\ proc[p] \in {"running", "asked", "killed"} /\ code # NoCode
      /\ proc' = [proc EXCEPT ![p] = "exited"]
      /\ exit_code' = [exit_code EXCEPT ![p] = code]
      /\ state' = state /\ pid' = pid /\ restart_count' = restart_count
  BY ServiceManagerAssumption DEF ProcessExits, runtime, NoCode, Signalled
<1>2. /\ proc'[p] = "exited" /\ \A q \in Pids : q # p => proc'[q] = proc[q]
      /\ exit_code'[p] = code /\ \A q \in Pids : q # p => exit_code'[q] = exit_code[q]
  BY <1>1 DEF RuntimeTypes
<1>3. RuntimeTypes'
  BY <1>1 DEF RuntimeTypes
<1>4. PidAgrees' /\ PidUnique'
  BY <1>1 DEF PidAgrees, PidUnique
<1>5. NoOrphan'
  BY <1>1, <1>2 DEF NoOrphan
<1>6. RunningIsReal' /\ StoppingAsked'
  BY <1>1, <1>2 DEF RunningIsReal, StoppingAsked, PidAgrees, RuntimeTypes
<1>7. PidsSpawned'
  <2>1. Spawned' = Spawned
    BY <1>1, <1>2 DEF Spawned
  <2> QED
    BY <1>1, <1>2, <2>1 DEF PidsSpawned
<1> QED
  BY <1>3, <1>4, <1>5, <1>6, <1>7

\* on_service_exit: the service with the pid, if there is one still, does not run.
LEMMA OnExitKeeps ==
    ASSUME Runtime, NEW p \in Pids, OnServiceExit(p)
    PROVE  Runtime' /\ \A t \in Names : state'[t] = "Stopping" => state[t] = "Stopping"
<1> USE DEF Runtime
<1> DEFINE hit == {s \in Names : pid[s] = p}
<1>1. /\ exit_code[p] # NoCode /\ exit_code' = [exit_code EXCEPT ![p] = NoCode]
          /\ proc' = proc
      /\ state' \in [Names -> ServiceState] /\ pid' \in [Names -> Pids \cup {NoPid}]
      /\ restart_count' \in [Names -> 0 .. max_restarts]
      /\ \A s \in Names : IF s \in hit
            THEN state'[s] \in {"Starting", "Failed", "Stopped"} /\ pid'[s] = NoPid
            ELSE state'[s] = state[s] /\ pid'[s] = pid[s]
  <2> DEFINE code == exit_code[p]
             After(s) == IF should_restart(s, code) THEN "Starting"
                         ELSE IF code # 0 THEN "Failed" ELSE "Stopped"
             Count(s) == IF s \in hit /\ should_restart(s, code) THEN restart_count[s] + 1
                         ELSE restart_count[s]
  <2>1. /\ exit_code[p] # NoCode /\ exit_code' = [exit_code EXCEPT ![p] = NoCode]
            /\ proc' = proc
        /\ state' = [s \in Names |-> IF s \in hit THEN After(s) ELSE state[s]]
        /\ pid' = [s \in Names |-> IF s \in hit THEN NoPid ELSE pid[s]]
        /\ restart_count' = [s \in Names |-> Count(s)]
    BY DEF OnServiceExit
  <2>2. \A s \in Names : Count(s) \in 0 .. max_restarts
    <3>1. ASSUME NEW s \in Names PROVE Count(s) \in 0 .. max_restarts
      <4>1. restart_count[s] \in 0 .. max_restarts /\ max_restarts \in Nat
        BY ServiceManagerAssumption DEF RuntimeTypes
      <4>2. should_restart(s, code) => restart_count[s] < max_restarts
        BY DEF should_restart
      <4> QED
        BY <4>1, <4>2
    <3> QED
      BY <3>1
  <2>3. \A s \in Names : After(s) \in {"Starting", "Failed", "Stopped"}
    OBVIOUS
  <2> HIDE DEF After, Count, hit
  <2> QED
    BY <2>1, <2>2, <2>3 DEF RuntimeTypes, ServiceState
<1>2. exit_code'[p] = NoCode /\ \A q \in Pids : q # p => exit_code'[q] = exit_code[q]
  BY <1>1 DEF RuntimeTypes
<1>3. RuntimeTypes'
  BY <1>1 DEF RuntimeTypes
<1>4. proc[p] = "exited"
  BY <1>1 DEF PidsSpawned
<1>5. PidAgrees' /\ PidUnique'
  BY <1>1 DEF PidAgrees, PidUnique
<1>6. NoOrphan'
  BY <1>1, <1>4 DEF NoOrphan
<1>7. RunningIsReal'
  <2>1. ASSUME NEW t \in Names, state'[t] = "Running"
        PROVE  proc'[pid'[t]] = "running" \/ exit_code'[pid'[t]] # NoCode
    <3>1. t \notin hit /\ pid'[t] = pid[t] /\ state[t] = "Running"
      BY <1>1, <2>1
    <3>2. pid[t] \in Pids /\ pid[t] # p
      BY <3>1 DEF RuntimeTypes, PidAgrees
    <3> QED
      BY <1>1, <1>2, <3>1, <3>2 DEF RunningIsReal
  <2> QED
    BY <2>1 DEF RunningIsReal
<1>8. PidsSpawned'
  <2>1. Spawned' = Spawned
    BY <1>1 DEF Spawned
  <2>2. \A t \in Names : pid'[t] \in Pids => proc'[pid'[t]] # "none"
    BY <1>1, ServiceManagerAssumption DEF PidsSpawned
  <2> QED
    BY <1>1, <1>2, <2>1, <2>2 DEF PidsSpawned
<1>9. StoppingAsked'
  BY <1>1 DEF StoppingAsked
<1> QED
  BY <1>1, <1>3, <1>5, <1>6, <1>7, <1>8, <1>9

--------------------------------------------------------------------------------
(* Boot *)

\* A nonempty set of natural numbers has a least element.
LEMMA Least ==
    ASSUME NEW T \in SUBSET Nat, T # {}
    PROVE  \E n \in T : \A m \in T : n <= m
<1>1. PICK n \in T : \A m \in T : ~ (<<m, n>> \in OpToRel(<, Nat))
  BY NatLessThanWellFounded, WFMin
<1>2. ASSUME NEW m \in Nat, NEW k \in Nat, m < k PROVE <<m, k>> \in OpToRel(<, Nat)
  <2>1. <<m, k>> \in Nat \X Nat /\ <<m, k>>[1] < <<m, k>>[2]
    BY <1>2
  <2> QED
    BY <2>1, Zenon DEF OpToRel
<1>3. \A m \in T : ~ (m < n)
  BY <1>1, <1>2
<1> QED
  BY <1>3

\* A set of services has a first one in the order of all_ordered, and what that one
\* requires is not in the set.
LEMMA FirstIn ==
    ASSUME NEW S \in SUBSET Core, S # {}
    PROVE  First(S) \in S /\ requires[First(S)] \cap S = {}
<1> DEFINE T == {i \in DOMAIN Services : Services[i] \in S}
<1>0. /\ DOMAIN Services = 1 .. Len(Services) /\ Len(Services) \in Nat
      /\ DOMAIN Services \subseteq Nat
  BY ServiceManagerAssumption
<1>1. T \in SUBSET Nat /\ T # {}
  BY <1>0 DEF Core, ToSet
<1>2. PICK n \in T : \A m \in T : n <= m
  <2> HIDE DEF T
  <2> QED
    BY <1>1, Least
<1> DEFINE P(i) == /\ Services[i] \in S
                   /\ \A j \in DOMAIN Services : Services[j] \in S => i <= j
           k == CHOOSE i \in DOMAIN Services : P(i)
<1>3. n \in DOMAIN Services /\ P(n)
  BY <1>2
<1>4. k \in DOMAIN Services /\ P(k)
  <2> HIDE DEF P
  <2> QED
    BY <1>3
<1>5. First(S) = Services[k]
  BY DEF First
<1> HIDE DEF k
<1>6. requires[Services[k]] \subseteq {Services[j] : j \in 1 .. k - 1}
  BY <1>4, ServiceManagerAssumption
<1>7. \A j \in 1 .. k - 1 : Services[j] \notin S
  <2>1. ASSUME NEW j \in 1 .. k - 1 PROVE j \in DOMAIN Services /\ ~(k <= j)
    BY <1>0, <1>4
  <2> QED
    BY <1>4, <2>1
<1> QED
  BY <1>4, <1>5, <1>6, <1>7

\* The services of boot require only each other.
LEMMA CoreRequires == \A s \in Core : requires[s] \subseteq Core
<1>1. ASSUME NEW s \in Core PROVE requires[s] \subseteq Core
  <2>1. PICK i \in DOMAIN Services : s = Services[i]
    BY DEF Core, ToSet
  <2>2. requires[s] \subseteq {Services[j] : j \in 1 .. i - 1}
    BY <2>1, ServiceManagerAssumption
  <2>3. 1 .. i - 1 \subseteq DOMAIN Services
    BY <2>1, ServiceManagerAssumption
  <2> QED
    BY <2>2, <2>3 DEF Core, ToSet
<1> QED
  BY <1>1

\* mark_failed marks the pending services that require one it marks, and no others.
LEMMA DependentsClosed ==
    ASSUME NEW s \in Names
    PROVE  /\ Dependents(s) \subseteq pending
           /\ \A d \in pending :
                requires[d] \cap (Dependents(s) \cup {s}) # {} <=> d \in Dependents(s)
<1> DEFINE Closed(F) == \A d \in pending : requires[d] \cap (F \cup {s}) # {} => d \in F
<1>1. Dependents(s) = {d \in pending : \A F \in SUBSET pending : Closed(F) => d \in F}
  BY DEF Dependents
<1>2. ASSUME NEW d \in pending, requires[d] \cap (Dependents(s) \cup {s}) # {},
             NEW F \in SUBSET pending, Closed(F)
      PROVE  d \in F
  <2>1. Dependents(s) \subseteq F
    BY <1>1, <1>2
  <2>2. requires[d] \cap (F \cup {s}) # {}
    BY <1>2, <2>1
  <2> QED
    BY <1>2, <2>2
<1>3. ASSUME NEW d \in Dependents(s), requires[d] \cap (Dependents(s) \cup {s}) = {}
      PROVE  FALSE
  <2> DEFINE F == Dependents(s) \ {d}
  <2>1. Closed(Dependents(s)) /\ Dependents(s) \subseteq pending
    <3>1. \A e \in pending : requires[e] \cap (Dependents(s) \cup {s}) # {}
              => \A G \in SUBSET pending : Closed(G) => e \in G
      <4> HIDE DEF Closed
      <4> QED
        BY <1>2
    <3> QED
      BY <1>1, <3>1
  <2>2. Closed(F) /\ F \in SUBSET pending
    BY <1>3, <2>1
  <2> HIDE DEF F, Closed
  <2>3. d \in F
    BY <1>1, <2>2
  <2> QED
    BY <2>3 DEF F
<1> HIDE DEF Closed
<1> QED
  BY <1>1, <1>2, <1>3

\* A round of boot starts one of the services that are ready.
LEMMA BootStartKeeps ==
    ASSUME BootSets, pc = "boot_start", ready # {}, BootStarts
    PROVE  BootSets'
<1> DEFINE s == First(ready)
<1>1. s \in ready /\ s \in NextToStart
  BY FirstIn DEF BootSets
<1>2. /\ pending' = pending \ {s} /\ started' = started \cup {s} /\ ready' = ready \ {s}
      /\ failed' = failed /\ pc' = pc
  BY DEF BootStarts
<1> HIDE DEF s
<1>3. s \in pending /\ requires[s] \subseteq started
  BY <1>1 DEF NextToStart
<1> QED
  BY <1>1, <1>2, <1>3 DEF BootSets, NextToStart

\* One of them fails, with all that depend on it; the others stay ready.
LEMMA BootFailKeeps ==
    ASSUME BootSets, pc = "boot_start", ready # {}, BootFails
    PROVE  BootSets'
<1> DEFINE s == First(ready)
           D == Dependents(s)
<1>1. s \in ready /\ s \in NextToStart
  BY FirstIn DEF BootSets
<1>2. /\ pending' = pending \ (D \cup {s}) /\ failed' = failed \cup D \cup {s}
      /\ ready' = ready \ {s} /\ started' = started
  BY DEF BootFails
<1>3. /\ s \in Names /\ s \in pending /\ requires[s] \subseteq started
  BY <1>1 DEF NextToStart, BootSets, Names
<1>4. /\ D \subseteq pending
      /\ \A d \in pending : requires[d] \cap (D \cup {s}) # {} <=> d \in D
  BY <1>3, DependentsClosed
<1> HIDE DEF s, D
<1> QED
  <2>1. pending' \cup started' \cup failed' = Core /\ ready' \subseteq Core
    BY <1>2, <1>3, <1>4 DEF BootSets
  <2>2. pending' \cap (started' \cup failed') = {} /\ started' \cap failed' = {}
    BY <1>2, <1>3, <1>4 DEF BootSets
  <2>3. \A d \in pending' : requires[d] \cap failed' = {}
    BY <1>2, <1>4 DEF BootSets
  <2>4. \A d \in started' : requires[d] \subseteq started'
    BY <1>2 DEF BootSets
  <2>5. ASSUME NEW d \in ready' PROVE d \in NextToStart'
    <3>1. d \in pending /\ requires[d] \subseteq started /\ d # s
      BY <1>2, <2>5 DEF BootSets, NextToStart
    <3>2. requires[d] \cap (D \cup {s}) = {}
      BY <1>3, <1>4, <3>1 DEF BootSets
    <3>3. d \notin D
      BY <1>4, <3>1, <3>2
    <3> QED
      BY <1>2, <3>1, <3>3 DEF NextToStart
  <2> QED
    BY <2>1, <2>2, <2>3, <2>4, <2>5 DEF BootSets

--------------------------------------------------------------------------------
(* The whole invariant *)

\* Nothing has been started.
LEMMA InitInd == Init => IndInv
<1> SUFFICES ASSUME Init PROVE IndInv
  OBVIOUS
<1>1. RuntimeTypes
  BY ServiceManagerAssumption DEF Init, RuntimeTypes, ServiceState
<1>2. PidsSpawned
  <2>1. Spawned = 1 .. 0
    BY DEF Init, Spawned
  <2>2. 0 \in 0 .. MaxSpawns
    BY ServiceManagerAssumption
  <2>3. \A s \in Names : pid[s] = NoPid
    BY DEF Init
  <2>4. \A p \in Pids : exit_code[p] = NoCode
    BY DEF Init
  <2> QED
    BY <2>1, <2>2, <2>3, <2>4, ServiceManagerAssumption DEF PidsSpawned
<1>3. PidAgrees /\ PidUnique /\ NoOrphan /\ RunningIsReal /\ StoppingAsked
  BY DEF Init, PidAgrees, PidUnique, NoOrphan, RunningIsReal, StoppingAsked
<1>4. Control
  <2>1. StoppingWaits
    BY DEF Init, StoppingWaits
  <2>2. todo \in Seq(Names)
    BY DEF Init
  <2>3. /\ 0 \in Levels /\ runlevel = 0 /\ new_level = 0 /\ pc = "boot"
        /\ target = NoService /\ again = FALSE
    BY ServiceManagerAssumption DEF Init
  <2> QED
    BY <2>1, <2>2, <2>3 DEF Control, Step
<1>5. BootSets
  BY DEF Init, BootSets
<1> QED
  BY <1>1, <1>2, <1>3, <1>4, <1>5 DEF IndInv, Runtime

\* The highest runlevel is one.
LEMMA TopLevelIn == TopLevel \in Levels
BY ServiceManagerAssumption DEF TopLevel

\* Outside boot the sets of boot do not change.
LEMMA BootSame ==
    ASSUME BootSets, UNCHANGED <<bootstrap, ready>>, pc' = "boot_start" => pc = "boot_start"
    PROVE  BootSets'
BY DEF BootSets, bootstrap, NextToStart

\* The first entry and the rest of what a loop has to visit.
LEMMA TodoNext ==
    ASSUME Control, todo # << >>
    PROVE  Head(todo) \in Names /\ Tail(todo) \in Seq(Names)
BY DEF Control

\* Every step of S-INIT and of the processes.
LEMMA IndStep == IndInv /\ [Next]_vars => IndInv'
<1> SUFFICES ASSUME IndInv, [Next]_vars PROVE IndInv'
  OBVIOUS
<1>0. Runtime /\ Control /\ BootSets
  BY DEF IndInv
<1>1. CASE BootRound
  <2>1. /\ pc = "boot" /\ ready' = NextToStart /\ pc' \in {"halted", "boot_start"}
        /\ UNCHANGED <<runtime, bootstrap, runlevel, processes, todo, target, again, new_level>>
    BY <1>1 DEF BootRound
  <2>2. Runtime' /\ state' = state
    BY <1>0, <2>1, SameKeeps
  <2>3. Control'
    BY <1>0, <2>1, <2>2 DEF Control, StoppingWaits, Step
  <2>4. BootSets'
    BY <1>0, <2>1 DEF BootSets, NextToStart, bootstrap
  <2> QED
    BY <2>2, <2>3, <2>4 DEF IndInv
<1>2. CASE BootRoundDone
  <2>1. /\ pc = "boot_start" /\ pc' = "boot"
        /\ UNCHANGED <<runtime, bootstrap, runlevel, processes, todo, ready, target, again, new_level>>
    BY <1>2 DEF BootRoundDone
  <2>2. Runtime' /\ state' = state
    BY <1>0, <2>1, SameKeeps
  <2>3. Control'
    BY <1>0, <2>1, <2>2 DEF Control, StoppingWaits, Step
  <2>4. BootSets'
    BY <1>0, <2>1, BootSame
  <2> QED
    BY <2>2, <2>3, <2>4 DEF IndInv
<1>3. CASE BootStarts \/ BootFails
  <2>1. /\ pc = "boot_start" /\ ready # {} /\ pc' \in {"halted", "boot_start"}
        /\ StartOk(First(ready)) \/ StartErr(First(ready))
        /\ UNCHANGED <<runlevel, todo, target, again, new_level>>
    BY <1>3 DEF BootStarts, BootFails
  <2>2. First(ready) \in Names
    BY <1>0, <2>1, FirstIn DEF BootSets, Names
  <2>3. state[First(ready)] # "Stopping"
    BY <1>0, <2>1, <2>2 DEF Control, StoppingWaits
  <2>4. Runtime' /\ \A t \in Names : state'[t] = "Stopping" => state[t] = "Stopping"
    BY <1>0, <2>1, <2>2, <2>3, StartKeeps
  <2>5. Control'
    BY <1>0, <2>1, <2>4 DEF Control, StoppingWaits, Step
  <2>6. BootSets'
    BY <1>0, <1>3, <2>1, BootStartKeeps, BootFailKeeps
  <2> QED
    BY <2>4, <2>5, <2>6 DEF IndInv
<1>4. CASE BootDone
  <2>1. /\ pc = "boot" /\ pc' = "raise"
        /\ new_level' = TopLevel /\ todo' = level_services[TopLevel]
        /\ UNCHANGED <<runtime, bootstrap, runlevel, processes, ready, target, again>>
    BY <1>4 DEF BootDone
  <2>2. Runtime' /\ state' = state
    BY <1>0, <2>1, SameKeeps
  <2>3. todo' \in Seq(Names) /\ new_level' \in Levels
    BY <2>1, TopLevelIn, ServiceManagerAssumption
  <2>4. Control'
    BY <1>0, <2>1, <2>2, <2>3 DEF Control, StoppingWaits, Step
  <2>5. BootSets'
    BY <1>0, <2>1, BootSame
  <2> QED
    BY <2>2, <2>4, <2>5 DEF IndInv
<1>5. CASE SweepBegins
  <2>1. /\ pc = "idle" /\ pc' = "sweep" /\ todo' = BuiltIn \o Services
        /\ UNCHANGED <<runtime, bootstrap, runlevel, processes, ready, target, again, new_level>>
    BY <1>5 DEF SweepBegins
  <2>2. Runtime' /\ state' = state
    BY <1>0, <2>1, SameKeeps
  <2>3. Control'
    BY <1>0, <2>1, <2>2, ServiceManagerAssumption DEF Control, StoppingWaits, Step
  <2>4. BootSets'
    BY <1>0, <2>1, BootSame
  <2> QED
    BY <2>2, <2>3, <2>4 DEF IndInv
<1>6. CASE SweepStep \/ RaiseStep
  <2>1. /\ pc \in {"sweep", "raise"} /\ todo # << >> /\ todo' = Tail(todo)
        /\ start(Head(todo)) \/ UNCHANGED <<runtime, processes>>
        /\ UNCHANGED <<bootstrap, runlevel, pc, ready, target, again, new_level>>
    BY <1>6 DEF SweepStep, RaiseStep
  <2>2. Head(todo) \in Names /\ todo' \in Seq(Names)
    BY <1>0, <2>1, TodoNext
  <2>3. state[Head(todo)] # "Stopping"
    BY <1>0, <2>1, <2>2 DEF Control, StoppingWaits
  <2>4. Runtime' /\ \A t \in Names : state'[t] = "Stopping" => state[t] = "Stopping"
    BY <1>0, <2>1, <2>2, <2>3, StartKeeps, SameKeeps DEF start
  <2>5. Control'
    BY <1>0, <2>1, <2>2, <2>4 DEF Control, StoppingWaits
  <2>6. BootSets'
    BY <1>0, <2>1, BootSame
  <2> QED
    BY <2>4, <2>5, <2>6 DEF IndInv
<1>7. CASE SweepDone \/ RunlevelReached
  <2>1. /\ pc # "stop_wait" /\ pc' = "idle" /\ runlevel' \in {runlevel, new_level}
        /\ UNCHANGED <<runtime, bootstrap, processes, todo, ready, target, again, new_level>>
    BY <1>7 DEF SweepDone, RunlevelReached
  <2>2. Runtime' /\ state' = state
    BY <1>0, <2>1, SameKeeps
  <2>3. Control'
    BY <1>0, <2>1, <2>2 DEF Control, StoppingWaits, Step
  <2>4. BootSets'
    BY <1>0, <2>1, BootSame
  <2> QED
    BY <2>2, <2>3, <2>4 DEF IndInv
<1>8. ASSUME NEW s \in Names, StartCommand(s) PROVE IndInv'
  <2>1. pc = "idle" /\ start(s) /\ UNCHANGED <<bootstrap, runlevel, control>>
    BY <1>8 DEF StartCommand
  <2>2. state[s] # "Stopping"
    BY <1>0, <2>1 DEF Control, StoppingWaits
  <2>3. Runtime' /\ \A t \in Names : state'[t] = "Stopping" => state[t] = "Stopping"
    BY <1>0, <2>1, <2>2, StartKeeps DEF start
  <2>4. Control'
    BY <1>0, <2>1, <2>3 DEF Control, StoppingWaits, control
  <2>5. BootSets'
    BY <1>0, <2>1, BootSame DEF control
  <2> QED
    BY <2>3, <2>4, <2>5 DEF IndInv
<1>9. ASSUME NEW s \in Names, NEW restart \in BOOLEAN, StopCommand(s, restart) PROVE IndInv'
  <2>1. /\ pc = "idle" /\ pc' = "stop_wait" /\ target' = s /\ again' = restart
        /\ StopAtOnce(s) \/ StopBegins(s)
        /\ UNCHANGED <<bootstrap, runlevel, todo, ready, new_level>>
    BY <1>9 DEF StopCommand
  <2>2. Runtime' /\ \A t \in Names : state'[t] = "Stopping" => state[t] = "Stopping"
            \/ t = s
    BY <1>0, <2>1, StopKeeps
  <2>3. Control'
    BY <1>0, <2>1, <2>2 DEF Control, StoppingWaits, Step
  <2>4. BootSets'
    BY <1>0, <2>1, BootSame
  <2> QED
    BY <2>2, <2>3, <2>4 DEF IndInv
<1>10. CASE StopExited \/ StopTimesOut \/ StopWaitFails
  <2>1. /\ pc = "stop_wait" /\ state[target] = "Stopping" /\ Stopped(target)
        /\ exit_code' = exit_code
        /\ \/ proc' = proc
           \/ proc[pid[target]] = "asked"
                 /\ proc' = [proc EXCEPT ![pid[target]] = "killed"]
        /\ UNCHANGED <<bootstrap, runlevel, control>>
    BY <1>10 DEF StopExited, StopTimesOut, StopWaitFails, processes
  <2>2. target \in Names
    BY <1>0, <2>1 DEF Control
  <2>3. Runtime' /\ \A t \in Names : state'[t] = "Stopping" => state[t] = "Stopping"
            /\ t # target
    BY <1>0, <2>1, <2>2, StoppedKeeps
  <2>4. Control'
    BY <1>0, <2>1, <2>3 DEF Control, StoppingWaits, control
  <2>5. BootSets'
    BY <1>0, <2>1, BootSame DEF control
  <2> QED
    BY <2>3, <2>4, <2>5 DEF IndInv
<1>11. CASE StopReturns
  <2>1. /\ pc = "stop_wait" /\ state[target] = "Stopped" /\ pc' \in {"idle", "lower"}
        /\ start(target) \/ UNCHANGED <<runtime, processes>>
        /\ target' = NoService /\ again' = FALSE
        /\ UNCHANGED <<bootstrap, runlevel, todo, ready, new_level>>
    BY <1>11 DEF StopReturns
  <2>2. target \in Names /\ \A t \in Names : state[t] # "Stopping"
    BY <1>0, <2>1 DEF Control, StoppingWaits
  <2>3. Runtime' /\ \A t \in Names : state'[t] = "Stopping" => state[t] = "Stopping"
    BY <1>0, <2>1, <2>2, StartKeeps, SameKeeps DEF start
  <2>4. Control'
    BY <1>0, <2>1, <2>2, <2>3 DEF Control, StoppingWaits, Step
  <2>5. BootSets'
    BY <1>0, <2>1, BootSame
  <2> QED
    BY <2>3, <2>4, <2>5 DEF IndInv
<1>12. ASSUME NEW l \in Levels, SetRunlevel(l) PROVE IndInv'
  <2>1. /\ pc = "idle" /\ new_level' = l /\ pc' \in {"raise", "lower"}
        /\ todo' \in {level_services[l], level_services[runlevel]}
        /\ UNCHANGED <<runtime, bootstrap, runlevel, processes, ready, target, again>>
    BY <1>12 DEF SetRunlevel
  <2>2. Runtime' /\ state' = state
    BY <1>0, <2>1, SameKeeps
  <2>3. todo' \in Seq(Names)
    BY <1>0, <2>1, ServiceManagerAssumption DEF Control
  <2>4. Control'
    BY <1>0, <2>1, <2>2, <2>3 DEF Control, StoppingWaits, Step
  <2>5. BootSets'
    BY <1>0, <2>1, BootSame
  <2> QED
    BY <2>2, <2>4, <2>5 DEF IndInv
<1>13. CASE LowerSkips
  <2>1. /\ pc = "lower" /\ todo # << >> /\ todo' = Tail(todo)
        /\ UNCHANGED <<runtime, bootstrap, runlevel, processes, pc, ready, target, again, new_level>>
    BY <1>13 DEF LowerSkips
  <2>2. Runtime' /\ state' = state
    BY <1>0, <2>1, SameKeeps
  <2>3. todo' \in Seq(Names)
    BY <1>0, <2>1, TodoNext
  <2>4. Control'
    BY <1>0, <2>1, <2>2, <2>3 DEF Control, StoppingWaits
  <2>5. BootSets'
    BY <1>0, <2>1, BootSame
  <2> QED
    BY <2>2, <2>4, <2>5 DEF IndInv
<1>14. CASE LowerStep
  <2> DEFINE s == Head(todo)
  <2>1. /\ pc = "lower" /\ todo # << >> /\ todo' = Tail(todo)
        /\ pc' = "stop_wait" /\ target' = s
        /\ StopAtOnce(s) \/ StopBegins(s)
        /\ UNCHANGED <<bootstrap, runlevel, ready, again, new_level>>
    BY <1>14 DEF LowerStep
  <2>2. s \in Names /\ todo' \in Seq(Names)
    BY <1>0, <2>1, TodoNext
  <2> HIDE DEF s
  <2>3. Runtime' /\ \A t \in Names : state'[t] = "Stopping" => state[t] = "Stopping"
            \/ t = s
    BY <1>0, <2>1, <2>2, StopKeeps
  <2>4. Control'
    BY <1>0, <2>1, <2>2, <2>3 DEF Control, StoppingWaits, Step
  <2>5. BootSets'
    BY <1>0, <2>1, BootSame
  <2> QED
    BY <2>3, <2>4, <2>5 DEF IndInv
<1>15. ASSUME NEW p \in Pids, OnServiceExit(p) PROVE IndInv'
  <2>1. UNCHANGED <<bootstrap, runlevel, control>>
    BY <1>15 DEF OnServiceExit
  <2>2. Runtime' /\ \A t \in Names : state'[t] = "Stopping" => state[t] = "Stopping"
    BY <1>0, <1>15, OnExitKeeps
  <2>3. Control'
    BY <1>0, <2>1, <2>2 DEF Control, StoppingWaits, control
  <2>4. BootSets'
    BY <1>0, <2>1, BootSame DEF control
  <2> QED
    BY <2>2, <2>3, <2>4 DEF IndInv
<1>16. ASSUME NEW p \in Pids, NEW code \in ExitCodes, ProcessExits(p, code) PROVE IndInv'
  <2>1. UNCHANGED <<runtime, bootstrap, runlevel, control>>
    BY <1>16 DEF ProcessExits
  <2>2. Runtime'
    BY <1>0, <1>16, ProcessExitKeeps
  <2>3. Control'
    BY <1>0, <2>1 DEF Control, StoppingWaits, control, runtime
  <2>4. BootSets'
    BY <1>0, <2>1, BootSame DEF control
  <2> QED
    BY <2>2, <2>3, <2>4 DEF IndInv
<1>17. CASE UNCHANGED vars
  <2>1. Runtime' /\ state' = state
    BY <1>0, <1>17, SameKeeps DEF vars
  <2>2. Control'
    BY <1>0, <1>17, <2>1 DEF vars, Control, StoppingWaits, control
  <2>3. BootSets'
    BY <1>0, <1>17, BootSame DEF vars, control
  <2> QED
    BY <2>1, <2>2, <2>3 DEF IndInv
<1> QED
  BY <1>1, <1>2, <1>3, <1>4, <1>5, <1>6, <1>7, <1>8, <1>9, <1>10, <1>11, <1>12, <1>13,
     <1>14,
     <1>15, <1>16, <1>17
     DEF Next, BootStep, StopStep, LoopStep, Command, Halt

\* It holds in every state of every behaviour.
LEMMA AlwaysInd == Spec => []IndInv
BY InitInd, IndStep, PTL DEF Spec

--------------------------------------------------------------------------------

(***************************************************************************)
(* State and pid of the services agree, whatever services there are and    *)
(* however their processes exit.                                           *)
(***************************************************************************)
THEOREM ServicesAgree == Spec => []ServiceInv
<1>1. IndInv => ServiceInv
  BY DEF IndInv, Runtime, RuntimeTypes, PidAgrees, PidUnique, Control, StoppingWaits,
         BootSets, ServiceInv, TypeOK
<1> QED
  BY <1>1, AlwaysInd, PTL

(***************************************************************************)
(* Every process that runs and that stop was never asked to end is the     *)
(* process of a service; what stop gave up on may run on unrecorded.       *)
(***************************************************************************)
THEOREM NoProcessEscapes == Spec => []NoOrphan
<1>1. IndInv => NoOrphan
  BY DEF IndInv, Runtime
<1> QED
  BY <1>1, AlwaysInd, PTL

(***************************************************************************)
(* A service that is said to run does, or its exit is still to be told.    *)
(***************************************************************************)
THEOREM RunningServicesRun == Spec => []RunningIsReal
<1>1. IndInv => RunningIsReal
  BY DEF IndInv, Runtime
<1> QED
  BY <1>1, AlwaysInd, PTL

(***************************************************************************)
(* For any dependencies that all_ordered respects, boot starts a service   *)
(* only after what it requires and always has one that can be started: it  *)
(* never ends with DependencyCycle, whatever has failed.                   *)
(***************************************************************************)
THEOREM BootNeverStuck == Spec => []BootFollowsDependencies
<1>1. ASSUME BootSets, pending # {} PROVE NextToStart # {}
  <2>1. First(pending) \in pending /\ requires[First(pending)] \cap pending = {}
    BY <1>1, FirstIn DEF BootSets
  <2>2. requires[First(pending)] \subseteq Core
    BY <1>1, <2>1, CoreRequires DEF BootSets
  <2>3. requires[First(pending)] \subseteq started
    BY <1>1, <2>1, <2>2 DEF BootSets
  <2> QED
    BY <2>1, <2>3 DEF NextToStart
<1>2. IndInv => BootFollowsDependencies
  BY <1>1 DEF IndInv, BootSets, BootFollowsDependencies
<1> QED
  BY <1>2, AlwaysInd, PTL

================================================================================
