# Splax OS: a TLA+ verification project

Splax OS (`src/`) is a capability-secure microkernel in Rust with user-space
services around it. This directory keeps TLA+ models of the kernel's core
protocols, its native file system and the service supervisor, TLC
configurations that check them on small instances, and TLAPS proofs of their
main properties for all values of the constants. Every definition is translated
from the source; `PROJECT.json` maps each one to its lines.

## The system

Paths are relative to `src/kernel/src` unless they start with `src/`.

| Part | State | Operations | What is hard |
|---|---|---|---|
| IPC fast path, `ipc/fastpath.rs` | two positions and an array of slots per ring, no lock; an endpoint is two rings | `try_send`, `try_recv`; `send`, `recv`, `call`; `send_all` | two processes touch the ring at once with stale positions; positions wrap; `call` times out while the answer is on its way |
| IPC manager, `ipc/mod.rs` | channels (ring, sequence, closed flag) under one mutex; queued asynchronous sends and receives under two more | `create_channel`, `send`, `receive`, `close`, `send_async`, `receive_async`, `poll_pending`, `cancel_pending`, `process_pending` | asynchronous calls take several critical sections; `process_pending` works on the same rings as the callers |
| Capability table, `cap/mod.rs` | entries by token, an owner index, a token counter | `create_root`, `grant`, `check`, `revoke` | `grant` acts on a copy of its parent; `revoke` walks a tree that others change, in many critical sections |
| Scheduler, `sched/mod.rs` | process map, three ready queues, current process | `register_process`, `wake`, `block`, `terminate`, `schedule`, `switch_to` | each operation takes several locks one after the other; interrupts wake processes between `schedule` and `switch_to` |
| SMP, `sched/smp.rs`, `smp/` | per-CPU queues and load counters | enqueue, dequeue, steal, CPU on- and offline | counters updated apart from the queues, lock order across CPUs |
| Processes, `process/` | process table; `WaitManager`: children, zombies, waiters, each under its mutex; signal states | `exit`, `exit_signal`, `wait`, `waitpid`, `reparent_children`, signals | a child exits while its parent is about to block; parents die before their children; locks held over calls of the scheduler |
| Revocation engine, `cap/revocation.rs` | revoked set, bloom filter, delegation chains, children lists, expiry times, each under its mutex | `register`, `revoke`, `is_revoked`, `check_expirations`, `renew` | one call takes the mutexes one after the other; a revocation cascades through lists others extend; the filter answers before the set |
| Distributed IPC, `ipc/distributed.rs` | node table, pending requests, handlers | send, request, receive | timeouts race late answers |
| Memory, `mm/` | frame bitmap, heap free list | allocate, free | alignment and coalescing |
| Block layer, `block/` | request queues | add, dispatch, merge, complete | requests for one sector, starvation of writes |
| SplaxFS, `fs/splaxfs.rs` | on disk: superblock, two bitmaps, inode table, data blocks; in memory: copies of the first three | `format`, `mount`, `create`, `mkdir`, `write`, `read`, `sync`, `unmount` | the machine stops, or a write fails, between two block writes of a call; failed calls keep what they allocated |
| S-INIT, `src/services/init/src` | a record per service (state, pid, restart count), the boot lists, the runlevel | `boot_microkernel`, `start`, `stop`, `restart`, `set_runlevel`, `on_service_exit`, the sweep of `init_main` | processes exit when they like, ignore SIGTERM, and are heard of late or never; a failed service takes its dependents along |
| Other file systems, network, drivers, crypto, WASM runtimes, services, tools | see the components of `PROJECT.json` | | |

How they interact: processes are registered, blocked, woken and terminated in
the static `SCHEDULER` (`sched/mod.rs:365`), and only the AArch64 timer interrupt
(`arch/aarch64/timer.rs:145`) schedules it, at every tenth tick; on x86_64 nothing
does. The kernel loop (`Kernel::run`, `lib.rs`) drives a `Scheduler` of its own in
which nothing is registered. Process exit and signals call the
scheduler's `wake` and `terminate`, waiting calls `block`. Kernel stubs reach
user-space services over the fast path; other processes use channels of the IPC
manager. The IPC manager takes capability tokens and does not look at them
(its parameters are `_cap_token`), so the IPC manager and the capability table
share no state and are modelled apart.

What makes each part correct: a ring is a FIFO and no slot is accessed by both
ends; a message accepted by the IPC manager is in one place, or was dropped where
the code drops it (a queued receive completed by `process_pending`, a send it
takes out for a channel closed meanwhile, cancel, close), closing is final, the
pump ends; rights only shrink along grants, a revocation reaches
what was derived, a refusal is final; no Ready process is lost, no terminated
one runs, the CPU is shared as the documentation promises; a child is reaped
once and its parent does not sleep through its exit; a revocation is complete
and its answer is never taken back; acknowledged file data survives failures
and restarts that tear no call apart; the supervisor forgets a running process
only by a stop that gave up on it, and what it says is Running runs.

## Modules

| Module | Models | Instance |
|---|---|---|
| `BoundedFifo` | what a ring promises: put at the tail, take the head, never more than `Capacity` | refined by the next two |
| `SpscRing` | `SpscRing` of `ipc/fastpath.rs` | `MCSpscRing` |
| `IpcManager` | `ipc/mod.rs` | `MCIpcManager` |
| `CapTable` | `cap/mod.rs` | `MCCapTable` |
| `Scheduler` | the static `SCHEDULER` of `sched/mod.rs` with its callers on one AArch64 CPU | `MCScheduler` |
| `ProcessWait` | `process/wait.rs` with what it calls of `process/signal.rs` and `sched/mod.rs` | `MCProcessWait` |
| `Revocation` | `cap/revocation.rs` | `MCRevocation` |
| `SplaxFs` | `fs/splaxfs.rs` on a formatted device | `MCSplaxFs` |
| `ServiceManager` | `src/services/init/src/lib.rs`, `microkernel.rs` | `MCServiceManager` |
| `SpscRingProofs`, `IpcManagerProofs`, `CapTableProofs`, `SchedulerProofs`, `RevocationProofs`, `ProcessWaitProofs`, `ServiceManagerProofs`, `SplaxFsProofs` | theorems about the module of that name, and their proofs | |

Operators whose comment begins with "Wrong variant" are not part of a model.
Each is a plausible mistake in the operator that follows it, kept to show that a
property would notice: `PROJECT.json` lists which property rejects which.

**SpscRing.** A step is what lies between two accesses to shared memory.
`sender` and `receiver` hold the program point and the local copies of the two
positions. In `try_send` the own position is loaded relaxed, which only its
owner stores, so loading both positions is one step. Acquire and Release make
the order of the steps the order other cores see. The `sequences` array is
never used by the code. The mask `pos & (SIZE - 1)` is a remainder because the
size divides the word, which is an assumption on the constants.

**IpcManager.** A step is one critical section of the `channels` mutex or of a
pending queue. `call` holds a process between the two halves of `send_async` or
`receive_async`. `pump` is where `process_pending` stands, loop iteration by
iteration, with the mutexes it holds: the steps of others that need one of them
are disabled meanwhile. A message is the number of its acceptance and the
sequence number the ring gives it. `accepted`, `got`, `taken` and `discarded`
are history. The timeouts of queued operations are stored and never read by the
code, so no step depends on them. `process_pending` may be called at any time
and need not be: nothing in this tree calls it.

**CapTable.** A step is one critical section of the `entries` mutex. `call`
holds what `grant` or `revoke` has read, `stack` the activations of
`revoke_derived`, each with the children it has collected and not marked yet. A
token is the value of the counter drawn for it: token values are taken to be
distinct. Children are marked in the order of their random token values, so in
any order. `create_root` is the kernel's and may be called at any time.
`expires_at` is never set to a time, so nothing expires. `check` reads one copy
of an entry and changes only the audit log; it is the operator `CheckResult`
and the property `RefusedForever` is about it. `lineage` and `late` are history.

**Scheduler.** The timer interrupt of one AArch64 CPU calls `schedule` and then
`switch_to`; `picked` is the process between the two. The process on the CPU blocks and terminates itself,
as the callers in `process/wait.rs` do. `wake` comes from signals and exiting
children at any time. Priorities within a class and time slices are stored and
not used by the code. A critical section is a step, so a deadlock between the
locks, or an interrupt that meets a held one, cannot show.

**ProcessWait.** A step is one critical section. Two mutexes stay held over
several steps and are variables: `zombies`, which `wait` keeps from its scan
until it has removed the child or marked its caller Blocked, and `children`,
which `reparent_children` keeps while it locks `zombies`. `block` only changes
the state of the caller; `Deschedule` is the timer taking the CPU, after which
only a wake brings it back. That is preemption as `switch_to` keeps its books: on
AArch64 it exchanges no register frames yet (`sched/mod.rs:322`), and on x86_64
nothing drives the scheduler. `exit_signal` is left out, as nothing calls it; it
would neither look at the waiters nor tell the scheduler that the process has
ended. Of a signal only its wake-up is left. `Fork` and
`Kill` stand for callers of `add_child`, `init_process` and
`SignalManager::send` outside this code: nothing in the tree calls the first
two yet. An exit status is a data value and left out; `reaped` is history.

**Revocation.** A step is one critical section; `call` holds a caller between
two of them, with the stack of the recursion of `revoke` and
`revoke_children`. `check_expirations` keeps `timed_tokens` locked while it asks
`is_revoked` about each token, so `timed_lock` is a variable and the two
sections of `is_revoked` are two steps there. The filter is a set of bits and
`bits` the ones a token's hashes choose, any function. The cycle counter is read
before `timed_tokens` is locked and may be old by then. As in the code, `register`
checks nothing: a token may be registered again, which replaces its chain and lists
it once more, and a parent nobody has registered counts as a chain of its own.
Nor does it keep a token from becoming its own ancestor, and then a cascading
`revoke` recurses for ever; the instance has no such registrations.
`promised`, `seen`, `expired` and the time limit of the latest registration are
history.

**SplaxFs.** A call is the list of the steps it still has to take; a step is
one allocation in memory or one block write. Calls do not interleave, as each
holds `MOUNTED_FS`. `Crash` stops the machine and `IoError` fails a write, at
any point. A block is written whole or not at all. Names and paths keep their
structure, sizes are counted in blocks, and a block of file data is one value.
The inode bitmap is kept as the code has it: bit `i` stands for inode `i + 1`,
so `format`, which sets bits 0 to 2, reserves inode 3 as well. `torn` records
that memory was lost between a block write and the bitmaps that belong to it;
the first two properties are about everything else. After that, `write_file` can
be given the block of a directory, and `lookup` and `readdir` take whatever bytes
it then holds for entries. What they see there the code does not limit, so the
model ends when a directory that a path leads to has file data in its block
(`Misread`, `End`), and `NamedIsInitialised` and `FreeCountsSuffice` speak of
everything before.

**ServiceManager.** S-INIT is one thread, and one step is one `start`, one round
of polling in `stop`, or one position of a loop. Boot starts the services of
`all_ordered`; those that only `register_builtin_services` registers (`BuiltIn`)
are started by runlevels, commands and the sweep. The processes it has spawned
are apart from the records it keeps of them: `proc` is the truth, `state` and
`pid` what S-INIT thinks. A process may exit at any time, ignore SIGTERM, and be
reported by `on_service_exit` at any later time or never. `stop` looks at neither
of its two `kill_process` results: a process it has asked to end ("asked") may run
on after SIGTERM, and SIGKILL may fail too. It also gives up, without SIGKILL, when
`wait` reports an error (`StopWaitFails`), and forgets the pid in every case.
Commands arrive in the
main loop, where the code has a comment for them. A round of boot computes the
services whose dependencies have started and then starts them one by one;
`ready` is what is left of the round. A raised runlevel starts the
services of the new one in the order it lists them; a lowered one goes through
those of the old one in that same order and, one per step, passes over what the
new one lists too (`LowerSkips`) or stops it (`LowerStep`). `mark_failed` may list a service twice, which only changes
a count; `failed` is a set here.

## Runs

| Run | Constants | Distinct states | Shows |
|---|---|---|---|
| `spsc_ring` | 2 slots, words wrap at 8, 3 messages | 9,932 | `NoSlotRace`, `RingInv`, `RefinesFifo`, `FullRingDrains` hold |
| `ipc_manager` | 2 processes, ring of 2, one channel and two ids, 2 pending, 4 messages, 3 operations | 642,696 | `IpcInv`, `Conservation`, `QueuesInIdOrder`, `RefinesFifo`, `ClosedIsFinal`, `PumpTerminates` hold |
| `ipc_order` | the same | | `DeliveredInOrder` is violated |
| `cap_table` | 2 processes, READ and GRANT, room for 3 capabilities, 4 tokens | 356,861 | `CapInv`, `Attenuation`, `RevocationReaches`, `OwnerIndexAgrees`, `RefusedForever`, `RevokeReturns` hold |
| `cap_revoke` | the same with one process | | `RevokeIsComplete` is violated |
| `scheduler` | 3 processes of any classes, wakes while fewer than 4 are queued | 143,383 | `SchedInv`, `ReadyNotLost`, `TerminatedIsGone`, `LoneRealtimeRuns` hold |
| `starvation` | the same | | `ReadyRuns` is violated |
| `splaxfs` | 3 paths, files of 0 to 2 blocks, 5 inodes, 4 data blocks, 2 entries per directory, one fault | 2,575,519 | `FsInv`, `AckedIsRead`, `NamedIsInitialised`, `FreeCountsSuffice` hold |
| `process_wait` | init and 2 more processes, 3 kinds of wait | 1,269,574 | `WaitInv`, `ReapedOnce`, `FamilyTree`, `NoLostWakeup` hold |
| `wait_hang` | init and one child | | `WokenWhenChildExits` is violated |
| `revocation` | 3 tokens, 2 callers, 3 registrations (one under an unknown parent, one token under two), look-ups of 2 tokens, a clock of 2 ticks | 3,009,215 | `RevocationInv`, `RevokeReaches`, `RevokedForGood`, `ExpiryNotLost` hold |
| `service_manager` | 3 services of boot with dependencies and a built-in one, 3 restart policies, 3 runlevels, 3 spawns | 1,847,774 | `ServiceInv`, `NoOrphan`, `RunningIsReal`, `BootFollowsDependencies`, `BackToLoop` hold |

Why the bounds are enough. A ring of two slots can be empty, partly filled and
full, and with a word of 8 positions wrap four times as far as slots do. Four
messages on a ring of two fill it, fill the pending queue and let one overtake;
a fifth call meets the full queue. The
second channel id meets the channel limit. Three capabilities are a
chain of a root, a child and a grandchild, the shortest in which revocation
has to recurse; the fourth token meets the full table. Three processes are the
least with which two can starve one, and four queue entries let one process be
queued twice. On the device of `splaxfs` inodes, blocks and directory slots all
run out, and one fault can be followed by a mount, which drops the memory once
more. Init and two processes are the least with which a parent dies
before, while or after its child does. Three tokens are a chain that a cascade
has to descend, and the filter takes the third for revoked when the other two
are, so false positives happen. In `service_manager` a service can fail and take
another along, directly and through the critical one; a start that fails spends
no process, so with three spawns services are restarted, and the theorems hold
for any number. `MaxMessages`, `MaxOps`, `ChannelIds`, `MaxTokens`, `MaxPids`,
`MaxQueued`, `MaxFaults`, `NumPids`, `MaxChildren`, `MaxTime` and `MaxSpawns`
bound what the code does not bound, and `Registrations`, `Revocations` and
`WaitRequests` choose the arguments of calls; the other constants are limits of the code itself.

`scheduler` and `starvation` do not check for deadlock: when every process has
terminated and no pid is left, the CPU halts. `process_wait` and `wait_hang` do
not either: the code can deadlock, see below.

Fairness. `spsc_ring`: a `try_recv` that has begun goes on. That anybody calls it
is not assumed, since `FastEndpoint::call` gives up after a million spins and no
service in the tree receives in a loop: `FullRingDrains` is about a consumer that
does keep calling. The producer owes nothing. `ipc_manager`: a
`process_pending` that has begun goes on; that it is called is not assumed.
`cap_table`: a `revoke` that has begun goes on, as it waits only for mutexes
released within a step. `scheduler`: the CPU goes on scheduling, since the
handler of the AArch64 timer sets its next compare value first and calls `schedule`
every tenth time, and `register_process` finishes. This says nothing of x86_64,
and takes it that the interrupt meets no held mutex, which is a hazard of its own.
Nothing is assumed of wakes, blocks or exits. `wait_hang`: a call that has begun
goes on as long as its process has a CPU; with less, the parent would of course
sleep on. `service_manager`: S-INIT goes on with a boot, a stop, a sweep or a
runlevel change it has begun; nothing is assumed of the processes, which may
ignore SIGTERM for ever, nor of commands, nor that `wait` ever fails.

## What disagrees with the documentation

- **Delivery order** (`ipc_order`). `ipc/mod.rs:12` says "Message delivery
  order is guaranteed". A message that `send_async` queued on a full ring is
  overtaken: the receiver takes one, the sender calls `send`, and the later
  message is in the ring before `process_pending` moves the queued one.
- **Revocation** (`cap_revoke`). `cap/mod.rs:348` says "Revokes a capability
  and all derived capabilities". `grant` accepts a revoked parent and
  `revoke_derived` does not descend below a child that is revoked already, so a
  capability granted from a revoked child survives the revocation of the root.
  `RevocationReaches`, which holds and is proved, says that this is the only
  kind of capability that concurrent revocations leave behind.
- **Fairness of the scheduler** (`starvation`). `sched/mod.rs:10` says "Lower
  priority processes still make progress" and `src/docs/SCHEDULER.md:71`
  "starvation is prevented by design". A queue is pushed and popped at the
  same end: of three processes of one class two alternate, and the third never
  runs.
- **Waiting for a child** (`wait_hang`). `process/wait.rs:394` says "Block the
  parent process - it will be woken when a child exits". `wait` marks its caller
  Blocked and drops the `zombies` mutex afterwards. If the timer takes the CPU in
  between, the parent holds the mutex and is not queued; the child spins on it in
  `do_exit` before it reaches the wake-up.

What the models show besides, where no run of its own states it:

- `process/wait.rs`: `wait` locks `zombies`, then `children` (`remove_child`);
  `reparent_children` locks `children`, then `zombies`. With three processes the
  two can wait for each other. A zombie inserted after its parent has given its
  children to init keeps the dead parent and is reaped by nobody (`FamilyTree`
  names the case). Zombies that init adopts wake nobody. After a wake-up the second
  round is non-blocking, so a wait woken by something else than its child returns
  `WouldBlock`; waiters are never removed.
- `cap/revocation.rs`: `register` does not look at the revoked set, so a child
  registered while or after its parent is revoked escapes, although
  `cap/verify.rs` states "When a capability is revoked, all derived capabilities
  are also revoked". `RevokeReaches` is about what was listed when the call began.
  `renew` leaves the old expiry in place: a renewed token is still reported at
  the old time.
- `fs/splaxfs.rs`: a crash between an entry, an inode or a data block and the
  bitmaps makes the next mount hand out the same inode or block again.
  `src/docs/VFS.md:444` calls it a "Native journaling filesystem", but `mount`
  looks for the journal where `format` puts the block bitmap, and
  `format_with_journal` writes a layout `mount` does not read. A rewrite allocates
  all its blocks anew and leaks those the file already has; `create` does not look
  whether the name exists, and the first entry wins.
- `src/services/init/src/lib.rs`: the sweep starts every Failed service, whatever
  its policy, under the comment "Check restart policy before attempting restart"
  (line 1067). `on_service_exit` has no caller, and marks a service to be restarted
  Starting, which nothing starts. `start` resets `restart_count`, so the limit on
  restarts never bites. `stop` ends on an error of `wait` without SIGKILL and
  forgets the pid (lines 725-734), so the process may run on unrecorded; since
  nothing in the kernel calls `add_child`, `wait` answers `NoChildren` and this is
  the arm a stop takes today.

## Proofs

All theorems hold for every value of the constants that satisfies the
assumptions named in the modules (`RingAssumption`, `IpcAssumption`,
`OptionAssumption`, `CapAssumption`, `NoTokenAssumption`, `NoEntryAssumption`,
`SchedulerAssumption`, `NoPidAssumption`, `NoProcessAssumption`,
`RevocationAssumption`, `ProcessWaitAssumption`, `ServiceManagerAssumption`,
`SplaxFsAssumption`), which TLC evaluates on the runs. Every safety property of
the passing runs is a theorem. Each strengthening below was checked with TLC on
the instance of its run before it was proved.

- **SpscRing**: `RingInvariant`, `SlotAccessesDisjoint`, `RingImplementsFifo`.
  That the slots do not collide is not inductive: it needs that each end knows
  its own position exactly and the other's from the past. `RingInv` says so
  (`SenderView`, `ReceiverView`): the producer overestimates what the ring
  holds, the consumer underestimates it, and the filled slot and the copy are
  intact until they are published. The refinement maps the ring to the sequence
  of published slots; only the two stores to the positions are visible.
- **IpcManager**: `IpcInvariant`, `ClosedForever`, `ChannelsImplementFifo`.
  `IpcInv` states the window of each ring (slots in use, consecutive sequence
  numbers), that the pump is on an existing channel and which ids are free. Two
  lemmas, one for `Channel::send` and one for `Channel::receive`, carry all
  callers; every step either leaves a ring alone or is one of those two on one
  channel (`StepMoves`).
  `QueuesKeepOrder` needs that the id of every queued operation has been issued
  (`QueuesOrdered`), also of one that is alone in its queue. `MessagesConserved`
  needs more than the counts: the four places a message can be in are pairwise
  disjoint, and neither the ring nor the queue holds a message twice
  (`MessagesApart`); otherwise taking one copy out would leave another behind.
  `StepFlows` shows that every step moves the messages of a channel in one of six
  ways, among them the two in which `process_pending` drops one, and `FlowShares`
  that each way keeps the division. The counts follow from finite cardinality.
- **CapTable**: `CapInvariant`, `GrantsAttenuate`, `RevocationReachesAll`,
  `RefusalIsFinal`, `OwnerIndexExact`. `CapInv` adds to the properties what makes
  them inductive: tokens not drawn are free, parents and everything a call has
  read are in the table, an entry waiting to be inserted is attenuated already,
  and a live child of a revoked parent is on the list of some activation or its
  parent's children are still to be collected. The last one is why a revocation
  may skip what another one marks. The owner index stays exact because a token
  that is appended was never in the table, hence in no list.
- **Scheduler**: `SchedulerInvariant`, `NoReadyLost`, `TerminatedNeverRuns`.
  `SchedInv` is inductive once its statements on queues are read as statements on
  their members (`Sets`). What remains is to know the members of a queue after
  `enqueue`, `pop` and `retain`. `Vec::retain` is a recursive function over the
  queue (`Retain`); that it keeps exactly the entries other than the terminated
  process, for a queue of any length, is proved by a least counterexample
  (`RetainKeeps`).
- **ProcessWait**: `LocksExclude`, `StatusOnce`, `WakeupsNotLost`,
  `FamilyTreeWhole`. `WaitInv` is inductive; that a status is handed out once is
  not. `DiesOnce` adds what is missing: before a process has inserted itself into
  the zombies there is nothing of it to reap, it inserts itself once, and after it
  is reaped it is no zombie. For the wake-ups, `WakeInv` adds which calls wait for
  whom and whose child a zombie can be: `wait` blocks with `zombies` locked and
  sees no match, so a match inserted later has its wake-up before it. For the
  family tree, `FamilyInv` says what the steps of one process rely on while others
  move: an unborn process is in no list, init lives, a list has been moved to init
  before the records of its zombies are (`Moving`), a zombie has been taken before
  it leaves its list (`Taking`), and the parent that `exit` has looked up still
  lists the process or has died since (`ParentKnown`).
- **Revocation**: `RevocationIsFinal`, `DelegationsAgree`, `ExpiriesKept`,
  `RevocationReaches`. `RevokedForGood` is not inductive: `is_revoked` asks the
  filter, lets go of it, and answers from the set. `FinalInv` adds that a lookup
  between its two questions still finds its token in the filter (`FilterPassed`);
  set and filter only grow, so what was reported stays. The others need which
  locals a call has at which step (`Typed`). `ChainInv` adds the chain a call has
  built and not stored: all its links but the last are listed, or the registration
  that makes one is at `add_child`. Nothing is assumed of the order in which tokens
  are registered. `ExpiryInv` adds that
  only `check_expirations` holds expired tokens. `ReachInv` is the argument of the
  cascade: every token a running revocation must still reach is below one it is
  going to visit, the one it has just descended to or one left on the lists of its
  frames; what is below a token only grows while others register.
- **ServiceManager**: `ServicesAgree`, `NoProcessEscapes`, `RunningServicesRun`,
  `BootNeverStuck`. `IndInv` has three parts: what records and processes say of
  each other (`Runtime`: pids are given out in order, services have pids of
  spawned processes, each its own, and the process of a service that is Stopping
  has been asked to end, which is why `stop` may forget it), that a service is Stopping only while S-INIT
  waits for it (`Control`), and that boot's sets divide its services and `ready`
  holds services whose dependencies have started (`BootSets`). Boot is never stuck
  because the first pending service in the order of `all_ordered` requires no
  pending one, and `mark_failed` has taken those along that require a failed one.
- **SplaxFs**: `FreeCountsNeverShort`, `EntriesAreInitialised`, `FsIsConsistent`,
  `AcknowledgedIsRead`, for any tree of directories, any buffers and any number of
  crashes and failed writes. The invariant has five layers.
  `ShapeInv` says where the running call is: what `op.todo` holds is the end of the
  steps of one of the five calls, so its length is the place, and it determines
  which of the locals are set. The other layers use it as "which step may come
  after which" (`InOrder`).
  `FreeInv` adds the order in which `sync_bitmaps_static` writes (`SyncOrder`): the
  free counts of the superblock would fall short if they were on the disk before
  the bitmaps they count.
  `WrittenInv` adds that the inode a call is about to name is written, because only
  then the entry that names it can be.
  `CrossInv` adds, unless a call was torn, that inodes have one name and blocks one
  owner, that the bitmaps in memory mark all of them, those on the disk as well
  when nothing is unsaved, and that what the running call has allocated is marked
  and used by nobody else (`Held`). A torn call leaves bitmaps on
  the disk that do not mark all that is in use, and a later mount may allocate it.
  `ReadInv` adds that no entry names the root, that what the call has looked up is
  still there, and how many blocks of a write are on the disk already. That two
  different paths never lead to one file (`OnePath`) follows from names being
  unique and the root having none; it is why a write to one path leaves what was
  acknowledged for the others alone. A lookup is a recursive function on the path;
  that it keeps its result while directories grow (`LookupKept`) is proved by a
  least counterexample.

The facts on remainders which the two rings need are proved from the definition
(`SpscRingProofs`, `IpcManagerProofs`).

Induction over data is not available as a rule of the provers (the library's
induction theorems take a predicate as parameter). Where a fact about sequences
of any length is needed it is proved by a least counterexample, from the
well-foundedness of the order on the naturals.

Model-checked only: the liveness properties (`FullRingDrains`,
`PumpTerminates`, `RevokeReturns`, `LoneRealtimeRuns`, `BackToLoop`), which rest
on fairness and ENABLED and are out of the prover's reach.

## Not modelled, and the plan

What is left, in this order:

1. The lock order of `sched/mod.rs` (`terminate` against `switch_to`, and the
   timer interrupt against both), with the three locks as state.
2. SMP run queues (`sched/smp.rs`) and the request schedulers
   (`block/scheduler.rs`), which nothing calls yet.

Left out, and why:

- `FastEndpoint`: a call that times out leaves its reply to the next call, and
  neither it nor its caller in `fs/vfs_stub.rs` matches replies with requests.
  `MessageBatch` adds a loop to `try_send`.
- Distributed IPC and the TCP state machine: `send_remote` of
  `ipc/distributed.rs` and `handle_packet` of `net/tcp.rs` drop what they should
  send, so no exchange of messages takes place that could be checked.
- The history of revocations and `cleanup`; the process table, the handlers,
  masks and queues of signals; containers of S-INIT; two mounts of one device,
  which would keep two sets of bitmaps.
- Memory manager: allocators over addresses and hardware page tables.
- Drivers, boot and architecture code (hardware state), cryptography and WASM
  runtimes (data out of a model checker's reach), the shell and its commands, which
  make up most of the interrupt code, tools. These are by far the largest part of
  the tree's lines.
- The other user-space services: registries, drawing, dialogue and protocol
  parsing in one thread each.

The hazards in `PROJECT.json` that no property covers say why.
