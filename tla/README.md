# TLA+ models of the kernel_programming examples

The repository is a course on Linux kernel programming: about thirty small loadable modules
(`examples/class_3` to `class_7`, `labs`, `interrupt_handler_guide`) and the user programs that
exercise them. The modules do not call each other. Each is a concurrent system of its own, whose
actors are

* the processes that call its file operations (procfs, character devices, netlink),
* the callbacks the kernel runs for it (timers, tasklets, work items, interrupt handlers and threads),
* `insmod` and `rmmod`, which load it, unwind a load that failed, and unload it while the others run.

This directory models those systems, checks them with TLC on small instances and proves the central
results with TLAPS for every instance.

## Which module models what

| TLA+ module | source | state | actions |
|---|---|---|---|
| `DeadlockDemo` | class_3/09 `deadlock_demo.c` | owners of the two mutexes, retries | trylock of each, back off, give up, critical section, unlocks, load and unload |
| `MutexSemDemo` | class_3/07 `mutex_sem_demo.c` | mutex, shared data and message, permits, users | every step of the three read handlers, interrupted waits, copy faults, init and its unwinding, exit |
| `RwlockDemo` | class_3/08 `rwlock_demo.c` | rwlock with its queue, data and time, who is on a CPU | lock, msleep, wake, unlock, scheduling |
| `SpinlockDemo` | class_3/06 `spinlock_demo.c` | spinlock, data, operation count | load and store of the count under the lock, replies; implements `CountedRegister` |
| `AtomicDemo` | class_3/04 `atomic_demo.c` | counters at their width, bits, reference count | one step per atomic call |
| `PosDemo` | class_3/02 `pos_demo.c` | the log, `log_count`, `next_id` | each unlocked access of `add_log_entry`, each entry `memmove` moves, the seq_file walk |
| `Netlink` | class_3/05 `netlink_example.c`, `netlink_test.c` | counter, the headers of the clients, socket queues | fill (the test its own pid, another client any), send, the handler inside sendmsg, answers refused, lost or handed back to the handler, receive |
| `InterruptDemo` | class_4/01 `interrupt_demo.c` | timer, proc entry | open, callback, the steps of exit |
| `ThreadedIrq` | class_5/00 `threaded_irq_demo.c` | wake flag, counters, mutex | primary and threaded handler, writes that call both, show |
| `TaskletDemo` | class_5/03 `tasklet_proirity.c` | timer, two tasklets and their counts | callback, tasklets as load and store, write, exit |
| `WorkQueues` | class_5/04 `work_queues.c` | timer, work with the pool it was queued on last, a handler per pool, delayed work, queue | callback, handlers with `++work_count` as load and store, the steps of exit |
| `TimerImplementation` | class_5/07 `timer_implementation.c` | timer, hrtimer, proc entry | callbacks, the steps of exit |
| `IoctlDemo` | class_5/08 `ioctl_demo.c` | timer, hrtimer, tasklet, work, queue | callbacks, init and its error path, exit |
| `TimerDemos` | class_5/01, 02, 05, 06 and `interrupt_handler_guide/irq_test.c` | timer, work, counters, a clock that wraps | the five callbacks, bottom half, the proc files read counter by counter, exit |
| `IoctlTest` | class_5/08 `ioctl_test.c` | mutex, value, string, what is registered | open, the five ioctls step by step, init and its unwinding; implements `AtomicDevice` |
| `IoctlApp` | class_5/08 `ioctl_app.c` | the calls still to make | the program's commands on the device of `IoctlTest`, beside other processes |
| `ProcExample` | class_3/01 `proc_example.c` | the unlocked buffer | allocation, reads and writes in parts, exit |
| `SysfsExample` | class_3/03 `sysfs_example.c` | value, string | stores byte by byte, load and unload |
| `DataStructures` | class_4/00 `data_structures_demo.c` | items linked, allocated, leaked | each insertion of init, which may fail, the walk of the proc file, the cleanup of exit |
| `MemAllocator` | class_6/01 `mem_allocator_demo.c` | pointers, what is allocated, which times are not zero | each allocating or freeing loop of each command, the proc file, load and unload |
| `SimpleVfs` | class_7/00 `simple_vfs.c`, `test_vfs.c` | dentries and inodes with their references, open files, texts | mount, lookup, create, open, read, write, unlink, close, unmount |
| `BlockDemo` | class_7/01 `block_demo.c` | sectors, requests made of bios and segments | submit, each segment, end of request, init and its unwinding |
| `SharedMemory` | class_6/02 `shared_memory_demo.c`, `shared_mem_test.c` | the two areas, mutex, count | the client's loop, `process_message` step by step |
| `VmaDevice` | class_7/02 `vma_allocation.c` | buffer, mutex, positions, mappings and their pages | read, write, mmap, faults (also inside a copy), stores through a mapping |

Shared parts: `Deferred` is what all kinds of deferred kernel work have in common (pending, running, the
stops that wait); `DeviceModule` is the life of the four devices (`IoctlTest`, `SharedMemory`,
`VmaDevice`, `BlockDemo`) whose init obtains a list of objects and unwinds it where one fails;
`CountedRegister` and `AtomicDevice` are the abstract specifications of two components. `DeviceModule`
simplifies in one respect: a device is opened only once init is over, because `device_create` (for the
disk, `add_disk`), the last step of init, makes its node. With a node made by hand for the number that
`alloc_chrdev_region` chose, an open is possible from `cdev_add` on, and would not be waited for if a
later step of init failed; that is not modelled. Its `Undo` gives back one object at a time, the last
one first, which is the order of the error labels and of exit in all four sources.
The kernel's own services (procfs, mutexes, timers, the module loader) are modelled only as far as the
sources use them:

* `proc_remove` keeps new handlers out and waits for running ones;
* an open file, a mapping or a netlink socket holds its module in memory;
* an interruptible wait may end with a signal, and a copy to or from user memory may fault;
* a work item does not run twice at once on one workqueue, but it may on two, and `cancel_work_sync`
  waits on the pool where the item was queued last;
* a netlink answer goes to the socket bound to the pid in the header, if it has room; pid 0 is the module's
  own socket, and an answer sent there runs the module's handler again.

Conventions. `pc[p]` is the place of process `p` in its handler. `phase` is the life of the module.
An unlocked `int++` is a load and a store. A definition under a comment that starts with `Fault:` is a
plausible error in the definition that follows it, and is not part of any specification: each property
of a passing run fails under one of them (a conjunction, under an error in one of its components). Variables marked `history:` only record what a property needs.

## Composition

The modules share no state, so the modules `MCLocks`, `MCFiles`, `MCDeferred` and `MCDevices` put several of them side by side: a variable chosen in the initial state says whose
behaviour this is, and the others stay in their initial state (`MCSpec` of `MutexSemDemo` does the same
for its two halves, which share only the life cycle). A property there is the
property of a component, or the conjunction of the properties of several that make the same promise
(`TypeOK`, `OnlyKnownLeaks`, `OrderlyUnload`, ...). `DeferredWork` and `ShownCounters` hold the
components and the properties of `MCDeferred`, `BufferDevices` and `Services` those of `MCDevices`, and
`ProcFiles` those of the modules of `MCFiles` with memory behind a file of /proc or /sys, without the
choice: the theorems are about these. They have the form `A!Spec /\ B!Spec => []P`, where P is the
invariant the run checks; a behaviour of the composition is one of each component. Interaction happens inside a component: driver with
clients (`Netlink`, `SharedMemory`, `IoctlApp`), file system with the dentry cache (`SimpleVfs`), timer with tasklet and queue (`TaskletDemo`, `WorkQueues`,
`IoctlDemo`), handler with unload (all of them).

## Runs that pass

* `deadlock_demo`: the critical section is exclusive; who has `resource_a` finds `resource_b` free, so
  the back-off of line 27 is dead code; no path leaks a lock; every read returns.
* `mutex_sem`: what a reader copied under the mutex stays current, no increment is lost, permits are
  conserved on every path and bound the users, and an uninterrupted waiter is served.
* `locks`: the spinlock demo implements a register whose operations are indivisible and numbered, and
  the ioctl device one whose ioctls are indivisible; with a CPU per task the rwlock demo never prints a
  value with the time of another; every handler returns; the ioctl module is taken down in reverse order
  from every failure and never under an open file.
* `files` (safety only): the atomic demo's operation count covers the counter, and a cmpxchg fails only
  if the value changed; the log keeps the newest entries and a walk goes forward, entries are torn only
  while a full log shifts; whichever allocations fail, a command frees what it got, once; caches, items
  and buffers outlive the calls that use them; the unlocked hello buffer and sysfs string show whole texts
  to whoever was not disturbed, and always end, and a viewer of the allocation times divides by zero only if
  a test stored a time after the viewer's check (`UndisturbedIsWhole`); dentry references add up; an undisturbed run of the ioctl program is answered what it set.
* `deferred_work`: for eleven modules, what can still be pending or running when the module is gone (for
  seven nothing, for the other four exactly the case named below: `OnlyKnownLeaks`, `HandlersRight`), that
  no queue is destroyed under its work, that nothing runs more often than it was asked for and unlocked
  tasklet counts are exact (`RunsWereAskedFor`), that comparisons of jiffies are right across a wrap
  (`HandlersRight`), that counter and message of the threaded handler are shown together and that the softirq
  counts shown per CPU cover the total shown before them (`ShownTogether`), and that exit returns against callbacks that re-arm themselves and every interrupt is
  answered (`NoneWaitsForever`).
* `devices`: a netlink client to which no other client has directed an answer finds the answer to its own
  request or none, and the counter never runs ahead (`NetlinkRight`); shared memory answers carry the right number, and an undisturbed client reads its own
  echo (`AnswersRight`); a mapping shows the pages of the file and a read is one moment of the buffer
  (`MappedDeviceRight`); a block request that ends well has moved all its sectors, each to its place
  (`TransfersWhole`); no device leaks an object, and no module goes while a socket, file or mapping uses it
  (`OrderlyUnload` and the two properties of netlink and of the mapped device); calls return even when the
  copy faults on the device's own mapping under the mutex (`CallsReturn`).

## Disagreements found

Each has a run that TLC must refute.

* `rwlock_one_cpu`: both rwlock handlers sleep with a spinning lock held; on one CPU they never return.
* `atomic_lost`: `ref_put` resets the count in a second step and loses a `ref_get` in between.
* `interrupt_unload`: an open between `del_timer_sync` and `proc_remove` arms the timer of a module
  that is about to be freed. `OnlyLateOpenLeaks` shows that this is the only way.
* `timer_entry`: exit removes what a second `proc_create` returned, and leaves the entry in place.
* `pos_overrun`: two writers push `log_count` past the array, and a reader follows it.
* `vfs_unmount`: the lookup of `testfile` makes the file up without the reference that `example_create`
  takes, the unmount drops one from every file all the same, and the inodes of the file and of the root
  are never cleaned up (`labs/lab7/lab7_complete_guide.md:69`).

Five further ones are stated in the passing runs by what they do not promise: a write to the tasklet
file during exit leaves a tasklet scheduled (`OnlyLateWriteLeaks`), the error path of `ioctl_demo.c`
forgets its tasklet (`OnlyFailedInitLeaks`), an init of `data_structures_demo.c` whose `proc_create` fails leaves all its
items allocated (line 222, `OnlyFailedLoadLeaks`), a handler of `work_queues.c` that still sleeps on the
system queue when the work is queued on `custom_wq` is one that `cancel_work_sync` (line 123) no longer waits
for (`OnlyOvertakenRuns`), and the netlink client waits for ever for an answer
that was lost (`TestCompletes`). Four are about texts only, and no run is spent on them:
`test_vfs.c:81` says that opening testfile "should trigger lookup and create", but lookup makes the file
up and create is never called; the guide's listing (line 143) shows inode 1000 where the code takes
`get_next_ino`; `sysfs_example.c:47` is commented as removing the newline, and removes the last byte whatever
it is (`StoreShows` has both cases); `test_vma.c` calls `lseek` before it reads back, but `example_fops`
(`vma_allocation.c:173-180`) has no `llseek`, so that the position stays behind what was written.

## Bounds

Two processes of each kind, three where three-way contention matters (`deadlock_demo`), so that a
third step can fall between any two of another actor. Every path has its cause inside the bounds:

* `MAX_RETRIES` 3 instead of 10: a reader succeeds at each attempt and gives up.
* `MAX_RESOURCES` 1 for two readers instead of 3: the pool runs empty.
* `MAX_LOG_ENTRIES` 2 instead of 100, four additions: the log fills, shifts and is overrun.
* `Half` 4: counters wrap in both directions.
* `MaxFires`, `MaxRounds`, `MaxIrqs` 2 or 3: an item is pending while it runs and while rmmod
  is at each of its steps.
* `MaxRuns` 4 with two CPUs for the system workqueue: two rounds of the timer on each queue, so that the
  handler runs in all three pools at once.
* `NPages` 2 and a mapping one page in: one fault finds a page, the next goes past the end, and a copy
  of two pages can be interleaved.
* `MaxCount` 3, `MaxCalls` 2: two overlapping operations, and one after them for the counts.
* `MaxHellos` 2 and `SocketRoom` 2, one tester and one other client, which asks HELLO or something unknown
  and writes any pid: two HELLOs overlap, an answer strays, and a socket overflows.
* `Width` 16 with `Later` 3 and `Future` 2: jiffies starts at 0 or one tick before it wraps, and
  every comparison within half the range is made; `CpuCount` 2.
* `ArraySize` 2 instead of 10 to 1000, `MaxCommands` 1: each subset of the allocations fails, beside the
  first test in init; one slot of each parity.
* `StringSize` 3, `MAX_STRING_SIZE` 3, `DataSize` 2: a text that fits, one as long as the array, and two
  stores that interleave byte by byte.
* Two dentries, two inodes: lookup, create, and reuse after a free. With three inodes (834,000 states)
  the properties of `SimpleVfs` hold as well.
* `Sectors` 3, requests of one bio with two segments and of two bios: a request ends at the last sector,
  and the segments of two requests interleave.

Bounds limit how much work is begun; they do not keep a started operation from ending. The one
exception is `MaxHellos`: past it a HELLO fails in sendmsg, which is also a behaviour of the code, and a
HELLO that the handler answers to its own socket again and again is followed only so far.

## Fairness

Weak fairness for a task that can run, a callback that has started and the steps of exit: the kernel
schedules them. Strong fairness for taking a mutex or a semaphore (their waiters are queued and handed
the lock) and for being given a CPU in `RwlockDemo`. There is none for processes starting a call,
users sending signals, or `rmmod`, and none for the netlink clients other than the test. Timers are not fair: no property needs one to expire. `MCFiles` has no
fairness, because all its properties are invariants.

## Proofs

Eight modules hold the theorems. Each component has one or more inductive invariants, with a lemma for
Init and a lemma for `[Next]_vars` that has a step per action; the properties follow from them.
A proof module begins with a `USE` that gives the provers 40 seconds for a leaf; alone on a machine a leaf
takes a few seconds at most.

* `Requests_proofs`: type correctness, `CriticalExclusive`, `SecondTrylockSucceeds` and
  `NoLockLeaked` of `DeadlockDemo`, for any processes and any `MAX_RETRIES`, and `NetlinkRight` and type
  correctness of `Netlink`, for any finite number of clients. The properties of the locks are not inductive,
  because they do not say who holds what: `LockInv` ties each mutex to the program counter of its owner, and
  from it whoever holds `resource_b` also holds `resource_a`. For the unlocked netlink counter, `NlCountInv`
  counts the clients between counting a HELLO and storing it: counter plus those clients, and what each of
  them loaded plus those clients, stay within the HELLOs, which is what makes a stale store harmless.
  `NlAnswerInv` says what is on the socket of a client to which nobody else has directed an answer: only the
  answer to its own request, with a number within the HELLOs. Any number of other clients may write any pid.
  Then `MappedDeviceRight` and type correctness of `VmaDevice`, for any processes, pages and offsets:
  `VmMutexInv` gives the mutex to the call inside, `VmCallInv` cuts position and count to the buffer,
  `VmMapInv` has every page behind a mapping at its offset inside the buffer (the fault inside a copy
  included), and `VmMomentInv` says that until a mapping is stored to, the buffer is what it was when the
  mutex was taken and the read has delivered just that, from its position on.
* `Counters_proofs`: of `MutexSemDemo`, type correctness, `CopyStaysCurrent`, `NoLostUpdate`, `PermitsConserved`,
  `UsersWithinPool`, for any finite sets of readers and any number of permits. The mutex half rests on the
  owner being the only process inside the section and on its local copy being current; the semaphore half
  on free permits plus the cardinality of the set of holders being `MAX_RESOURCES`; what it uses about
  counting readers (`Counting`) is proved at the end from `FiniteSetTheorems`.
  Also `ShownTogether`, `HandlersRight` and the types of `TimerDemos`, for any number of
  CPUs, any width of jiffies and any writers and viewers. `IrqPairInv` allows counter and message to differ
  only between the two assignments under the mutex. `TmSumInv` relates the total a reader has shown to the
  CPUs it has still to show, through a function of partial sums that every step but a raise leaves alone
  and a raise increases from its CPU on. `TmClockInv` has jiffies as the start plus the ticks since, wrapped
  at most once, from which the signed comparison is right for half the range.
* `DeviceModule_proofs`: type correctness, `NothingLeftBehind` and `BufferOutlivesUsers` for any list of
  objects that init obtains, with any numbers of open files and mappings: what is held is an initial part of
  the list, and all of it while the module is live. For the ioctl device, the shared memory, the mapped
  device and the disk it is proved that each of their steps is a step of `DeviceModule` or leaves its variables alone, so that the
  three results hold for them.
* `MCLocks_proofs`: type correctness of `SpinlockDemo`, and that every step of it is a step of
  `CountedRegister` or a stutter. In the refinement mapping an operation takes effect when it accesses
  `shared_data`, so until the store of the count the abstract count is one ahead;
  `SectionInv` says that the lock belongs to the process inside and that what it loaded is current.
  Then the types and `SnapshotConsistent` of the rwlock demo, for any readers, writers and number of CPUs,
  and the refinement of `AtomicDevice` and `OpenFilesPin` of the ioctl device, for any processes, arguments
  and size of the array. `RwLockInv` says that the holders of the lock are the tasks inside and that readers
  and a writer exclude each other; `RwPairInv` that value and time were set together except between the two
  assignments of a writer. RESET takes effect at its first store, so the mapping shows the default string
  from there on; `ItMutexInv` says that the mutex belongs to the call inside and that a call is made on an
  open file of a live module, `ItTypeInv` what a call carries from its copy to its store.
* `DeferredWork_proofs`: `OnlyKnownLeaks`, `RunsWereAskedFor` and type correctness of `InterruptDemo`,
  `TimerImplementation`, `TaskletDemo`, `WorkQueues` and `IoctlDemo`. The invariants of stopping (`IdStopInv`,
  `TdStopInv`, ...) say, for each step of exit, which sources are already off for good; without the order
  of the steps none of them is inductive, because a source that still runs arms what was stopped. The
  invariants of asking (`IdAskInv`, `TdAskInv`, `IoAskInv`) add the executions that are over, running and
  pending and the processes on their way to ask for one, and compare them with what was asked: each step
  moves one from one summand to the next. In `WorkQueues` the item is remembered only on its last pool, so
  `WqStopInv` says of each step of exit what the pool of the item and `custom_wq` still run, and leaves the
  other pools open; `WqCountInv` bounds what each handler has loaded by the rounds of the timer. `Numbers` has the vocabulary for how many processes are at a
  place, and what the proofs use of it is proved at the end from `FiniteSetTheorems`.
* `BufferDevices_proofs`: `TransfersWhole`, `OrderlyUnload` and the types of the disk, and `AnswersRight`
  of the shared memory. For the disk the requests may be cut in any way that
  leaves no gap (`Tiled`): `BdRequestInv` says that the iterators of a request point into it and that the
  sector is the first one plus what was gone through, `BdMovedInv` that up to there pages and disk agree.
  `SmCountInv` lets the count be one ahead between increment and unlock; `SmEchoInv` says that while a client
  is alone the others have not cleared the response, so each of its steps finds what its last one left.
* `ProcFiles_proofs`: `AllFreedOnce`, `OutlivesCalls` and `UndisturbedIsWhole`, for any
  users and viewers, any sizes of the pointer arrays, the queue and the string, and any number of commands.
  That a command of `MemAllocator` frees what it holds cannot be seen from the loop that frees: `MaOwns`
  says at which loop of which command a runner stands and what it holds there, for the seventeen loops of
  the first command, the five of the second and the two of the third, and one lemma per command shows that
  a loop leads to the next place. `DsInv` says that a walk has seen, and exit has freed, the structures they
  passed and no others. `PeInv` and `SeStoresOK` say of a call that nobody disturbed that what it has
  written so far is still there; of the stores that did disturb each other, that none reaches the last byte,
  which is also stated by itself (`StringAlwaysEnds`).
* `SimpleVfs_proofs`: `ReferencesAddUp` and `TextTerminated`, for any finite set of processes and any names,
  dentries, inodes and size of the arrays. `RefsOK` is what makes the references inductive: besides the
  counts, no two dentries lead to one inode and none to the root, every inode but the root has a dentry, and
  the dentry of an unlink under way is hashed and no longer pinned; then the last `dput` frees exactly the
  inode nobody has open, and the unmount leaves nothing. It holds until a reference is dropped that was
  never taken (`underflow`), as the property does. `TextsOK` says that no write reaches the last byte.

The assumptions are the named ASSUMEs of `DeadlockDemo`, `MutexSemDemo`, `SpinlockDemo`, `MCLocks`,
`DeferredWork`, `ShownCounters`, `BufferDevices`, `Services`, `ProcFiles` and `SimpleVfs`, which TLC evaluates
for the values of the runs: sets of processes are finite and disjoint where the model needs it, bounds are
natural numbers, the value for "no owner" is not a process, the times that are compared are less than half
the range of jiffies, the block layer cuts requests without gaps, and the arrays of texts have room for
the NUL. The theorems of `DeviceModule_proofs` have a hypothesis of their own: init obtains something.

Only model-checked: all liveness (fairness and ENABLED are outside the prover's reach); `AtomicsAgree`,
`LogInOrder` and `TestAnswersRight`, `MCTypeOK` of `MCFiles`, and the types of `ThreadedIrq` and
`SharedMemory`, for which there is no theorem yet although nothing in them is beyond the prover.
Facts about recursively defined data need induction over an operator parameter, which the
prover cannot instantiate; no module depends on one.

## Inventory of what is not modelled

* `test_vma.c`: one order of the calls whose every order `VmaDevice` has; its `lseek` moves nothing (above),
  so that `VmaDevice` has no step for it.
* class_4/02 (`arch_demo.c`): prints the architecture and the CPUs, and keeps no state.
* `labs/lab1` (`process_info.c`, `task_monitor.c`, `sched_test.c`): print the kernel's tasks and change
  nothing. The state they read is the kernel's alone, so a model would be of the task list and not of
  this code. Two observations from reading: neither module takes `rcu_read_lock` around its walk, and
  `state & TASK_RUNNING` is never true, because `TASK_RUNNING` is 0.
* Hello modules, the assignment, `inline_assembly`, `int_80`: straight-line code without a second actor.
* In `SimpleVfs`, readdir (three fixed names) and statfs (constants), which change nothing.
* In all modules: message texts, logging, times that are only printed, and padding and layout of output.
